---------------------------- MODULE OutboundPool ----------------------------
(***************************************************************************)
(* The pool of outbound proxies: internal/proxy/pool.go, ProxyPool, with   *)
(* its operator API (internal/handlers/proxies.go), its Redis keys         *)
(* (internal/db/db.go, SaveProxy to LoadProxies) and the two functions     *)
(* through which upstream requests use it (internal/upstream/upstream.go,  *)
(* getClient and markProxyResult).                                         *)
(*                                                                         *)
(* A change of an entry is a critical section of p.mu; forgetting the      *)
(* cached transport and the commands to Redis follow it one by one, so     *)
(* requests, the operator and a restart come between, and any of them may  *)
(* fail: an error of HSET or DEL ends the call, one of SADD or SREM does   *)
(* not.  An entry is its address (protocol, host, port, user, password),   *)
(* its flag and its count.                                                 *)
(* The Redis counter of the rotation is shared with other instances:       *)
(* Next may return any enabled entry, or none in scope.                    *)
(***************************************************************************)
EXTENDS Naturals, FiniteSets

CONSTANTS
  ProxyIds,        \* ids newProxyID generates
  Addresses,       \* addresses of proxies, numbers above 0
  PoolClients,     \* request goroutines
  FailThreshold    \* PROXY_FAIL_THRESHOLD

Dashboard == "dashboard"   \* the operator: one call at a time
PoolActors == PoolClients \cup {Dashboard}
NoAddress == 0
MaxFailCount == FailThreshold + 1   \* bound: failures that are counted

ASSUME PoolAssumption ==
  /\ IsFiniteSet(ProxyIds) /\ IsFiniteSet(PoolClients)
  /\ Addresses \subseteq Nat \ {NoAddress}
  /\ Dashboard \notin PoolClients
  /\ FailThreshold \in Nat \ {0}

NoEntry == [addr |-> NoAddress, enabled |-> FALSE, fc |-> 0, here |-> FALSE]
NewEntry(a, on) == [addr |-> a, enabled |-> on, fc |-> 0, here |-> TRUE]
ProxyEntry == [addr : Addresses \cup {NoAddress}, enabled : BOOLEAN, fc : Nat, here : BOOLEAN]

VARIABLES
  entries,      \* ProxyPool.entries, NoEntry where there is none
  transports,   \* ProxyPool.transports: the address it dials, or NoAddress
  proxyHash,    \* fr:proxy:<id>; its enabled field is never read and left FALSE
  enabledSet,   \* fr:proxy:enabled
  touches,      \* go UpdateProxyLastUsed calls under way
  call,         \* each goroutine: its next step, the id and the entry it has
  usedIds,      \* history: ids that were generated
  deleted,      \* history: ids that were deleted from Redis, hash and member
  raced,        \* history: ids changed while a request was between Next and Transport
  late          \* history: ids whose count and flag in Redis may be of different times: a
                \* write crossed a change, failed, or was cut off by a restart

poolVars == <<entries, transports, proxyHash, enabledSet, touches, call,
              usedIds, deleted, raced, late>>

NoCallYet == [step |-> "idle", id |-> "none", entry |-> NoEntry, op |-> "none"]

PoolInit ==
  /\ entries = [i \in ProxyIds |-> NoEntry]
  /\ transports = [i \in ProxyIds |-> NoAddress]
  /\ proxyHash = [i \in ProxyIds |-> NoEntry]
  /\ enabledSet = {}
  /\ touches = {}
  /\ call = [a \in PoolActors |-> NoCallYet]
  /\ usedIds = {} /\ deleted = {} /\ raced = {} /\ late = {}

-----------------------------------------------------------------------------
(* Steps                                                                   *)

Calls(a, step) == call[a].step = step
Step(a, step, i, e, op) == [call EXCEPT ![a] = [step |-> step, id |-> i, entry |-> e, op |-> op]]
Then(a, step) == call' = [call EXCEPT ![a].step = step]
Returns(a) == call' = [call EXCEPT ![a] = NoCallYet]
enabled == {i \in ProxyIds : entries[i].enabled}

\* Actor a has a write of entry i to Redis before it.
Writing(a, i) == call[a].id = i /\ call[a].step \in {"forget", "hset", "member", "count"}

\* entries[i] becomes e under p.mu.  Requests that picked the entry before
\* hold its old address; writes that are yet to come are old.
SetEntry(i, e) ==
  /\ entries' = [entries EXCEPT ![i] = e]
  /\ raced' = IF \E c \in PoolClients : Calls(c, "picked") /\ call[c].id = i
              THEN raced \cup {i} ELSE raced
  /\ late' = IF \E c \in PoolActors : Writing(c, i) THEN late \cup {i} ELSE late

ForgetTransport(a) ==
  /\ Calls(a, "forget")
  /\ transports' = [transports EXCEPT ![call[a].id] = NoAddress]
  /\ Then(a, IF call[a].op = "Delete" THEN "del" ELSE "hset")
  /\ UNCHANGED <<entries, proxyHash, enabledSet, touches, usedIds, deleted,
                 raced, late>>

\* The flag is kept in the set, not in the hash.
entryToDTO(e) == [e EXCEPT !.enabled = FALSE]

\* SaveProxy: HSET, then SADD or SREM.
HashSaved(a) == [proxyHash EXCEPT ![call[a].id] = entryToDTO(call[a].entry)]
HashDeleted(a) == [proxyHash EXCEPT ![call[a].id] = NoEntry]

SaveProxyHash(a) ==
  /\ Calls(a, "hset")
  /\ proxyHash' = HashSaved(a)
  /\ Then(a, "member")
  /\ UNCHANGED <<entries, transports, enabledSet, touches, usedIds, deleted,
                 raced, late>>

AfterMember(a) == IF call[a].op = "Add" THEN Then(a, "append") ELSE Returns(a)

SaveProxyMember(a) ==
  /\ Calls(a, "member")
  /\ enabledSet' = IF call[a].entry.enabled THEN enabledSet \cup {call[a].id}
                   ELSE enabledSet \ {call[a].id}
  /\ AfterMember(a)
  /\ UNCHANGED <<entries, transports, proxyHash, touches, usedIds, deleted,
                 raced, late>>

\* SADD or SREM fails, which is only logged: SaveProxy has saved.
SaveProxyMemberFails(a) ==
  /\ Calls(a, "member")
  /\ late' = late \cup {call[a].id}
  /\ AfterMember(a)
  /\ UNCHANGED <<entries, transports, proxyHash, enabledSet, touches, usedIds,
                 deleted, raced>>

\* An HSET of one field creates the hash where there is none.
UpdateProxyFailCount(a) ==
  /\ Calls(a, "count")
  /\ LET i == call[a].id
     IN proxyHash' = [proxyHash EXCEPT ![i].here = TRUE, ![i].fc = call[a].entry.fc]
  /\ Returns(a)
  /\ UNCHANGED <<entries, transports, enabledSet, touches, usedIds, deleted,
                 raced, late>>

UpdateProxyLastUsed(i) ==
  /\ i \in touches
  /\ touches' = touches \ {i}
  /\ proxyHash' \in {proxyHash, [proxyHash EXCEPT ![i].here = TRUE]}   \* it may fail
  /\ UNCHANGED <<entries, transports, enabledSet, call, usedIds, deleted,
                 raced, late>>

\* DeleteProxy: DEL, then SREM.
DeleteProxyHash(a) ==
  /\ Calls(a, "del")
  /\ proxyHash' = HashDeleted(a)
  /\ Then(a, "srem")
  /\ UNCHANGED <<entries, transports, enabledSet, touches, usedIds, deleted,
                 raced, late>>

DeleteProxyMember(a) ==
  /\ Calls(a, "srem")
  /\ enabledSet' = enabledSet \ {call[a].id}
  /\ deleted' = deleted \cup {call[a].id}
  /\ Returns(a)
  /\ UNCHANGED <<entries, transports, proxyHash, touches, usedIds, raced, late>>

\* An error of SREM is ignored: the deletion succeeds, and the id stays in the
\* set without a hash.
DeleteProxyMemberFails(a) ==
  /\ Calls(a, "srem")
  /\ Returns(a)
  /\ UNCHANGED <<entries, transports, proxyHash, enabledSet, touches, usedIds,
                 deleted, raced, late>>

\* An error or a time-out ends the call; the command was done or not.
RedisRefuses(a) ==
  /\ \/ Calls(a, "hset") /\ proxyHash' \in {proxyHash, HashSaved(a)}
     \/ Calls(a, "del") /\ proxyHash' \in {proxyHash, HashDeleted(a)}
     \/ Calls(a, "count") /\ UNCHANGED proxyHash
  /\ Returns(a)
  /\ late' = late \cup {call[a].id}
  /\ UNCHANGED <<entries, transports, enabledSet, touches, usedIds,
                 deleted, raced>>

-----------------------------------------------------------------------------
(* The operator                                                            *)

\* A host and a port are wanted.
validateEntry(addr) == addr # NoAddress

\* Add saves before it appends.
Add(a, i, addr, on) ==
  /\ a = Dashboard /\ Calls(a, "idle")
  /\ validateEntry(addr)
  /\ i \notin usedIds
  /\ usedIds' = usedIds \cup {i}
  /\ call' = Step(a, "hset", i, NewEntry(addr, on), "Add")
  /\ UNCHANGED <<entries, transports, proxyHash, enabledSet, touches, deleted,
                 raced, late>>

AddAppends(a) ==
  /\ Calls(a, "append")
  /\ SetEntry(call[a].id, call[a].entry)
  /\ Returns(a)
  /\ UNCHANGED <<transports, proxyHash, enabledSet, touches, usedIds, deleted>>

\* HandleUpdateProxy: without a flag in the request it takes that of Get,
\* before Update takes the lock.
HandleUpdateProxy(a, i, addr) ==
  /\ a = Dashboard /\ Calls(a, "idle")
  /\ entries[i].here /\ validateEntry(addr)
  /\ \E on \in {entries[i].enabled, ~entries[i].enabled} :
       call' = Step(a, "update", i, NewEntry(addr, on), "Update")
  /\ UNCHANGED <<entries, transports, proxyHash, enabledSet, touches, usedIds,
                 deleted, raced, late>>

\* Mutant of Update: the transport of the old address stays.
Update_KeepsTransport(a) ==
  /\ Calls(a, "update")
  /\ SetEntry(call[a].id, call[a].entry)
  /\ deleted' = deleted \ {call[a].id}
  /\ Then(a, "hset")
  /\ UNCHANGED <<transports, proxyHash, enabledSet, touches, usedIds>>

Update(a) ==
  /\ Calls(a, "update")
  /\ SetEntry(call[a].id, call[a].entry)
  /\ deleted' = deleted \ {call[a].id}
  /\ Then(a, "forget")
  /\ UNCHANGED <<transports, proxyHash, enabledSet, touches, usedIds>>

Delete(a, i) ==
  /\ a = Dashboard /\ Calls(a, "idle")
  /\ entries[i].here
  /\ SetEntry(i, NoEntry)
  /\ call' = Step(a, "forget", i, NoEntry, "Delete")
  /\ UNCHANGED <<transports, proxyHash, enabledSet, touches, usedIds, deleted>>

Toggle(a, i) ==
  /\ a = Dashboard /\ Calls(a, "idle")
  /\ entries[i].here
  /\ LET on == ~entries[i].enabled
         e == [entries[i] EXCEPT !.enabled = on, !.fc = IF on THEN 0 ELSE @]
     IN  SetEntry(i, e) /\ call' = Step(a, "hset", i, e, "Toggle")
  /\ deleted' = deleted \ {i}
  /\ UNCHANGED <<transports, proxyHash, enabledSet, touches, usedIds>>

-----------------------------------------------------------------------------
(* Requests                                                                *)

HandleAddProxy(a, i) ==
  \E addr \in Addresses \cup {NoAddress}, on \in BOOLEAN : Add(a, i, addr, on)
HandleDeleteProxy(a, i) == Delete(a, i)
HandleToggleProxy(a, i) == Toggle(a, i)

Next(c, i) ==
  /\ c \in PoolClients /\ Calls(c, "idle")
  /\ i \in enabled
  /\ touches' = touches \cup {i}
  /\ call' = Step(c, "picked", i, entries[i], "none")
  /\ UNCHANGED <<entries, transports, proxyHash, enabledSet, usedIds, deleted,
                 raced, late>>

buildTransport(e) == e.addr

\* The cached transport, or one built from the entry in hand, which is cached.
\* Without a host none can be built, and the entry is marked.
Transport(c) ==
  /\ Calls(c, "picked")
  /\ LET i == call[c].id
         cached == transports[i] # NoAddress
     IN  /\ transports' = [transports EXCEPT ![i] = IF cached THEN @ ELSE buildTransport(call[c].entry)]
         /\ call' = Step(c, IF ~cached /\ buildTransport(call[c].entry) = NoAddress THEN "failed" ELSE "sent",
                         i, NoEntry, "none")
  /\ UNCHANGED <<entries, proxyHash, enabledSet, touches, usedIds, deleted,
                 raced, late>>

\* The request through the proxy has ended.
markProxyResult(c) ==
  /\ Calls(c, "sent")
  /\ \E result \in {"failed", "succeeded"} : Then(c, result)
  /\ UNCHANGED <<entries, transports, proxyHash, enabledSet, touches, usedIds,
                 deleted, raced, late>>

\* Mutant of Exhausted.
Exhausted_OffByOne(fc) == fc > FailThreshold

Exhausted(fc) == fc >= FailThreshold

MarkFailed(c) ==
  /\ Calls(c, "failed")
  /\ LET i == call[c].id
         fc == entries[i].fc + 1
         disable == Exhausted(fc) /\ entries[i].enabled
         e == [entries[i] EXCEPT !.fc = fc, !.enabled = @ /\ ~disable]
     IN  \/ /\ entries[i].here /\ fc <= MaxFailCount
            /\ SetEntry(i, e)
            /\ call' = Step(c, IF disable THEN "forget" ELSE "count", i, e, "MarkFailed")
         \/ /\ ~entries[i].here
            /\ Returns(c)
            /\ UNCHANGED <<entries, raced, late>>
  /\ UNCHANGED <<transports, proxyHash, enabledSet, touches, usedIds, deleted>>

MarkSuccess(c) ==
  /\ Calls(c, "succeeded")
  /\ LET i == call[c].id
         e == [entries[i] EXCEPT !.fc = 0]
     IN  IF entries[i].fc # 0
         THEN SetEntry(i, e) /\ call' = Step(c, "count", i, e, "MarkSuccess")
         ELSE Returns(c) /\ UNCHANGED <<entries, raced, late>>
  /\ UNCHANGED <<transports, proxyHash, enabledSet, touches, usedIds, deleted>>

-----------------------------------------------------------------------------
\* The process stops anywhere; a new one runs Load.
\* Mutant of dtoToEntry: a hash without the fields of an entry is enabled.
dtoToEntry_LegacyOn(i, members) ==
  [proxyHash[i] EXCEPT !.enabled = (i \in members \/ proxyHash[i].addr = NoAddress)]

dtoToEntry(i, members) == [proxyHash[i] EXCEPT !.enabled = (i \in members)]

\* A hash whose HGETALL is not answered is skipped, all of them without a SCAN.
LoadProxies(answered, members) ==
  [i \in ProxyIds |-> IF proxyHash[i].here /\ i \in answered THEN dtoToEntry(i, members) ELSE NoEntry]

\* An error of SMEMBERS is ignored: every entry is loaded disabled.
Load ==
  /\ \E answered \in SUBSET ProxyIds, members \in {enabledSet, {}} :
       /\ entries' = LoadProxies(answered, members)
       /\ late' = late \cup {i \in ProxyIds : \E a \in PoolActors : Writing(a, i)}
                      \cup (enabledSet \ members)
  /\ transports' = [i \in ProxyIds |-> NoAddress]
  /\ touches' = {}
  /\ call' = [a \in PoolActors |-> NoCallYet]
  /\ raced' = {}
  /\ UNCHANGED <<proxyHash, enabledSet, usedIds, deleted>>

\* Next and Transport are its two steps.
getClient(c) == Transport(c) \/ \E i \in ProxyIds : Next(c, i)

PoolStep(a) ==
  \/ ForgetTransport(a) \/ SaveProxyHash(a) \/ SaveProxyMember(a) \/ SaveProxyMemberFails(a)
  \/ UpdateProxyFailCount(a) \/ DeleteProxyHash(a)
  \/ DeleteProxyMember(a) \/ DeleteProxyMemberFails(a) \/ RedisRefuses(a)
  \/ AddAppends(a) \/ Update(a)
  \/ getClient(a) \/ markProxyResult(a) \/ MarkFailed(a) \/ MarkSuccess(a)

PoolCall(a, i) ==
  \/ HandleAddProxy(a, i) \/ HandleDeleteProxy(a, i) \/ HandleToggleProxy(a, i)
  \/ \E addr \in Addresses \cup {NoAddress} : HandleUpdateProxy(a, i, addr)

PoolNext ==
  \/ \E a \in PoolActors : PoolStep(a) \/ \E i \in ProxyIds : PoolCall(a, i)
  \/ \E i \in ProxyIds : UpdateProxyLastUsed(i)
  \/ Load

PoolSpec == PoolInit /\ [][PoolNext]_poolVars

-----------------------------------------------------------------------------
(* Properties                                                              *)

PoolTypeOK ==
  /\ entries \in [ProxyIds -> ProxyEntry]
  /\ transports \in [ProxyIds -> Addresses \cup {NoAddress}]
  /\ proxyHash \in [ProxyIds -> ProxyEntry]
  /\ enabledSet \subseteq ProxyIds /\ touches \subseteq ProxyIds
  /\ \A a \in PoolActors : call[a].entry \in ProxyEntry

\* Requests are sent through the proxy the operator configured: a cached
\* transport dials the address of its entry once Update, Delete or
\* MarkFailed has forgotten the old one, unless a request was between Next
\* and Transport at the change and cached the old address afterwards.
TransportCurrent ==
  \A i \in ProxyIds :
    (transports[i] # NoAddress /\ i \notin raced
       /\ \A a \in PoolActors : ~(Calls(a, "forget") /\ call[a].id = i)) =>
      transports[i] = entries[i].addr

\* A proxy that was deleted from Redis, its hash and its membership, carries
\* no request again, through late counts, touches and saves of requests and
\* through restarts: what they leave in Redis is loaded as disabled, for
\* LoadProxies takes the flag from the set, and only the operator can enable
\* it.  A deletion whose SREM failed is none of these, although DeleteProxy
\* reports success: the next touch recreates the hash, and a restart enables it.
DeletedStaysOff == deleted \cap enabled = {}

\* An enabled entry has failures left before MarkFailed disables it, after a
\* restart too, unless a count was written late across a change, or a command
\* about it failed or was cut off by the restart.
EnabledBelowThreshold ==
  \A i \in enabled : entries[i].fc < FailThreshold \/ i \in late
=============================================================================
