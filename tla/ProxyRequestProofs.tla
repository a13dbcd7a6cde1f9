------------------------- MODULE ProxyRequestProofs -------------------------
(***************************************************************************)
(* Proofs about the chat pipeline, for every set of requests and models    *)
(* and every combo an operator may save while they run: what a request     *)
(* tries, in which order, how often, with which reasoning effort, and when *)
(* the body of an error is cached.                                         *)
(*                                                                         *)
(* Every part of the invariant is about one request; what the others and   *)
(* the operator do reaches it through the registry, which it reads three   *)
(* times, and the cache.                                                   *)
(***************************************************************************)
EXTENDS ProxyRequest, SequenceTheorems, TLAPS

(* The models a request may have.  What Resolve selects is left as it is:  *)
(* no fact about it is needed.                                             *)
RequestModels ==
  {NoModel} \cup Models \cup UNION {Resolve(c, up) : c \in Combos, up \in SUBSET Upstreams}
Efforts == {"none", "medium"} \cup {AliasEffort[m] : m \in RequestModels}
Bodies == {"none", "complete", "partial", "error"}
Statuses == {200, 400, 403, 404, 503}
Attempt == [model : RequestModels, status : Statuses, effort : Efforts]
RequestRecord ==
  [pc : {"idle", "resolve", "strategy", "snapshot", "direct", "loop", "finish", "done"},
   stream : {"no", "body", "accept"}, effort : Efforts, given : BOOLEAN,
   model : RequestModels, strategy : {"none"} \cup {c.strategy : c \in Combos},
   chain : Seq(Models), tried : Seq(Attempt), status : Statuses, body : Bodies,
   upstreamName : {"codebuddy"} \cup {Upstream(m) : m \in RequestModels}]

AllOutcomes == {"answer", "cut", "clientError", "failure", "notFound", "unparsed", "gone"}

ProxyTypes ==
  /\ combo \in Combos \cup {Deleted}
  /\ open \in SUBSET Upstreams
  /\ cached \in Bodies
  /\ req \in [Requests -> RequestRecord]

(* Nothing has been tried before the request has its model and chain. *)
Untried(q) ==
  q.pc \in {"idle", "resolve", "strategy", "snapshot", "direct"} =>
    q.chain = <<>> /\ q.tried = <<>> /\ q.status = 200 /\ q.body = "none"

(* Only requests that are not streams get a chain and its loop. *)
ChainIsNoStream(q) == q.pc \in {"snapshot", "loop"} => ~ClientStream(q)

(* The attempts of a chain follow it, and the last of them decides. *)
FollowsChain(q) ==
  q.chain # <<>> =>
    /\ Len(q.tried) <= Len(q.chain)
    /\ \A i \in 1..Len(q.tried) : q.tried[i].model = q.chain[i]
    /\ \A i \in 1..(Len(q.tried) - 1) : Retryable(q.tried[i].status)
    /\ q.pc = "finish" /\ Retryable(q.status) => Len(q.tried) = Len(q.chain)

(* In the loop every attempt so far failed, and there is one more to make. *)
InTheLoop(q) ==
  q.pc = "loop" =>
    /\ Len(q.tried) < Len(q.chain)
    /\ \A i \in 1..Len(q.tried) : Retryable(q.tried[i].status)
    /\ q.tried = <<>> => q.body = "none"

SentOnce(q) == ClientStream(q) => Len(q.tried) <= 1

EffortGiven(q) ==
  q.given =>
    /\ q.effort = "medium"
    /\ \A i \in 1..Len(q.tried) : q.tried[i].effort = "medium"

(* After at most one dispatch status and body are of the same answer. *)
BodyOfStatus(q) ==
  q.pc = "finish" /\ Len(q.tried) <= 1 /\ q.status = 200 => q.body # "error"

RequestInv(q) ==
  /\ Untried(q) /\ ChainIsNoStream(q) /\ FollowsChain(q) /\ InTheLoop(q)
  /\ SentOnce(q) /\ EffortGiven(q) /\ BodyOfStatus(q)

ProxyInv == ProxyTypes /\ \A r \in Requests : RequestInv(req[r])

-----------------------------------------------------------------------------
LEMMA IdleFields ==
  /\ Idle \in RequestRecord
  /\ Idle.pc = "idle" /\ Idle.stream = "no" /\ Idle.effort = "none" /\ Idle.given = FALSE
  /\ Idle.chain = <<>> /\ Idle.tried = <<>> /\ Idle.status = 200 /\ Idle.body = "none"
  BY DEF Idle, RequestRecord, RequestModels, Efforts, Statuses, Bodies

LEMMA EmptyTried ==
  /\ Len(<<>>) = 0
  /\ 1..Len(<<>>) = {}
  /\ 1..(Len(<<>>) - 1) = {}
  OBVIOUS

(* A request before its first attempt satisfies what is said of attempts. *)
LEMMA FreshRequest ==
  ASSUME NEW q \in RequestRecord, q.chain = <<>>, q.tried = <<>>, q.body = "none",
         q.pc # "loop", q.status = 200 \/ q.pc = "done", q.pc = "snapshot" => ~ClientStream(q),
         q.given => q.effort = "medium"
  PROVE  RequestInv(q)
  BY EmptyTried
  DEF RequestInv, Untried, ChainIsNoStream, FollowsChain, InTheLoop, SentOnce, EffortGiven,
      BodyOfStatus

LEMMA OutcomeFacts ==
  /\ \A q, m : Outcomes(q, m) \subseteq AllOutcomes
  /\ \A o \in AllOutcomes :
       /\ StatusOf(o) \in Statuses
       /\ BodyOf(o) \in Bodies
       /\ StatusOf(o) = 200 /\ o \notin {"gone", "unparsed"} => BodyOf(o) # "error"
<1>1. \A q, m : Outcomes(q, m) \subseteq AllOutcomes
  BY DEF Outcomes, AllOutcomes
<1>2. ASSUME NEW o \in AllOutcomes
      PROVE  /\ StatusOf(o) \in Statuses
             /\ BodyOf(o) \in Bodies
             /\ StatusOf(o) = 200 /\ o \notin {"gone", "unparsed"} => BodyOf(o) # "error"
  BY DEF AllOutcomes, StatusOf, BodyOf, Statuses, Bodies
<1> QED BY <1>1, <1>2

(* An alias puts an effort only where there is none. *)
LEMMA AliasKeepsEffort ==
  /\ \A m : ExpandGrokAlias("medium", m) = "medium"
  /\ \A e \in Efforts, m \in RequestModels : ExpandGrokAlias(e, m) \in Efforts
  BY DEF ExpandGrokAlias, Efforts

(* What a dispatch leaves in the request. *)
Dispatched(q, m, o, d) ==
  /\ d.pc = q.pc /\ d.stream = q.stream /\ d.given = q.given /\ d.chain = q.chain
  /\ d.effort = ExpandGrokAlias(q.effort, m)
  /\ d.status = StatusOf(o)
  /\ d.body = IF o \in {"gone", "unparsed"} THEN q.body ELSE BodyOf(o)
  /\ Len(d.tried) = Len(q.tried) + 1
  /\ \A i \in 1..Len(q.tried) : d.tried[i] = q.tried[i]
  /\ d.tried[Len(q.tried) + 1].model = m
  /\ d.tried[Len(q.tried) + 1].status = StatusOf(o)
  /\ d.tried[Len(q.tried) + 1].effort = ExpandGrokAlias(q.effort, m)

LEMMA DispatchFields ==
  ASSUME NEW q \in RequestRecord, NEW m \in RequestModels, NEW o \in AllOutcomes
  PROVE  dispatch(q, m, o) \in RequestRecord /\ Dispatched(q, m, o, dispatch(q, m, o))
<1> DEFINE a == [model |-> m, status |-> StatusOf(o), effort |-> ExpandGrokAlias(q.effort, m)]
           b == IF o \in {"gone", "unparsed"} THEN q.body ELSE BodyOf(o)
<1>1. q.effort \in Efforts /\ q.tried \in Seq(Attempt) /\ q.body \in Bodies
  BY DEF RequestRecord
<1>2. a \in Attempt /\ a.model = m /\ a.status = StatusOf(o)
      /\ a.effort = ExpandGrokAlias(q.effort, m)
  BY <1>1, OutcomeFacts, AliasKeepsEffort DEF Attempt
<1>3. /\ StatusOf(o) \in Statuses /\ b \in Bodies
      /\ ExpandGrokAlias(q.effort, m) \in Efforts
  BY <1>1, OutcomeFacts, AliasKeepsEffort
<1>4. /\ Append(q.tried, a) \in Seq(Attempt)
      /\ Len(Append(q.tried, a)) = Len(q.tried) + 1
      /\ \A i \in 1..Len(q.tried) : Append(q.tried, a)[i] = q.tried[i]
      /\ Append(q.tried, a)[Len(q.tried) + 1] = a
  <2> HIDE DEF a
  <2> QED BY <1>1, <1>2, AppendProperties
<1>5. PICK t \in Seq(Attempt) : t = Append(q.tried, a)
  BY <1>4
<1>6. PICK e \in Efforts : e = ExpandGrokAlias(q.effort, m)
  BY <1>3
<1>7. PICK s \in Statuses : s = StatusOf(o)
  BY <1>3
<1>8. PICK y \in Bodies : y = b
  BY <1>3
<1>9. PICK u \in {Upstream(x) : x \in RequestModels} : u = Upstream(m)
  OBVIOUS
<1> DEFINE d == [q EXCEPT !.model = m, !.upstreamName = u, !.effort = e, !.tried = t,
                          !.status = s, !.body = y]
<1>10. dispatch(q, m, o) = d
  BY <1>5, <1>6, <1>7, <1>8, <1>9 DEF dispatch
<1>11. /\ d \in RequestRecord
       /\ d.pc = q.pc /\ d.stream = q.stream /\ d.given = q.given /\ d.chain = q.chain
       /\ d.effort = e /\ d.status = s /\ d.body = y /\ d.tried = t
  BY DEF RequestRecord
<1> HIDE DEF d, a, b
<1>12. b = IF o \in {"gone", "unparsed"} THEN q.body ELSE BodyOf(o)
  BY DEF b
<1> QED BY <1>2, <1>4, <1>5, <1>6, <1>7, <1>8, <1>10, <1>11, <1>12 DEF Dispatched

(* The other requests stay as they are. *)
LEMMA OneRequest ==
  ASSUME ProxyInv, NEW r \in Requests, NEW q \in RequestRecord, RequestInv(q),
         req' = [req EXCEPT ![r] = q],
         combo' = combo, open' = open, cached' \in Bodies
  PROVE  ProxyInv'
<1>1. req' \in [Requests -> RequestRecord] /\ req'[r] = q
      /\ \A x \in Requests \ {r} : req'[x] = req[x]
  BY DEF ProxyInv, ProxyTypes
<1>2. ProxyTypes'
  BY <1>1 DEF ProxyInv, ProxyTypes
<1>3. ASSUME NEW x \in Requests PROVE RequestInv(req'[x])
  BY <1>1 DEF ProxyInv
<1> QED BY <1>2, <1>3 DEF ProxyInv

-----------------------------------------------------------------------------
LEMMA ArriveKeeps ==
  ASSUME ProxyInv, NEW r \in Requests, Arrive(r)
  PROVE  ProxyInv'
<1>1. PICK stream \in {"no", "body", "accept"}, effort \in {"none", "medium"} :
        req' = [req EXCEPT ![r] =
          [Idle EXCEPT !.pc = IF stream # "body" /\ cached # "none" THEN "done" ELSE "resolve",
                       !.stream = stream, !.effort = effort, !.given = effort # "none",
                       !.body = IF stream # "body" /\ cached # "none" THEN cached ELSE "none"]]
  BY DEF Arrive
<1>2. PICK given \in BOOLEAN : given = (effort # "none")
  OBVIOUS
<1>3. PICK pc \in {"done", "resolve"}, body \in Bodies :
        /\ pc = IF stream # "body" /\ cached # "none" THEN "done" ELSE "resolve"
        /\ body = IF stream # "body" /\ cached # "none" THEN cached ELSE "none"
  BY DEF ProxyInv, ProxyTypes, Bodies
<1> DEFINE q == [Idle EXCEPT !.pc = pc, !.stream = stream, !.effort = effort,
                             !.given = given, !.body = body]
<1>4. req' = [req EXCEPT ![r] = q]
  BY <1>1, <1>2, <1>3, Zenon
<1>5. /\ q \in RequestRecord
      /\ q.pc = pc /\ q.body = body /\ q.given = given /\ q.effort = effort
      /\ q.chain = <<>> /\ q.tried = <<>> /\ q.status = 200
  <2>1. effort \in Efforts
    BY DEF Efforts
  <2> QED BY <2>1, IdleFields DEF RequestRecord
<1> HIDE DEF q
<1>6. given => effort = "medium"
  BY <1>2
<1>7. RequestInv(q)
  <2>1. pc = "resolve" => body = "none"
    BY <1>3
  <2> QED BY <1>5, <1>6, <2>1, EmptyTried
      DEF RequestInv, Untried, ChainIsNoStream, FollowsChain, InTheLoop, SentOnce,
          EffortGiven, BodyOfStatus
<1> QED BY <1>4, <1>5, <1>7, OneRequest DEF Arrive, ProxyInv, ProxyTypes

LEMMA ResolveKeeps ==
  ASSUME ProxyInv, NEW r \in Requests, ResolveCombo(r)
  PROVE  ProxyInv'
<1>1. /\ req[r] \in RequestRecord /\ RequestInv(req[r]) /\ req[r].pc = "resolve"
      /\ open \in SUBSET Upstreams /\ combo \in Combos \cup {Deleted}
  BY DEF ProxyInv, ProxyTypes, ResolveCombo
<1>2. PICK pc \in {"direct", "strategy"}, m \in RequestModels :
        req' = [req EXCEPT ![r] = [req[r] EXCEPT !.pc = pc, !.model = m]]
  <2>1. CASE combo = Deleted
    <3>1. req' = [req EXCEPT ![r] = [req[r] EXCEPT !.pc = "direct"]]
      BY <2>1 DEF ResolveCombo
    <3>2. [req[r] EXCEPT !.pc = "direct"]
            = [req[r] EXCEPT !.pc = "direct", !.model = req[r].model]
      BY <1>1 DEF RequestRecord
    <3>3. req[r].model \in RequestModels
      BY <1>1 DEF RequestRecord
    <3> QED BY <3>1, <3>2, <3>3
  <2>2. CASE combo # Deleted
    <3>1. PICK m \in Resolve(combo, open) :
            req' = [req EXCEPT ![r] = [req[r] EXCEPT !.pc = "strategy", !.model = m]]
      BY <2>2 DEF ResolveCombo
    <3>2. m \in RequestModels
      BY <1>1, <2>2 DEF RequestModels
    <3> QED BY <3>1, <3>2
  <2> QED BY <2>1, <2>2
<1> DEFINE q == [req[r] EXCEPT !.pc = pc, !.model = m]
<1>3. /\ q \in RequestRecord
      /\ q.pc = pc /\ q.body = req[r].body /\ q.given = req[r].given
      /\ q.effort = req[r].effort /\ q.chain = req[r].chain /\ q.tried = req[r].tried
      /\ q.status = req[r].status
  BY <1>1 DEF RequestRecord
<1> HIDE DEF q
<1>4. RequestInv(q)
  BY <1>1, <1>3, FreshRequest DEF RequestInv, Untried, EffortGiven
<1>5. req' = [req EXCEPT ![r] = q]
  BY <1>2 DEF q
<1> QED BY <1>3, <1>4, <1>5, OneRequest DEF ResolveCombo, ProxyInv, ProxyTypes

LEMMA GetStrategyKeeps ==
  ASSUME ProxyInv, NEW r \in Requests, GetStrategy(r)
  PROVE  ProxyInv'
<1>1. /\ req[r] \in RequestRecord /\ RequestInv(req[r]) /\ req[r].pc = "strategy"
      /\ combo \in Combos \cup {Deleted}
  BY DEF ProxyInv, ProxyTypes, GetStrategy
<1>2. PICK s \in {"none"} \cup {c.strategy : c \in Combos} : s = combo.strategy
  BY <1>1 DEF Deleted
<1>3. PICK e \in Efforts : e = ExpandGrokAlias(req[r].effort, req[r].model)
  BY <1>1, AliasKeepsEffort DEF RequestRecord
<1> DEFINE q0 == [req[r] EXCEPT !.strategy = s, !.effort = e]
           pc == IF Chained(q0) THEN "snapshot" ELSE "direct"
           q == [q0 EXCEPT !.pc = pc]
<1>4. req' = [req EXCEPT ![r] = q]
  BY <1>2, <1>3 DEF GetStrategy
<1>5. /\ q0 \in RequestRecord
      /\ q0.body = req[r].body /\ q0.given = req[r].given /\ q0.stream = req[r].stream
      /\ q0.effort = e /\ q0.chain = req[r].chain /\ q0.tried = req[r].tried
      /\ q0.status = req[r].status
  BY <1>1 DEF RequestRecord
<1> HIDE DEF q0
<1>6. pc \in {"snapshot", "direct"} /\ (pc = "snapshot" => ~ClientStream(q0))
  BY DEF Chained
<1> HIDE DEF pc
<1>7. /\ q \in RequestRecord /\ q.pc = pc
      /\ q.body = q0.body /\ q.given = q0.given /\ q.stream = q0.stream
      /\ q.effort = q0.effort /\ q.chain = q0.chain /\ q.tried = q0.tried
      /\ q.status = q0.status
  BY <1>5, <1>6 DEF RequestRecord
<1> HIDE DEF q
<1>8. req[r].given => e = "medium"
  BY <1>1, <1>3, AliasKeepsEffort DEF RequestInv, EffortGiven
<1>9. RequestInv(q)
  <2>1. pc = "snapshot" => ~ClientStream(q)
    BY <1>6, <1>7 DEF ClientStream
  <2>2. q.chain = <<>> /\ q.tried = <<>> /\ q.status = 200 /\ q.body = "none"
    BY <1>1, <1>5, <1>7 DEF RequestInv, Untried
  <2>3. q.given => q.effort = "medium"
    BY <1>5, <1>7, <1>8
  <2> QED BY <1>6, <1>7, <2>1, <2>2, <2>3, FreshRequest
<1> QED BY <1>4, <1>7, <1>9, OneRequest DEF GetStrategy, ProxyInv, ProxyTypes

LEMMA NotAllowedKeeps ==
  ASSUME ProxyInv, NEW r \in Requests, NotAllowed(r)
  PROVE  ProxyInv'
<1>1. /\ req[r] \in RequestRecord /\ RequestInv(req[r])
      /\ req[r].pc \in {"snapshot", "direct"}
  BY DEF ProxyInv, ProxyTypes, NotAllowed
<1>0. PICK forbidden \in Statuses : forbidden = 403
  BY DEF Statuses
<1> DEFINE q == [req[r] EXCEPT !.pc = "done", !.status = forbidden]
<1>2. req' = [req EXCEPT ![r] = q]
  BY <1>0, ZenonT(40) DEF NotAllowed
<1>3. /\ q \in RequestRecord
      /\ q.pc = "done" /\ q.body = req[r].body /\ q.given = req[r].given
      /\ q.effort = req[r].effort /\ q.chain = req[r].chain /\ q.tried = req[r].tried
  BY <1>1 DEF RequestRecord
<1> HIDE DEF q
<1>4. RequestInv(q)
  BY <1>1, <1>3, FreshRequest DEF RequestInv, Untried, EffortGiven
<1> QED BY <1>2, <1>3, <1>4, OneRequest DEF NotAllowed, ProxyInv, ProxyTypes

LEMMA SnapshotKeeps ==
  ASSUME ProxyInv, NEW r \in Requests, Snapshot(r)
  PROVE  ProxyInv'
<1>1. /\ req[r] \in RequestRecord /\ RequestInv(req[r]) /\ req[r].pc = "snapshot"
      /\ combo \in Combos \cup {Deleted}
  BY DEF ProxyInv, ProxyTypes, Snapshot
<1>2. PICK chain \in Seq(Models) : chain = combo.models
  <2>1. CASE combo \in Combos
    BY <2>1, ProxyAssumption
  <2>2. CASE combo = Deleted
    <3>1. combo.models = <<>>
      BY <2>2, Zenon DEF Deleted
    <3>2. <<>> \in Seq(Models)
      OBVIOUS
    <3> QED BY <3>1, <3>2
  <2> QED BY <1>1, <2>1, <2>2
<1>3. PICK pc \in {"finish", "loop"} : pc = IF chain = <<>> THEN "finish" ELSE "loop"
  OBVIOUS
<1> DEFINE q == [req[r] EXCEPT !.chain = chain, !.pc = pc]
<1>4. req' = [req EXCEPT ![r] = q]
  BY <1>2, <1>3 DEF Snapshot
<1>5. /\ q \in RequestRecord
      /\ q.pc = pc /\ q.body = req[r].body /\ q.given = req[r].given
      /\ q.stream = req[r].stream /\ q.effort = req[r].effort
      /\ q.chain = chain /\ q.tried = req[r].tried /\ q.status = req[r].status
  BY <1>1 DEF RequestRecord
<1> HIDE DEF q
<1>6. /\ q.tried = <<>> /\ q.status = 200 /\ q.body = "none"
      /\ q.given => q.effort = "medium"
      /\ ~ClientStream(q)
  BY <1>1, <1>5 DEF RequestInv, Untried, EffortGiven, ChainIsNoStream, ClientStream
<1>7. pc = "loop" => Len(chain) > 0
  BY <1>3
<1>8. pc = "finish" => chain = <<>>
  BY <1>3
<1>9. RequestInv(q)
  <2>1. Untried(q) /\ ChainIsNoStream(q) /\ SentOnce(q) /\ EffortGiven(q) /\ BodyOfStatus(q)
    BY <1>5, <1>6, EmptyTried
    DEF Untried, ChainIsNoStream, SentOnce, EffortGiven, BodyOfStatus
  <2>2. FollowsChain(q) /\ InTheLoop(q)
    BY <1>5, <1>6, <1>7, <1>8, EmptyTried DEF FollowsChain, InTheLoop
  <2> QED BY <2>1, <2>2 DEF RequestInv
<1> QED BY <1>4, <1>5, <1>9, OneRequest DEF Snapshot, ProxyInv, ProxyTypes

LEMMA DirectKeeps ==
  ASSUME ProxyInv, NEW r \in Requests, Direct(r)
  PROVE  ProxyInv'
<1>1. /\ req[r] \in RequestRecord /\ RequestInv(req[r]) /\ req[r].pc = "direct"
  BY DEF ProxyInv, ProxyTypes, Direct
<1>2. PICK o \in AllOutcomes :
        req' = [req EXCEPT ![r] = [dispatch(req[r], req[r].model, o) EXCEPT !.pc = "finish"]]
  BY OutcomeFacts DEF Direct
<1>3. PICK m \in RequestModels : m = req[r].model
  BY <1>1 DEF RequestRecord
<1>4. PICK d \in RequestRecord : d = dispatch(req[r], m, o) /\ Dispatched(req[r], m, o, d)
  BY <1>1, DispatchFields
<1> DEFINE q == [d EXCEPT !.pc = "finish"]
<1>5. req' = [req EXCEPT ![r] = q]
  BY <1>2, <1>3, <1>4
<1>6. /\ q \in RequestRecord /\ q.pc = "finish"
      /\ q.body = d.body /\ q.given = d.given /\ q.stream = d.stream
      /\ q.effort = d.effort /\ q.chain = d.chain /\ q.tried = d.tried
      /\ q.status = d.status
  BY DEF RequestRecord
<1> HIDE DEF q
<1>7. /\ req[r].chain = <<>> /\ req[r].tried = <<>> /\ req[r].body = "none"
      /\ req[r].given => req[r].effort = "medium"
  BY <1>1 DEF RequestInv, Untried, EffortGiven
<1>8. /\ q.chain = <<>> /\ Len(q.tried) = 1 /\ q.given = req[r].given
      /\ q.effort = ExpandGrokAlias(req[r].effort, m)
      /\ q.tried[1].effort = ExpandGrokAlias(req[r].effort, m)
      /\ q.status = StatusOf(o)
      /\ q.body = IF o \in {"gone", "unparsed"} THEN "none" ELSE BodyOf(o)
  <2>1. 0 + 1 = 1
    OBVIOUS
  <2> QED BY <1>4, <1>6, <1>7, <2>1, EmptyTried DEF Dispatched
<1>9. Untried(q) /\ ChainIsNoStream(q) /\ SentOnce(q) /\ FollowsChain(q) /\ InTheLoop(q)
  BY <1>6, <1>8 DEF Untried, ChainIsNoStream, SentOnce, FollowsChain, InTheLoop
<1>10. EffortGiven(q)
  <2>1. \A i \in 1..Len(q.tried) : i = 1
    BY <1>8
  <2> QED BY <1>7, <1>8, <2>1, AliasKeepsEffort DEF EffortGiven
<1>11. BodyOfStatus(q)
  <2>1. StatusOf(o) = 200 /\ o \notin {"gone", "unparsed"} => BodyOf(o) # "error"
    BY OutcomeFacts
  <2> QED BY <1>8, <2>1 DEF BodyOfStatus
<1>12. RequestInv(q)
  BY <1>9, <1>10, <1>11 DEF RequestInv
<1> QED BY <1>5, <1>6, <1>12, OneRequest DEF Direct, ProxyInv, ProxyTypes

LEMMA TryCandidateKeeps ==
  ASSUME ProxyInv, NEW r \in Requests, TryCandidate(r)
  PROVE  ProxyInv'
<1> DEFINE n == Len(req[r].tried)
<1>1. /\ req[r] \in RequestRecord /\ RequestInv(req[r]) /\ req[r].pc = "loop"
      /\ req[r].chain \in Seq(Models) /\ req[r].tried \in Seq(Attempt)
      /\ n \in Nat /\ Len(req[r].chain) \in Nat
  BY DEF ProxyInv, ProxyTypes, TryCandidate, RequestRecord
<1>2. /\ n < Len(req[r].chain) /\ ~ClientStream(req[r]) /\ req[r].chain # <<>>
      /\ \A i \in 1..n : Retryable(req[r].tried[i].status)
      /\ \A i \in 1..n : req[r].tried[i].model = req[r].chain[i]
      /\ req[r].tried = <<>> => req[r].body = "none"
      /\ req[r].given => /\ req[r].effort = "medium"
                         /\ \A i \in 1..n : req[r].tried[i].effort = "medium"
  BY <1>1 DEF RequestInv, InTheLoop, ChainIsNoStream, FollowsChain, EffortGiven
<1>3. PICK m \in RequestModels : m = req[r].chain[n + 1]
  BY <1>1, <1>2, ElementOfSeq DEF RequestModels
<1>4. PICK o \in AllOutcomes :
        LET d == dispatch(req[r], m, o)
        IN  req' = [req EXCEPT ![r] =
              [d EXCEPT !.pc = IF Retryable(d.status) /\ Len(d.tried) < Len(d.chain)
                               THEN "loop" ELSE "finish"]]
  BY <1>3, OutcomeFacts DEF TryCandidate
<1>5. PICK d \in RequestRecord : d = dispatch(req[r], m, o) /\ Dispatched(req[r], m, o, d)
  BY <1>1, DispatchFields
<1>6. PICK pc \in {"loop", "finish"} :
        pc = IF Retryable(d.status) /\ Len(d.tried) < Len(d.chain) THEN "loop" ELSE "finish"
  OBVIOUS
<1> DEFINE q == [d EXCEPT !.pc = pc]
<1>7. req' = [req EXCEPT ![r] = q]
  BY <1>4, <1>5, <1>6
<1>8. /\ q \in RequestRecord /\ q.pc = pc
      /\ q.body = d.body /\ q.given = d.given /\ q.stream = d.stream
      /\ q.effort = d.effort /\ q.chain = d.chain /\ q.tried = d.tried
      /\ q.status = d.status
  BY DEF RequestRecord
<1> HIDE DEF q
<1>9. /\ q.chain = req[r].chain /\ q.given = req[r].given /\ q.stream = req[r].stream
      /\ q.effort = ExpandGrokAlias(req[r].effort, m)
      /\ q.status = StatusOf(o)
      /\ q.body = IF o \in {"gone", "unparsed"} THEN req[r].body ELSE BodyOf(o)
  BY <1>5, <1>8 DEF Dispatched
<1>10. /\ Len(q.tried) = n + 1
       /\ \A i \in 1..n : q.tried[i] = req[r].tried[i]
       /\ q.tried[n + 1].model = m
       /\ q.tried[n + 1].status = StatusOf(o)
       /\ q.tried[n + 1].effort = ExpandGrokAlias(req[r].effort, m)
  BY <1>5, <1>8 DEF Dispatched
<1>11. \A i \in 1..(n + 1) : i \in 1..n \/ i = n + 1
  BY <1>1
<1> HIDE DEF n
<1>12. pc = "finish" /\ Retryable(q.status) => n + 1 = Len(q.chain)
  BY <1>1, <1>2, <1>6, <1>8, <1>9, <1>10
<1>13. pc = "loop" => Retryable(q.status) /\ n + 1 < Len(q.chain)
  BY <1>6, <1>8, <1>10
<1>14. Untried(q) /\ ChainIsNoStream(q) /\ SentOnce(q)
  BY <1>2, <1>8, <1>9 DEF Untried, ChainIsNoStream, SentOnce, ClientStream
<1>15. FollowsChain(q)
  <2>1. \A i \in 1..(n + 1) : q.tried[i].model = q.chain[i]
    BY <1>2, <1>3, <1>9, <1>10, <1>11
  <2>2. \A i \in 1..n : Retryable(q.tried[i].status)
    BY <1>2, <1>10
  <2>3. 1..((n + 1) - 1) = 1..n /\ n + 1 <= Len(q.chain)
    BY <1>1, <1>2, <1>9
  <2> QED BY <1>8, <1>10, <1>12, <2>1, <2>2, <2>3 DEF FollowsChain
<1>16. InTheLoop(q)
  <2>1. Retryable(q.status) => \A i \in 1..(n + 1) : Retryable(q.tried[i].status)
    BY <1>2, <1>9, <1>10, <1>11
  <2>2. q.tried # <<>>
    BY <1>1, <1>10, EmptyTried
  <2> QED BY <1>8, <1>10, <1>13, <2>1, <2>2 DEF InTheLoop
<1>17. EffortGiven(q)
  <2>1. q.given => /\ q.effort = "medium"
                   /\ \A i \in 1..(n + 1) : q.tried[i].effort = "medium"
    BY <1>2, <1>9, <1>10, <1>11, AliasKeepsEffort
  <2> QED BY <1>10, <2>1 DEF EffortGiven
<1>18. BodyOfStatus(q)
  <2>1. CASE n = 0
    <3>1. req[r].body = "none"
      BY <1>1, <1>2, <2>1 DEF n
    <3>2. StatusOf(o) = 200 /\ o \notin {"gone", "unparsed"} => BodyOf(o) # "error"
      BY OutcomeFacts
    <3> QED BY <1>9, <3>1, <3>2 DEF BodyOfStatus
  <2>2. CASE n # 0
    BY <1>1, <1>10, <2>2 DEF BodyOfStatus
  <2> QED BY <2>1, <2>2
<1>19. RequestInv(q)
  BY <1>14, <1>15, <1>16, <1>17, <1>18 DEF RequestInv
<1> QED BY <1>7, <1>8, <1>19, OneRequest DEF TryCandidate, ProxyInv, ProxyTypes

LEMMA FinishKeeps ==
  ASSUME ProxyInv, NEW r \in Requests, Finish(r)
  PROVE  ProxyInv'
<1>1. req[r] \in RequestRecord /\ RequestInv(req[r]) /\ req[r].pc = "finish"
  BY DEF ProxyInv, ProxyTypes, Finish
<1> DEFINE q == [req[r] EXCEPT !.pc = "done"]
<1>2. req' = [req EXCEPT ![r] = q]
  BY DEF Finish
<1>3. /\ q \in RequestRecord /\ q.pc = "done"
      /\ q.body = req[r].body /\ q.given = req[r].given /\ q.stream = req[r].stream
      /\ q.effort = req[r].effort /\ q.chain = req[r].chain /\ q.tried = req[r].tried
      /\ q.status = req[r].status
  BY <1>1 DEF RequestRecord
<1> HIDE DEF q
<1>4. Untried(q) /\ ChainIsNoStream(q) /\ InTheLoop(q) /\ BodyOfStatus(q)
  BY <1>3 DEF Untried, ChainIsNoStream, InTheLoop, BodyOfStatus
<1>5. FollowsChain(q) /\ SentOnce(q) /\ EffortGiven(q)
  BY <1>1, <1>3 DEF RequestInv, FollowsChain, SentOnce, EffortGiven, ClientStream
<1>6. RequestInv(q)
  BY <1>4, <1>5 DEF RequestInv
<1>7. cached' \in Bodies
  BY <1>1 DEF Finish, ProxyInv, ProxyTypes, RequestRecord
<1> QED BY <1>2, <1>3, <1>6, <1>7, OneRequest DEF Finish

LEMMA LeaveKeeps ==
  ASSUME ProxyInv, NEW r \in Requests, Leave(r)
  PROVE  ProxyInv'
<1>1. RequestInv(Idle)
  BY IdleFields, FreshRequest
<1> QED BY <1>1, IdleFields, OneRequest DEF Leave, ProxyInv, ProxyTypes

LEMMA OperatorKeeps ==
  ASSUME ProxyInv, HandleAddCombo \/ HandleDeleteCombo \/ CircuitChanges \/ Expire
  PROVE  ProxyInv'
<1>1. /\ UNCHANGED req
      /\ combo' \in Combos \cup {Deleted} /\ open' \in SUBSET Upstreams /\ cached' \in Bodies
  BY DEF ProxyInv, ProxyTypes, HandleAddCombo, HandleDeleteCombo, AddCombo, DeleteCombo,
         CircuitChanges, Expire, Bodies
<1> QED BY <1>1 DEF ProxyInv, ProxyTypes

(* ProxyInv is inductive. *)
LEMMA ProxyStep == ProxyInv /\ [Next]_vars => ProxyInv'
<1> SUFFICES ASSUME ProxyInv, [Next]_vars PROVE ProxyInv'
  OBVIOUS
<1>1. CASE UNCHANGED vars
  BY <1>1 DEF vars, ProxyInv, ProxyTypes
<1>2. ASSUME NEW r \in Requests, Arrive(r) \/ Proceed(r) \/ Leave(r)
      PROVE  ProxyInv'
  BY <1>2, ArriveKeeps, ResolveKeeps, GetStrategyKeeps, NotAllowedKeeps, SnapshotKeeps,
     TryCandidateKeeps, DirectKeeps, FinishKeeps, LeaveKeeps DEF Proceed
<1> QED BY <1>1, <1>2, OperatorKeeps DEF Next

LEMMA ProxyStarts == Init => ProxyInv
<1> SUFFICES ASSUME Init PROVE ProxyInv
  OBVIOUS
<1>1. RequestInv(Idle)
  BY IdleFields, FreshRequest
<1> QED BY <1>1, IdleFields DEF Init, ProxyInv, ProxyTypes, Bodies

LEMMA ProxyInvariant == Spec => []ProxyInv
  BY ProxyStarts, ProxyStep, PTL DEF Spec

-----------------------------------------------------------------------------
(* A fallback request tries the models of the chain it took, in order and  *)
(* each once, goes on after a 5xx or a 404 only, and reports such a        *)
(* failure only at the end of the chain (proxy.go, the fallback loop).     *)
THEOREM FallbackExhaustsChainHolds == Spec => []FallbackExhaustsChain
<1>1. ProxyInv => FallbackExhaustsChain
  BY DEF ProxyInv, RequestInv, FollowsChain, FallbackExhaustsChain
<1> QED BY <1>1, ProxyInvariant, PTL

(* Streams are dispatched at most once (proxy.go, clientStream). *)
THEOREM StreamsSentOnceHolds == Spec => []StreamsSentOnce
<1>1. ProxyInv => StreamsSentOnce
  BY DEF ProxyInv, RequestInv, SentOnce, StreamsSentOnce
<1> QED BY <1>1, ProxyInvariant, PTL

(* The effort a client asked for reaches every model its request is tried  *)
(* on (proxy.go, ExpandGrokAlias).                                         *)
THEOREM GivenEffortKeptHolds == Spec => []GivenEffortKept
<1>1. ProxyInv => GivenEffortKept
  BY DEF ProxyInv, RequestInv, EffortGiven, GivenEffortKept
<1> QED BY <1>1, ProxyInvariant, PTL

(* The body of an error is cached only by a request that was tried on more *)
(* than one model (proxy.go, cacheKey).                                    *)
THEOREM ErrorsCachedOnlyAfterFallbackHolds == Spec => ErrorsCachedOnlyAfterFallback
<1> DEFINE OnlyAfterFallback ==
      cached # "error" /\ cached' = "error" =>
        \E r \in Requests : req[r].pc = "finish" /\ Len(req[r].tried) > 1
<1>1. ASSUME ProxyInv, [Next]_vars PROVE OnlyAfterFallback
  <2> SUFFICES ASSUME cached # "error", cached' = "error"
               PROVE  \E r \in Requests : req[r].pc = "finish" /\ Len(req[r].tried) > 1
    OBVIOUS
  <2>1. PICK r \in Requests : Finish(r)
    BY <1>1 DEF Next, vars, Proceed, Arrive, ResolveCombo, GetStrategy, NotAllowed, Snapshot,
       TryCandidate, Direct, Leave, HandleAddCombo, HandleDeleteCombo, AddCombo, DeleteCombo,
       CircuitChanges, Expire
  <2>2. req[r].pc = "finish" /\ req[r].status = 200 /\ req[r].body = "error"
    BY <2>1 DEF Finish
  <2>3. ~(Len(req[r].tried) <= 1)
    BY <1>1, <2>2 DEF ProxyInv, RequestInv, BodyOfStatus
  <2>4. Len(req[r].tried) \in Nat
    BY <1>1 DEF ProxyInv, ProxyTypes, RequestRecord
  <2> QED BY <2>2, <2>3, <2>4
<1>2. ProxyInv /\ [Next]_vars => [OnlyAfterFallback]_vars
  BY <1>1
<1> QED BY <1>2, ProxyInvariant, PTL DEF Spec, ErrorsCachedOnlyAfterFallback
=============================================================================
