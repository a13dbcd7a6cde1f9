---------------------------- MODULE GatewayKeys ----------------------------
(***************************************************************************)
(* The gateway's own API keys: internal/auth/auth.go, Manager, with its    *)
(* hashes in Redis (internal/db/db.go) and the operator's handlers         *)
(* (internal/handlers/handlers.go).                                        *)
(*                                                                         *)
(* Requests read a key when they start and count their tokens when they    *)
(* end; operators create, change and delete keys.  A handler checks and    *)
(* then acts; a change in memory and each command to Redis are steps of    *)
(* their own, and any command may fail, which is only logged.  A goroutine *)
(* may hold the GatewayKeyInfo of a key that was removed: info keeps it.   *)
(* Names, model lists, rates and changes of a quota are left out, and the  *)
(* request counter, which is kept as the token counter is.                 *)
(***************************************************************************)
EXTENDS Naturals, FiniteSets

CONSTANTS
  GatewayKeyIds,    \* keys
  BootKey,          \* the key given by GATEWAY_API_KEYS or the key file
  KeyActors,        \* goroutines at work at a time, of requests or of operators' calls
  Quota,            \* the token quota a key may have
  MaxTokens,        \* bound: tokens counted for a key
  MaxKeyRestarts    \* bound: restarts

Amount == 1         \* tokens of a request

ASSUME KeysAssumption ==
  /\ IsFiniteSet(GatewayKeyIds) /\ IsFiniteSet(KeyActors)
  /\ BootKey \in GatewayKeyIds
  /\ Quota \in Nat \ {0} /\ MaxTokens \in Nat /\ MaxKeyRestarts \in Nat

\* key is FALSE for a hash that has counters but not the field "key".
GatewayKeyInfo == [key : BOOLEAN, role : {"admin", "inference"}, quota : {0, Quota},
                   used : Nat, disabled : BOOLEAN]
NewKey(role, quota) ==
  [key |-> TRUE, role |-> role, quota |-> quota, used |-> 0, disabled |-> FALSE]
NoKey == [key |-> FALSE, role |-> "inference", quota |-> 0, used |-> 0, disabled |-> FALSE]

VARIABLES
  info,         \* the GatewayKeyInfo of each key
  registered,   \* the domain of Manager.keys
  keyHash,      \* gateway:key:<key> in Redis
  job,          \* each goroutine: its next step, its key and the DTO it has
  keyRestarts,
  removed,      \* history: keys that were removed from Redis and not changed since
  skewed,       \* history: keys saved while an increment was on its way, or with a write
                \* that failed and no whole save since
  excused,      \* history: keys with a quota that an operator changed, whose save was cut off, or
                \* that were loaded while skewed
  lockout       \* history: two operators' guarded calls crossed, or a restart cut off a
                \* write, or lost an admin key whose save had failed or that it did not load

keyVars == <<info, registered, keyHash, job, keyRestarts, removed, skewed, excused, lockout>>

NoJob == [step |-> "idle", key |-> BootKey, dto |-> NoKey]
Bootstrapped == [NoKey EXCEPT !.key = TRUE, !.role = "admin"]

KeysInit ==
  /\ info = [k \in GatewayKeyIds |-> IF k = BootKey THEN Bootstrapped ELSE NoKey]
  /\ registered = {BootKey}
  /\ keyHash = info
  /\ job = [a \in KeyActors |-> NoJob]
  /\ keyRestarts = 0
  /\ removed = {} /\ skewed = {} /\ excused = {} /\ lockout = FALSE

-----------------------------------------------------------------------------
(* Reading keys                                                            *)

Valid(k) == k \in registered /\ ~info[k].disabled
AdminKeys == {k \in registered : info[k].role = "admin" /\ ~info[k].disabled}
WithQuota == {k \in GatewayKeyIds : info[k].quota > 0}
CountAdmins == Cardinality(AdminKeys)

Doing(a, step) == job[a].step = step
Do(a, step, k, dto) == job' = [job EXCEPT ![a] = [step |-> step, key |-> k, dto |-> dto]]
Ends(a) == job' = [job EXCEPT ![a] = NoJob]
PendingSave(k) == {a \in KeyActors : job[a].key = k /\ job[a].step \in {"snapshot", "save"}}
\* A request saves only a disabled key.
OperatorSave(k) == {a \in PendingSave(k) : Doing(a, "snapshot") \/ ~job[a].dto.disabled}
PendingCount(k) == {a \in KeyActors : job[a].key = k /\ job[a].step \in {"hincrby", "hincrby_save"}}

-----------------------------------------------------------------------------
(* Requests                                                                *)

AuthMiddleware(a, k) ==
  /\ Doing(a, "idle")
  /\ Valid(k) /\ info[k].used < MaxTokens
  /\ Do(a, "admitted", k, NoKey)
  /\ UNCHANGED <<info, registered, keyHash, removed, skewed, excused, lockout, keyRestarts>>

\* Mutant of Spent.
Spent_OffByOne(k, used) == info[k].quota > 0 /\ used > info[k].quota

Spent(k, used) == info[k].quota > 0 /\ used >= info[k].quota

\* The key is looked up again and may be gone; the lookup and the count, under
\* the lock of the key, are one step.
IncrementTokens(a) ==
  /\ Doing(a, "admitted")
  /\ LET k == job[a].key
         used == info[k].used + Amount
         new == [info[k] EXCEPT !.used = used, !.disabled = @ \/ Spent(k, used)]
     IN  \/ /\ k \in registered
            /\ info' = [info EXCEPT ![k] = new]
            /\ Do(a, IF new.disabled THEN "hincrby_save" ELSE "hincrby", k,
                  IF new.disabled THEN new ELSE NoKey)
         \/ k \notin registered /\ Ends(a) /\ UNCHANGED info
  /\ UNCHANGED <<registered, keyHash, removed, skewed, excused, lockout, keyRestarts>>

\* Mutant of IncrementGatewayKeyTokens: the increment is not sent.
IncrementGatewayKeyTokens_Lost(a) ==
  /\ job[a].step \in {"hincrby", "hincrby_save"}
  /\ IF Doing(a, "hincrby_save") THEN Do(a, "save", job[a].key, job[a].dto) ELSE Ends(a)
  /\ UNCHANGED <<info, registered, keyHash, removed, skewed, excused, lockout, keyRestarts>>

\* HINCRBY creates the hash where there is none.
IncrementGatewayKeyTokens(a) ==
  /\ job[a].step \in {"hincrby", "hincrby_save"}
  /\ keyHash' = [keyHash EXCEPT ![job[a].key].used = @ + Amount]
  /\ IF Doing(a, "hincrby_save") THEN Do(a, "save", job[a].key, job[a].dto) ELSE Ends(a)
  /\ UNCHANGED <<info, registered, removed, skewed, excused, lockout, keyRestarts>>

\* HINCRBY fails.
IncrementGatewayKeyTokensFails(a) ==
  /\ job[a].step \in {"hincrby", "hincrby_save"}
  /\ skewed' = skewed \cup {job[a].key}
  /\ IF Doing(a, "hincrby_save") THEN Do(a, "save", job[a].key, job[a].dto) ELSE Ends(a)
  /\ UNCHANGED <<info, registered, keyHash, removed, excused, lockout, keyRestarts>>

SaveGatewayKey(a) ==
  /\ Doing(a, "save")
  /\ LET k == job[a].key
     IN  /\ keyHash' = [keyHash EXCEPT ![k] = job[a].dto]
         /\ skewed' = IF PendingCount(k) # {} \/ job[a].dto.used # info[k].used
                      THEN skewed \cup {k} ELSE skewed \ {k}
  /\ Ends(a)
  /\ UNCHANGED <<info, registered, removed, excused, lockout, keyRestarts>>

\* HSET fails.
SaveGatewayKeyFails(a) ==
  /\ Doing(a, "save")
  /\ skewed' = skewed \cup {job[a].key}
  /\ Ends(a)
  /\ UNCHANGED <<info, registered, keyHash, removed, excused, lockout, keyRestarts>>

-----------------------------------------------------------------------------
(* Operators                                                               *)

\* A random key is one that was never in use.
GenerateGatewayKey ==
  {k \in GatewayKeyIds \ {BootKey} : info[k] = NoKey /\ keyHash[k] = NoKey /\ k \notin removed}

\* HandleCreateKey: a new random key; AddWithRole saves what is there then.
HandleCreateKey(a, k, role, quota) ==
  /\ Doing(a, "idle")
  /\ k \in GenerateGatewayKey
  /\ info' = [info EXCEPT ![k] = NewKey(role, quota)]
  /\ registered' = registered \cup {k}
  /\ Do(a, "snapshot", k, NoKey)
  /\ UNCHANGED <<keyHash, removed, skewed, excused, lockout, keyRestarts>>

gatewayKeyDTOFromInfo(k) == info[k]

saveGatewayKey(a) ==
  /\ Doing(a, "snapshot")
  /\ Do(a, "save", job[a].key, gatewayKeyDTOFromInfo(job[a].key))
  /\ UNCHANGED <<info, registered, keyHash, removed, skewed, excused, lockout, keyRestarts>>

Guarded(a) == Doing(a, "remove") \/ Doing(a, "demote")
CrossedGuard(a) == \E b \in KeyActors \ {a} : Guarded(b)

\* Mutant of HandleDeleteKey: without the guard.
HandleDeleteKey_Unguarded(a, k) ==
  /\ Doing(a, "idle")
  /\ k \in registered
  /\ Do(a, "remove", k, NoKey)
  /\ UNCHANGED <<info, registered, keyHash, removed, skewed, excused, lockout, keyRestarts>>

\* The guard of HandleDeleteKey: not the last admin.
HandleDeleteKey(a, k) ==
  /\ Doing(a, "idle")
  /\ k \in registered
  /\ ~(info[k].role = "admin" /\ CountAdmins <= 1)
  /\ Do(a, "remove", k, NoKey)
  /\ UNCHANGED <<info, registered, keyHash, removed, skewed, excused, lockout, keyRestarts>>

RemoveKey(a) ==
  /\ Doing(a, "remove")
  /\ registered' = registered \ {job[a].key}
  /\ lockout' = (lockout \/ CrossedGuard(a))
  /\ Do(a, "del", job[a].key, NoKey)
  /\ UNCHANGED <<info, keyHash, removed, skewed, excused, keyRestarts>>

DeleteGatewayKey(a) ==
  /\ Doing(a, "del")
  /\ keyHash' = [keyHash EXCEPT ![job[a].key] = NoKey]
  /\ removed' = IF OperatorSave(job[a].key) = {}
                THEN removed \cup {job[a].key} ELSE removed
  /\ Ends(a)
  /\ UNCHANGED <<info, registered, skewed, excused, lockout, keyRestarts>>

\* DEL fails: the key is gone from memory and stays in Redis.
DeleteGatewayKeyFails(a) ==
  /\ Doing(a, "del")
  /\ Ends(a)
  /\ UNCHANGED <<info, registered, keyHash, removed, skewed, excused, lockout, keyRestarts>>

\* HandleUpdateKey: the guard against demoting the last admin, then Update.
HandleUpdateKey(a, k) ==
  /\ Doing(a, "idle")
  /\ k \in registered
  /\ ~(info[k].role = "admin" /\ CountAdmins <= 1)
  /\ Do(a, "demote", k, NoKey)
  /\ UNCHANGED <<info, registered, keyHash, removed, skewed, excused, lockout, keyRestarts>>

\* Update in the lock of the key: the values, the DTO, then its save.
ApplyUpdate(a, k, new) ==
  /\ info' = [info EXCEPT ![k] = new]
  /\ excused' = excused \cup ({k} \cap WithQuota)
  /\ Do(a, "save", k, new)
  /\ removed' = removed \ {k}
  /\ UNCHANGED <<registered, keyHash, skewed, keyRestarts>>

UpdateRole(a) ==
  /\ Doing(a, "demote")
  /\ IF job[a].key \in registered
     THEN /\ ApplyUpdate(a, job[a].key, [info[job[a].key] EXCEPT !.role = "inference"])
          /\ lockout' = (lockout \/ CrossedGuard(a))
     ELSE /\ Ends(a)
          /\ UNCHANGED <<info, registered, keyHash, removed, skewed, excused, lockout, keyRestarts>>

\* An update of the flag has no guard (the last admin may be disabled).
UpdateDisabled(a, k, disabled) ==
  /\ Doing(a, "idle")
  /\ k \in registered
  /\ ApplyUpdate(a, k, [info[k] EXCEPT !.disabled = disabled])
  /\ UNCHANGED lockout

-----------------------------------------------------------------------------
\* Mutant of parseGatewayKeyFromRedis: every hash that exists is a key.
parseGatewayKeyFromRedis_Any(h) == h # NoKey

\* A hash without the field "key" is none.
parseGatewayKeyFromRedis(h) == h.key

\* A key whose HGETALL is not answered is skipped; a SCAN that fails loads none.
LoadGatewayKeys(answered) == {k \in answered : parseGatewayKeyFromRedis(keyHash[k])}

\* What is in memory of each key; of those that are not registered it is not read.
loadGatewayKeys ==
  [k \in GatewayKeyIds |-> IF parseGatewayKeyFromRedis(keyHash[k]) THEN keyHash[k] ELSE NoKey]

\* NewManager: the keys in Redis; without any, the bootstrap key, which is saved
\* over what Redis has of it, if the save does not fail.
NewManager ==
  /\ keyRestarts < MaxKeyRestarts
  /\ keyRestarts' = keyRestarts + 1
  /\ job' = [a \in KeyActors |-> NoJob]
  /\ LET cut == {k \in GatewayKeyIds : PendingSave(k) \cup PendingCount(k) # {}}
     IN  /\ excused' = excused \cup ((cut \cup skewed) \cap WithQuota)
         /\ \E answered \in SUBSET GatewayKeyIds :
              /\ lockout' = (lockout \/ cut # {} \/ ~(AdminKeys \subseteq answered \ skewed))
              /\ \/ /\ LoadGatewayKeys(answered) # {}
                    /\ registered' = LoadGatewayKeys(answered)
                    /\ info' = loadGatewayKeys
                    /\ skewed' = {}
                    /\ UNCHANGED <<keyHash, removed>>
                 \/ /\ LoadGatewayKeys(answered) = {}
                    /\ registered' = {BootKey}
                    /\ info' = [loadGatewayKeys EXCEPT ![BootKey] = Bootstrapped]
                    /\ \/ keyHash' = [keyHash EXCEPT ![BootKey] = Bootstrapped] /\ skewed' = {}
                       \/ skewed' = {BootKey} /\ UNCHANGED keyHash
                    /\ removed' = removed \ {BootKey}

KeyStep(a) ==
  \/ IncrementTokens(a) \/ IncrementGatewayKeyTokens(a) \/ IncrementGatewayKeyTokensFails(a)
  \/ saveGatewayKey(a) \/ SaveGatewayKey(a) \/ SaveGatewayKeyFails(a)
  \/ RemoveKey(a) \/ DeleteGatewayKey(a) \/ DeleteGatewayKeyFails(a) \/ UpdateRole(a)

\* Admin keys are created without a quota, inference keys with one; requests
\* use keys with a quota, and operators disable and enable those: an admin key
\* may be disabled too, without a guard, and AdminRemains is not about that.
KeysNext ==
  \/ \E a \in KeyActors : KeyStep(a)
  \/ \E a \in KeyActors, k \in GatewayKeyIds :
       \/ k \in WithQuota /\ AuthMiddleware(a, k)
       \/ HandleDeleteKey(a, k) \/ HandleUpdateKey(a, k)
       \/ HandleCreateKey(a, k, "admin", 0)
       \/ HandleCreateKey(a, k, "inference", Quota)
       \/ k \in WithQuota /\ \E disabled \in BOOLEAN : UpdateDisabled(a, k, disabled)
  \/ NewManager

KeysSpec == KeysInit /\ [][KeysNext]_keyVars

-----------------------------------------------------------------------------
(* Properties                                                              *)

KeysTypeOK ==
  /\ info \in [GatewayKeyIds -> GatewayKeyInfo]
  /\ registered \subseteq GatewayKeyIds
  /\ keyHash \in [GatewayKeyIds -> GatewayKeyInfo]
  /\ \A a \in KeyActors : job[a].key \in GatewayKeyIds /\ job[a].dto \in GatewayKeyInfo

\* A key that was removed, from Redis too, admits no request again, although
\* requests of it still count tokens: what they leave in Redis has no key field
\* or is a disabled key (IncrementTokens, parseGatewayKeyFromRedis).  Another
\* operator's save that crosses the removal brings a key back, and so does
\* NewManager for the bootstrap key; a key whose DEL failed is valid after a
\* restart.
RemovedStaysInvalid == \A k \in removed : ~Valid(k)

\* The tokens in Redis are those in memory once every write is done, unless a
\* save of the whole hash crossed another request's HINCRBY, or a write failed
\* and the whole hash was not saved since.
TokensPersisted ==
  \A k \in registered \ skewed :
    (PendingCount(k) = {} /\ PendingSave(k) = {}
       /\ \A a \in KeyActors : job[a].key = k => job[a].step # "del") =>
      keyHash[k].used = info[k].used

\* A key goes beyond its quota by no more than the requests that were under
\* way when it reached it, also across a restart, unless that cuts off a write,
\* or loads a count that a crossed save or a failed write left behind: such a
\* key may be at its quota and enabled.
OverrunBounded ==
  \A k \in registered \ excused :
    info[k].quota > 0 => info[k].used < info[k].quota + Cardinality(KeyActors) * Amount

\* The guards of HandleDeleteKey and HandleUpdateKey keep an admin key that
\* works ("prevent last-admin lockout"), also across restarts, unless two
\* operators' calls cross, or a restart cuts off a write, does not load an admin
\* key, or comes after a save of one failed.
AdminRemains == lockout \/ AdminKeys # {}
=============================================================================
