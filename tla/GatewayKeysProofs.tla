-------------------------- MODULE GatewayKeysProofs --------------------------
(***************************************************************************)
(* Proofs about the gateway's keys, for every set of keys, every number of *)
(* requests and operators' calls at a time, and every quota: a removed key *)
(* stays invalid, tokens reach Redis, a quota is overrun by no more than   *)
(* the requests under way, and an admin key remains.                       *)
(*                                                                         *)
(* A key has up to three copies: in memory, in Redis, and in the hands of  *)
(* each call that is about to save it.  The invariant says how they agree. *)
(***************************************************************************)
EXTENDS GatewayKeys, FiniteSetTheorems, TLAPS

JobRecord ==
  [step : {"idle", "admitted", "hincrby", "hincrby_save", "save", "snapshot", "remove", "del",
           "demote"},
   key : GatewayKeyIds, dto : GatewayKeyInfo]

KeyTypes ==
  /\ info \in [GatewayKeyIds -> GatewayKeyInfo]
  /\ keyHash \in [GatewayKeyIds -> GatewayKeyInfo]
  /\ registered \in SUBSET GatewayKeyIds
  /\ job \in [KeyActors -> JobRecord]
  /\ keyRestarts \in Nat
  /\ removed \in SUBSET GatewayKeyIds /\ skewed \in SUBSET GatewayKeyIds
  /\ excused \in SUBSET GatewayKeyIds
  /\ lockout \in BOOLEAN

\* The goroutines that have a DTO of a key, and those that are to count.
HasDTO(a) == job[a].step \in {"save", "hincrby_save"}
Disabling(k) == {a \in KeyActors : job[a].key = k /\ job[a].step = "hincrby_save"}
Admitted(k) == {a \in KeyActors : job[a].key = k /\ job[a].step = "admitted"}

\* Admin keys have no quota and are enabled, in every copy.
AdminShape(h) == h.role = "admin" => h.quota = 0 /\ ~h.disabled

\* A copy of a key has its quota, and the copy of an admin is one.
CopyOf(h, k) ==
  /\ h.quota = info[k].quota
  /\ info[k].role = "admin" => h.role = "admin"

\* A key with a quota is disabled when it is spent and only then.
DisabledWhenSpent(h) == h.quota > 0 => (h.disabled <=> h.used >= h.quota)

\* What goroutine a has is a key in memory, whatever became of it since.
JobShape(a) ==
  /\ job[a].step # "idle" => info[job[a].key].key
  /\ job[a].step = "del" => job[a].key \notin registered
  /\ job[a].step = "hincrby_save" => job[a].dto.disabled
  /\ HasDTO(a) =>
       /\ job[a].dto.key /\ AdminShape(job[a].dto) /\ CopyOf(job[a].dto, job[a].key)
       /\ job[a].key \notin excused => DisabledWhenSpent(job[a].dto)

\* A registered key is in Redis, or a call is to save it, or its save failed;
\* so it is for the role of an admin.
KeyShape(k) ==
  /\ AdminShape(info[k]) /\ AdminShape(keyHash[k])
  /\ k = BootKey => info[k].quota = 0
  /\ keyHash[k].key => keyHash[k].quota = info[k].quota
  /\ (keyHash[k].key /\ info[k].role = "admin") => (keyHash[k].role = "admin" \/ k \in skewed)
  /\ k \in registered => info[k].key
  /\ k \in registered => (keyHash[k].key \/ PendingSave(k) # {} \/ k \in skewed)

\* No copy of a removed key admits requests.
RemovedOff(k) ==
  k \in removed =>
    /\ k \in registered => info[k].disabled
    /\ keyHash[k].key => keyHash[k].disabled
    /\ OperatorSave(k) = {}

\* Redis has the tokens of a key but for the increments on their way.
CountsAgree(k) ==
  k \notin skewed /\ PendingSave(k) = {} /\ keyHash[k].key =>
    keyHash[k].used + Cardinality(PendingCount(k)) = info[k].used

\* The flag follows the count in memory, and in Redis unless a call is still
\* to save it.
FlagsAgree(k) ==
  k \notin excused =>
    /\ DisabledWhenSpent(info[k])
    /\ (/\ k \notin skewed /\ PendingSave(k) = {} /\ Disabling(k) = {}
        /\ keyHash[k].key /\ info[k].quota > 0) =>
         (keyHash[k].disabled <=> info[k].disabled)

\* There is room for the requests that are admitted.
RoomLeft(k) ==
  k \notin excused /\ info[k].quota > 0 =>
    info[k].used + Cardinality(Admitted(k)) < info[k].quota + Cardinality(KeyActors)

\* A guarded call leaves an admin besides its key, if no other one crosses it.
AdminBesides ==
  ~lockout =>
    /\ AdminKeys # {}
    /\ \A a \in KeyActors : Guarded(a) => AdminKeys \ {job[a].key} # {}

KeyInv(k) ==
  KeyShape(k) /\ RemovedOff(k) /\ CountsAgree(k) /\ FlagsAgree(k) /\ RoomLeft(k)

KeysInv ==
  /\ KeyTypes
  /\ \A a \in KeyActors : JobShape(a)
  /\ \A k \in GatewayKeyIds : KeyInv(k)
  /\ AdminBesides

-----------------------------------------------------------------------------
LEMMA NoKeyFields ==
  /\ NoKey \in GatewayKeyInfo
  /\ NoKey.key = FALSE /\ NoKey.role = "inference" /\ NoKey.quota = 0 /\ NoKey.used = 0
  /\ NoKey.disabled = FALSE
  BY DEF NoKey, GatewayKeyInfo

LEMMA InfoFields ==
  ASSUME NEW h \in GatewayKeyInfo
  PROVE  /\ h.key \in BOOLEAN /\ h.disabled \in BOOLEAN
         /\ h.used \in Nat /\ h.quota \in Nat /\ h.quota \in {0, Quota}
         /\ h.role \in {"admin", "inference"}
  BY KeysAssumption DEF GatewayKeyInfo

(* The step of one goroutine. *)
LEMMA JobMoves ==
  ASSUME KeyTypes, NEW a \in KeyActors, NEW k \in GatewayKeyIds, NEW dto \in GatewayKeyInfo,
         NEW step \in {"idle", "admitted", "hincrby", "hincrby_save", "save", "snapshot",
                       "remove", "del", "demote"},
         Do(a, step, k, dto)
  PROVE  /\ job' \in [KeyActors -> JobRecord]
         /\ job'[a].step = step /\ job'[a].key = k /\ job'[a].dto = dto
         /\ \A b \in KeyActors \ {a} : job'[b] = job[b]
<1>1. PICK j \in JobRecord : j = [step |-> step, key |-> k, dto |-> dto]
  BY DEF JobRecord
<1>2. j.step = step /\ j.key = k /\ j.dto = dto
  BY <1>1
<1>3. job' = [job EXCEPT ![a] = j]
  BY <1>1 DEF Do
<1> QED BY <1>2, <1>3 DEF KeyTypes

LEMMA JobEnds ==
  ASSUME KeyTypes, NEW a \in KeyActors, Ends(a)
  PROVE  /\ job' \in [KeyActors -> JobRecord]
         /\ job'[a].step = "idle"
         /\ \A b \in KeyActors \ {a} : job'[b] = job[b]
<1>1. Do(a, "idle", BootKey, NoKey)
  BY DEF Ends, Do, NoJob
<1> QED BY <1>1, JobMoves, NoKeyFields, KeysAssumption

LEMMA JobFields ==
  ASSUME KeyTypes, NEW a \in KeyActors
  PROVE  job[a].key \in GatewayKeyIds /\ job[a].dto \in GatewayKeyInfo
  BY DEF KeyTypes, JobRecord

-----------------------------------------------------------------------------
(* The goroutines at work on a key.                                        *)

Involved(a, k) ==
  job[a].key = k /\ job[a].step \in {"snapshot", "save", "hincrby", "hincrby_save", "admitted"}

SameSets(k) ==
  /\ PendingSave(k)' = PendingSave(k) /\ OperatorSave(k)' = OperatorSave(k)
  /\ PendingCount(k)' = PendingCount(k) /\ Disabling(k)' = Disabling(k)
  /\ Admitted(k)' = Admitted(k)

(* The step of a goroutine changes only what it is in itself. *)
LEMMA SetsMove ==
  ASSUME NEW a \in KeyActors, \A b \in KeyActors \ {a} : job'[b] = job[b],
         NEW k \in GatewayKeyIds
  PROVE  /\ PendingSave(k)' \ {a} = PendingSave(k) \ {a}
         /\ OperatorSave(k)' \ {a} = OperatorSave(k) \ {a}
         /\ PendingCount(k)' \ {a} = PendingCount(k) \ {a}
         /\ Disabling(k)' \ {a} = Disabling(k) \ {a}
         /\ Admitted(k)' \ {a} = Admitted(k) \ {a}
<1>1. PendingSave(k)' \ {a} = PendingSave(k) \ {a}
  BY DEF PendingSave
<1>2. OperatorSave(k)' \ {a} = OperatorSave(k) \ {a}
  <2>1. ASSUME NEW b \in KeyActors \ {a}
        PROVE  b \in OperatorSave(k)' <=> b \in OperatorSave(k)
    <3>1. b \in PendingSave(k)' <=> b \in PendingSave(k)
      BY <1>1
    <3>2. (Doing(b, "snapshot") \/ ~job[b].dto.disabled)'
            <=> (Doing(b, "snapshot") \/ ~job[b].dto.disabled)
      BY DEF Doing
    <3> QED BY <3>1, <3>2 DEF OperatorSave
  <2>2. OperatorSave(k)' \subseteq KeyActors /\ OperatorSave(k) \subseteq KeyActors
    BY DEF OperatorSave, PendingSave
  <2> QED BY <2>1, <2>2
<1>3. PendingCount(k)' \ {a} = PendingCount(k) \ {a}
  BY DEF PendingCount
<1>4. Disabling(k)' \ {a} = Disabling(k) \ {a}
  BY DEF Disabling
<1>5. Admitted(k)' \ {a} = Admitted(k) \ {a}
  BY DEF Admitted
<1> QED BY <1>1, <1>2, <1>3, <1>4, <1>5

LEMMA SetsStay ==
  ASSUME NEW a \in KeyActors, \A b \in KeyActors \ {a} : job'[b] = job[b],
         NEW k \in GatewayKeyIds, ~Involved(a, k), ~Involved(a, k)'
  PROVE  SameSets(k)
<1>1. /\ a \notin PendingSave(k) /\ a \notin OperatorSave(k) /\ a \notin PendingCount(k)
      /\ a \notin Disabling(k) /\ a \notin Admitted(k)
  BY DEF Involved, PendingSave, OperatorSave, PendingCount, Disabling, Admitted
<1>2. /\ a \notin PendingSave(k)' /\ a \notin OperatorSave(k)' /\ a \notin PendingCount(k)'
      /\ a \notin Disabling(k)' /\ a \notin Admitted(k)'
  BY DEF Involved, PendingSave, OperatorSave, PendingCount, Disabling, Admitted
<1> QED BY <1>1, <1>2, SetsMove DEF SameSets

(* The sets are finite, and change by one goroutine at a time. *)
LEMMA SetSizes ==
  ASSUME NEW k \in GatewayKeyIds
  PROVE  /\ Cardinality(PendingCount(k)) \in Nat /\ Cardinality(Admitted(k)) \in Nat
         /\ Cardinality(Admitted(k)) <= Cardinality(KeyActors)
         /\ Cardinality(KeyActors) \in Nat
         /\ PendingCount(k) = {} => Cardinality(PendingCount(k)) = 0
         /\ IsFiniteSet(PendingCount(k)) /\ IsFiniteSet(Admitted(k))
<1>1. IsFiniteSet(KeyActors)
  BY KeysAssumption
<1>2. PendingCount(k) \subseteq KeyActors /\ Admitted(k) \subseteq KeyActors
  BY DEF PendingCount, Admitted
<1>3. IsFiniteSet(PendingCount(k)) /\ IsFiniteSet(Admitted(k))
      /\ Cardinality(Admitted(k)) <= Cardinality(KeyActors)
  BY <1>1, <1>2, FS_Subset
<1> QED BY <1>1, <1>3, FS_CardinalityType, FS_EmptySet

LEMMA SizeGrows ==
  ASSUME NEW S, NEW T, NEW a, IsFiniteSet(S), a \notin S, a \in T, T \ {a} = S \ {a}
  PROVE  Cardinality(T) = Cardinality(S) + 1
<1>1. T = S \cup {a}
  OBVIOUS
<1> QED BY <1>1, FS_AddElement

LEMMA SizeShrinks ==
  ASSUME NEW S, NEW T, NEW a, IsFiniteSet(S), a \in S, a \notin T, T \ {a} = S \ {a}
  PROVE  Cardinality(T) = Cardinality(S) - 1
<1>1. T = S \ {a}
  OBVIOUS
<1> QED BY <1>1, FS_RemoveElement

LEMMA ActorsCount ==
  /\ Cardinality(KeyActors) \in Nat
  BY KeysAssumption, FS_CardinalityType

-----------------------------------------------------------------------------
(* What a step does not touch keeps its part of the invariant.             *)

LEMMA KeyStays ==
  ASSUME NEW k \in GatewayKeyIds, KeyInv(k), SameSets(k),
         info'[k] = info[k], keyHash'[k] = keyHash[k],
         k \in registered' => k \in registered, k \in removed' => k \in removed,
         (k \in skewed => k \in skewed'), (k \in excused => k \in excused')
  PROVE  KeyInv(k)'
<1>1. KeyShape(k)'
  BY DEF KeyInv, KeyShape, SameSets, AdminShape, CopyOf
<1>2. RemovedOff(k)'
  BY DEF KeyInv, RemovedOff, SameSets
<1>3. CountsAgree(k)'
  BY DEF KeyInv, CountsAgree, SameSets
<1>4. FlagsAgree(k)'
  BY DEF KeyInv, FlagsAgree, SameSets, DisabledWhenSpent
<1>5. RoomLeft(k)'
  BY DEF KeyInv, RoomLeft, SameSets
<1> QED BY <1>1, <1>2, <1>3, <1>4, <1>5 DEF KeyInv

(* A write about the key failed. *)
LEMMA SkewedKeeps ==
  ASSUME NEW k \in GatewayKeyIds, KeyInv(k), k \in skewed',
         UNCHANGED <<info, registered, keyHash, removed, excused>>,
         OperatorSave(k)' \subseteq OperatorSave(k), Admitted(k)' = Admitted(k)
  PROVE  KeyInv(k)'
<1>1. KeyShape(k)'
  BY DEF KeyInv, KeyShape, AdminShape
<1>2. RemovedOff(k)'
  BY DEF KeyInv, RemovedOff
<1>3. CountsAgree(k)'
  BY DEF CountsAgree
<1>4. FlagsAgree(k)'
  BY DEF KeyInv, FlagsAgree, DisabledWhenSpent
<1>5. RoomLeft(k)'
  BY DEF KeyInv, RoomLeft
<1> QED BY <1>1, <1>2, <1>3, <1>4, <1>5 DEF KeyInv

LEMMA JobStays ==
  ASSUME NEW b \in KeyActors, JobShape(b), job'[b] = job[b],
         job[b].step # "idle" =>
           /\ info'[job[b].key].key = info[job[b].key].key
           /\ info'[job[b].key].quota = info[job[b].key].quota
           /\ info'[job[b].key].role = "admin" => info[job[b].key].role = "admin"
           /\ job[b].key \in registered' => job[b].key \in registered,
         excused \subseteq excused'
  PROVE  JobShape(b)'
<1>1. CASE job[b].step = "idle"
  BY <1>1 DEF JobShape, HasDTO
<1>2. CASE job[b].step # "idle"
  BY <1>2 DEF JobShape, HasDTO, AdminShape, CopyOf, DisabledWhenSpent
<1> QED BY <1>1, <1>2

LEMMA AdminStays ==
  ASSUME AdminBesides, AdminKeys \subseteq AdminKeys', lockout => lockout',
         NEW a \in KeyActors, ~Guarded(a)', \A b \in KeyActors \ {a} : job'[b] = job[b]
  PROVE  AdminBesides'
<1> SUFFICES ASSUME ~lockout'
             PROVE  /\ AdminKeys' # {}
                    /\ \A b \in KeyActors : Guarded(b)' => AdminKeys' \ {job'[b].key} # {}
  BY DEF AdminBesides
<1>1. AdminKeys # {} /\ \A b \in KeyActors : Guarded(b) => AdminKeys \ {job[b].key} # {}
  BY DEF AdminBesides
<1>2. \A b \in KeyActors : Guarded(b)' => b # a /\ Guarded(b)
  BY DEF Guarded, Doing
<1> QED BY <1>1, <1>2

LEMMA AdminsStay ==
  ASSUME UNCHANGED <<info, registered>>
  PROVE  AdminKeys' = AdminKeys
  BY DEF AdminKeys

-----------------------------------------------------------------------------
(* Requests.                                                               *)

LEMMA AuthKeeps ==
  ASSUME KeysInv, NEW a \in KeyActors, NEW k \in GatewayKeyIds, AuthMiddleware(a, k)
  PROVE  KeysInv'
<1>1. /\ KeyTypes /\ job[a].step = "idle" /\ k \in registered /\ ~info[k].disabled
      /\ UNCHANGED <<info, registered, keyHash, removed, skewed, excused, lockout, keyRestarts>>
      /\ Do(a, "admitted", k, NoKey)
  BY DEF KeysInv, AuthMiddleware, Doing, Valid
<1>2. /\ job' \in [KeyActors -> JobRecord]
      /\ job'[a].step = "admitted" /\ job'[a].key = k
      /\ \A b \in KeyActors \ {a} : job'[b] = job[b]
  BY <1>1, JobMoves, NoKeyFields
<1>3. KeyTypes'
  BY <1>1, <1>2 DEF KeyTypes
<1>4. ASSUME NEW x \in GatewayKeyIds, x # k PROVE KeyInv(x)'
  <2>1. ~Involved(a, x) /\ ~Involved(a, x)'
    BY <1>1, <1>2, <1>4 DEF Involved
  <2>2. SameSets(x)
    BY <1>2, <2>1, SetsStay
  <2> QED BY <1>1, <2>2, KeyStays DEF KeysInv
<1>5. KeyInv(k)'
  <2>1. KeyInv(k) /\ info[k] \in GatewayKeyInfo
    BY <1>1 DEF KeysInv, KeyTypes
  <2>2. /\ PendingSave(k)' = PendingSave(k) /\ OperatorSave(k)' = OperatorSave(k)
        /\ PendingCount(k)' = PendingCount(k) /\ Disabling(k)' = Disabling(k)
    <3>1. /\ a \notin PendingSave(k) /\ a \notin OperatorSave(k) /\ a \notin PendingCount(k)
          /\ a \notin Disabling(k)
      BY <1>1 DEF PendingSave, OperatorSave, PendingCount, Disabling
    <3>2. /\ a \notin PendingSave(k)' /\ a \notin OperatorSave(k)' /\ a \notin PendingCount(k)'
          /\ a \notin Disabling(k)'
      BY <1>2 DEF PendingSave, OperatorSave, PendingCount, Disabling
    <3> QED BY <1>2, <3>1, <3>2, SetsMove
  <2>3. KeyShape(k)'
    BY <1>1, <2>1, <2>2 DEF KeyInv, KeyShape, AdminShape, CopyOf
  <2>4. RemovedOff(k)'
    BY <1>1, <2>1, <2>2 DEF KeyInv, RemovedOff
  <2>5. CountsAgree(k)'
    BY <1>1, <2>1, <2>2 DEF KeyInv, CountsAgree
  <2>6. FlagsAgree(k)'
    BY <1>1, <2>1, <2>2 DEF KeyInv, FlagsAgree, DisabledWhenSpent
  <2>7. RoomLeft(k)'
    <3>1. /\ Cardinality(Admitted(k)') \in Nat
          /\ Cardinality(Admitted(k)') <= Cardinality(KeyActors)
          /\ Cardinality(KeyActors) \in Nat
      <4>1. Admitted(k)' \subseteq KeyActors
        BY DEF Admitted
      <4> QED BY <4>1, ActorsCount, KeysAssumption, FS_Subset, FS_CardinalityType
    <3>2. k \notin excused /\ info[k].quota > 0 => info[k].used < info[k].quota
      BY <1>1, <2>1, InfoFields DEF KeyInv, FlagsAgree, DisabledWhenSpent
    <3> QED BY <1>1, <2>1, <3>1, <3>2, InfoFields DEF RoomLeft
  <2> QED BY <2>3, <2>4, <2>5, <2>6, <2>7 DEF KeyInv
<1>6. ASSUME NEW b \in KeyActors PROVE JobShape(b)'
  <2>1. CASE b = a
    <3>1. info[k].key
      BY <1>1 DEF KeysInv, KeyInv, KeyShape
    <3> QED BY <1>1, <1>2, <2>1, <3>1 DEF JobShape, HasDTO
  <2>2. CASE b # a
    BY <1>1, <1>2, <2>2, JobStays DEF KeysInv
  <2> QED BY <2>1, <2>2
<1>7. AdminBesides'
  <2>1. ~Guarded(a)'
    BY <1>2 DEF Guarded, Doing
  <2> QED BY <1>1, <1>2, <2>1, AdminsStay, AdminStays DEF KeysInv
<1> QED BY <1>3, <1>4, <1>5, <1>6, <1>7 DEF KeysInv

(* The token is counted in memory, and its increment is on its way. *)
LEMMA CountKeeps ==
  ASSUME KeysInv, NEW a \in KeyActors, IncrementTokens(a), job[a].key \in registered
  PROVE  KeysInv'
<1>1. PICK k \in GatewayKeyIds : k = job[a].key
  BY JobFields DEF KeysInv
<1> DEFINE spent == Spent(k, info[k].used + Amount)
           new == [info[k] EXCEPT !.used = info[k].used + Amount,
                                  !.disabled = info[k].disabled \/ spent]
<1>2. /\ KeyTypes /\ job[a].step = "admitted" /\ k \in registered
      /\ UNCHANGED <<registered, keyHash, removed, skewed, excused, lockout, keyRestarts>>
      /\ info' = [info EXCEPT ![k] = new]
      /\ Do(a, IF new.disabled THEN "hincrby_save" ELSE "hincrby", k,
            IF new.disabled THEN new ELSE NoKey)
  BY <1>1 DEF KeysInv, IncrementTokens, Doing
<1>3. info[k] \in GatewayKeyInfo /\ info[k].used \in Nat /\ info[k].quota \in Nat
  BY <1>2, InfoFields DEF KeyTypes
<1>4. PICK off \in BOOLEAN : off = (info[k].disabled \/ spent)
  OBVIOUS
<1>5. PICK n \in GatewayKeyInfo :
        /\ n = new
        /\ n.key = info[k].key /\ n.role = info[k].role /\ n.quota = info[k].quota
        /\ n.used = info[k].used + 1 /\ n.disabled = off
  <2>1. new = [info[k] EXCEPT !.used = info[k].used + Amount, !.disabled = off]
    BY <1>4, Zenon
  <2>2. PICK u \in Nat : u = info[k].used + Amount /\ u = info[k].used + 1
    BY <1>3 DEF Amount
  <2>3. /\ [info[k] EXCEPT !.used = u, !.disabled = off] \in GatewayKeyInfo
        /\ [info[k] EXCEPT !.used = u, !.disabled = off].key = info[k].key
        /\ [info[k] EXCEPT !.used = u, !.disabled = off].role = info[k].role
        /\ [info[k] EXCEPT !.used = u, !.disabled = off].quota = info[k].quota
        /\ [info[k] EXCEPT !.used = u, !.disabled = off].used = u
        /\ [info[k] EXCEPT !.used = u, !.disabled = off].disabled = off
    BY <1>3 DEF GatewayKeyInfo
  <2> QED BY <2>1, <2>2, <2>3
<1> HIDE DEF new
<1>6. off <=> \/ info[k].disabled
              \/ info[k].quota > 0 /\ info[k].used + 1 >= info[k].quota
  BY <1>4 DEF Spent, Amount
<1> HIDE DEF spent
<1>7. PICK step \in {"hincrby", "hincrby_save"}, dto \in GatewayKeyInfo :
        /\ Do(a, step, k, dto)
        /\ off => step = "hincrby_save" /\ dto = n
        /\ ~off => step = "hincrby"
  BY <1>2, <1>5, NoKeyFields
<1>8. /\ job' \in [KeyActors -> JobRecord]
      /\ job'[a].step = step /\ job'[a].key = k /\ job'[a].dto = dto
      /\ \A b \in KeyActors \ {a} : job'[b] = job[b]
  BY <1>2, <1>7, JobMoves
<1>9. /\ info' \in [GatewayKeyIds -> GatewayKeyInfo] /\ info'[k] = n
      /\ \A x \in GatewayKeyIds \ {k} : info'[x] = info[x]
  BY <1>2, <1>5 DEF KeyTypes
<1>10. KeyTypes'
  BY <1>2, <1>8, <1>9 DEF KeyTypes
<1>11. ASSUME NEW x \in GatewayKeyIds, x # k PROVE KeyInv(x)'
  <2>1. ~Involved(a, x) /\ ~Involved(a, x)'
    BY <1>1, <1>8, <1>11 DEF Involved
  <2>2. SameSets(x)
    BY <1>8, <2>1, SetsStay
  <2> QED BY <1>2, <1>9, <1>11, <2>2, KeyStays DEF KeysInv
<1>12. KeyInv(k)'
  <2>1. KeyInv(k)
    BY DEF KeysInv
  <2>2. PendingSave(k)' = PendingSave(k) /\ OperatorSave(k)' = OperatorSave(k)
    <3>1. a \notin PendingSave(k) /\ a \notin OperatorSave(k)
      BY <1>2 DEF PendingSave, OperatorSave
    <3>2. a \notin PendingSave(k)' /\ a \notin OperatorSave(k)'
      BY <1>8 DEF PendingSave, OperatorSave
    <3> QED BY <1>8, <3>1, <3>2, SetsMove, SMTT(30)
  <2>3. Cardinality(PendingCount(k)') = Cardinality(PendingCount(k)) + 1
    <3>1. a \notin PendingCount(k) /\ a \in PendingCount(k)'
      BY <1>2, <1>8 DEF PendingCount
    <3> QED BY <1>8, <3>1, SetsMove, SetSizes, SizeGrows
  <2>4. Cardinality(Admitted(k)') = Cardinality(Admitted(k)) - 1
    <3>1. a \in Admitted(k) /\ a \notin Admitted(k)'
      BY <1>1, <1>2, <1>8 DEF Admitted
    <3> QED BY <1>8, <3>1, SetsMove, SetSizes, SizeShrinks
  <2>5. off => Disabling(k)' # {}
    <3>1. off => a \in Disabling(k)'
      BY <1>7, <1>8 DEF Disabling
    <3> QED BY <3>1
  <2>6. ~off => Disabling(k)' = Disabling(k)
    <3>1. ~off => a \notin Disabling(k) /\ a \notin Disabling(k)'
      BY <1>2, <1>7, <1>8 DEF Disabling
    <3> QED BY <1>8, <3>1, SetsMove
  <2>7. KeyShape(k)'
    <3>1. AdminShape(info'[k])
      BY <1>3, <1>5, <1>6, <1>9, <2>1 DEF KeyInv, KeyShape, AdminShape
    <3> QED BY <1>2, <1>5, <1>9, <2>1, <2>2, <3>1 DEF KeyInv, KeyShape, AdminShape, CopyOf
  <2>8. RemovedOff(k)'
    BY <1>2, <1>5, <1>6, <1>9, <2>1, <2>2 DEF KeyInv, RemovedOff
  <2>9. CountsAgree(k)'
    <3>1. Cardinality(PendingCount(k)) \in Nat /\ keyHash[k].used \in Nat
      BY <1>2, SetSizes, InfoFields DEF KeyTypes
    <3> QED BY <1>2, <1>3, <1>5, <1>9, <2>1, <2>2, <2>3, <3>1 DEF KeyInv, CountsAgree
  <2>10. FlagsAgree(k)'
    <3>1. k \notin excused => DisabledWhenSpent(info'[k])
      BY <1>3, <1>5, <1>6, <1>9, <2>1 DEF KeyInv, FlagsAgree, DisabledWhenSpent
    <3>2. (/\ k \notin excused /\ k \notin skewed' /\ PendingSave(k)' = {}
           /\ Disabling(k)' = {} /\ keyHash'[k].key /\ info'[k].quota > 0) =>
            (keyHash'[k].disabled <=> info'[k].disabled)
      <4>1. CASE off
        BY <2>5, <4>1
      <4>2. CASE ~off
        BY <1>2, <1>5, <1>6, <1>9, <2>1, <2>2, <2>6, <4>2 DEF KeyInv, FlagsAgree
      <4> QED BY <4>1, <4>2
    <3> QED BY <1>2, <3>1, <3>2 DEF FlagsAgree
  <2>11. RoomLeft(k)'
    <3>1. Cardinality(Admitted(k)) \in Nat /\ Cardinality(KeyActors) \in Nat
      BY SetSizes
    <3> QED BY <1>2, <1>3, <1>5, <1>9, <2>1, <2>4, <3>1 DEF KeyInv, RoomLeft
  <2> QED BY <2>7, <2>8, <2>9, <2>10, <2>11 DEF KeyInv
<1>13. ASSUME NEW b \in KeyActors PROVE JobShape(b)'
  <2>1. CASE b = a
    <3>1. /\ info[k].key /\ AdminShape(info[k])
          /\ k \notin excused => DisabledWhenSpent(info[k])
      BY <1>2 DEF KeysInv, KeyInv, KeyShape, FlagsAgree
    <3>2. CASE off
      <4>1. AdminShape(n)
        BY <1>3, <1>5, <1>6, <3>1 DEF AdminShape
      <4>2. k \notin excused => DisabledWhenSpent(n)
        BY <1>3, <1>5, <1>6, <3>1 DEF DisabledWhenSpent
      <4>3. CopyOf(n, k)'
        BY <1>9 DEF CopyOf
      <4> QED BY <1>2, <1>5, <1>7, <1>8, <1>9, <2>1, <3>1, <3>2, <4>1, <4>2, <4>3
          DEF JobShape, HasDTO
    <3>3. CASE ~off
      BY <1>5, <1>7, <1>8, <1>9, <2>1, <3>1, <3>3 DEF JobShape, HasDTO
    <3> QED BY <3>2, <3>3
  <2>2. CASE b # a
    <3>1. /\ info'[job[b].key].key = info[job[b].key].key
          /\ info'[job[b].key].quota = info[job[b].key].quota
          /\ info'[job[b].key].role = "admin" => info[job[b].key].role = "admin"
      BY <1>2, <1>5, <1>9, JobFields
    <3> QED BY <1>2, <1>8, <2>2, <3>1, JobStays DEF KeysInv
  <2> QED BY <2>1, <2>2
<1>14. AdminBesides'
  <2>1. ~Guarded(a)'
    BY <1>8 DEF Guarded, Doing
  <2>2. AdminKeys \subseteq AdminKeys'
    <3> SUFFICES ASSUME NEW x \in AdminKeys PROVE x \in AdminKeys'
      OBVIOUS
    <3>1. x \in registered /\ x \in GatewayKeyIds /\ info[x].role = "admin" /\ ~info[x].disabled
      BY <1>2 DEF AdminKeys, KeyTypes
    <3>2. info'[x].role = "admin" /\ ~info'[x].disabled
      <4>1. CASE x = k
        <5>1. info[k].quota = 0
          BY <3>1, <4>1 DEF KeysInv, KeyInv, KeyShape, AdminShape
        <5> QED BY <1>5, <1>6, <1>9, <3>1, <4>1, <5>1
      <4>2. CASE x # k
        BY <1>9, <3>1, <4>2
      <4> QED BY <4>1, <4>2
    <3> QED BY <1>2, <3>1, <3>2 DEF AdminKeys
  <2> QED BY <1>2, <1>8, <2>1, <2>2, AdminStays DEF KeysInv
<1> QED BY <1>10, <1>11, <1>12, <1>13, <1>14 DEF KeysInv

(* The key is gone: the request ends without counting. *)
LEMMA UncountedKeeps ==
  ASSUME KeysInv, NEW a \in KeyActors, IncrementTokens(a), job[a].key \notin registered
  PROVE  KeysInv'
<1>1. PICK k \in GatewayKeyIds : k = job[a].key
  BY JobFields DEF KeysInv
<1>2. /\ KeyTypes /\ job[a].step = "admitted" /\ k \notin registered /\ Ends(a)
      /\ UNCHANGED <<info, registered, keyHash, removed, skewed, excused, lockout, keyRestarts>>
  BY <1>1 DEF KeysInv, IncrementTokens, Doing
<1>3. /\ job' \in [KeyActors -> JobRecord] /\ job'[a].step = "idle"
      /\ \A b \in KeyActors \ {a} : job'[b] = job[b]
  BY <1>2, JobEnds
<1>4. KeyTypes'
  BY <1>2, <1>3 DEF KeyTypes
<1>5. ASSUME NEW x \in GatewayKeyIds, x # k PROVE KeyInv(x)'
  <2>1. ~Involved(a, x) /\ ~Involved(a, x)'
    BY <1>1, <1>3, <1>5 DEF Involved
  <2>2. SameSets(x)
    BY <1>3, <2>1, SetsStay
  <2> QED BY <1>2, <2>2, KeyStays DEF KeysInv
<1>6. KeyInv(k)'
  <2>1. KeyInv(k) /\ info[k].used \in Nat /\ info[k].quota \in Nat
    BY <1>2, InfoFields DEF KeysInv, KeyTypes
  <2>2. /\ PendingSave(k)' = PendingSave(k) /\ OperatorSave(k)' = OperatorSave(k)
        /\ PendingCount(k)' = PendingCount(k) /\ Disabling(k)' = Disabling(k)
    <3>1. /\ a \notin PendingSave(k) /\ a \notin OperatorSave(k) /\ a \notin PendingCount(k)
          /\ a \notin Disabling(k)
      BY <1>2 DEF PendingSave, OperatorSave, PendingCount, Disabling
    <3>2. /\ a \notin PendingSave(k)' /\ a \notin OperatorSave(k)' /\ a \notin PendingCount(k)'
          /\ a \notin Disabling(k)'
      BY <1>3 DEF PendingSave, OperatorSave, PendingCount, Disabling
    <3> QED BY <1>3, <3>1, <3>2, SetsMove, SMTT(30)
  <2>3. KeyShape(k)'
    BY <1>2, <2>1, <2>2 DEF KeyInv, KeyShape, AdminShape, CopyOf
  <2>4. RemovedOff(k)'
    BY <1>2, <2>1, <2>2 DEF KeyInv, RemovedOff
  <2>5. CountsAgree(k)'
    BY <1>2, <2>1, <2>2 DEF KeyInv, CountsAgree
  <2>6. FlagsAgree(k)'
    BY <1>2, <2>1, <2>2 DEF KeyInv, FlagsAgree, DisabledWhenSpent
  <2>7. RoomLeft(k)'
    <3>1. Cardinality(Admitted(k)') = Cardinality(Admitted(k)) - 1
      <4>1. a \in Admitted(k) /\ a \notin Admitted(k)'
        BY <1>1, <1>2, <1>3 DEF Admitted
      <4> QED BY <1>3, <4>1, SetsMove, SetSizes, SizeShrinks
    <3>2. Cardinality(Admitted(k)) \in Nat /\ Cardinality(KeyActors) \in Nat
      BY SetSizes
    <3> QED BY <1>2, <2>1, <3>1, <3>2 DEF KeyInv, RoomLeft
  <2> QED BY <2>3, <2>4, <2>5, <2>6, <2>7 DEF KeyInv
<1>7. ASSUME NEW b \in KeyActors PROVE JobShape(b)'
  <2>1. CASE b = a
    BY <1>3, <2>1 DEF JobShape, HasDTO
  <2>2. CASE b # a
    BY <1>2, <1>3, <2>2, JobStays DEF KeysInv
  <2> QED BY <2>1, <2>2
<1>8. AdminBesides'
  <2>1. ~Guarded(a)'
    BY <1>3 DEF Guarded, Doing
  <2> QED BY <1>2, <1>3, <2>1, AdminsStay, AdminStays DEF KeysInv
<1> QED BY <1>4, <1>5, <1>6, <1>7, <1>8 DEF KeysInv

(* HINCRBY: Redis catches up by one request. *)
LEMMA HincrbyKeeps ==
  ASSUME KeysInv, NEW a \in KeyActors, IncrementGatewayKeyTokens(a)
  PROVE  KeysInv'
<1>1. PICK k \in GatewayKeyIds : k = job[a].key
  BY JobFields DEF KeysInv
<1> DEFINE saves == job[a].step = "hincrby_save"
<1>2. /\ KeyTypes /\ job[a].step \in {"hincrby", "hincrby_save"} /\ JobShape(a) /\ KeyInv(k)
      /\ UNCHANGED <<info, registered, removed, skewed, excused, lockout, keyRestarts>>
      /\ saves => Do(a, "save", k, job[a].dto)
      /\ ~saves => Ends(a)
  BY <1>1 DEF KeysInv, IncrementGatewayKeyTokens, Doing
<1>3. /\ keyHash' \in [GatewayKeyIds -> GatewayKeyInfo]
      /\ \A x \in GatewayKeyIds \ {k} : keyHash'[x] = keyHash[x]
      /\ keyHash'[k].key = keyHash[k].key /\ keyHash'[k].role = keyHash[k].role
      /\ keyHash'[k].quota = keyHash[k].quota /\ keyHash'[k].disabled = keyHash[k].disabled
      /\ keyHash'[k].used = keyHash[k].used + 1
      /\ keyHash[k].used \in Nat
  <2>1. keyHash[k] \in GatewayKeyInfo /\ keyHash[k].used \in Nat
    BY <1>2, InfoFields DEF KeyTypes
  <2>2. PICK u \in Nat : u = keyHash[k].used + Amount /\ u = keyHash[k].used + 1
    BY <2>1 DEF Amount
  <2>3. PICK h \in GatewayKeyInfo :
          /\ h = [keyHash[k] EXCEPT !.used = u]
          /\ h.key = keyHash[k].key /\ h.role = keyHash[k].role /\ h.quota = keyHash[k].quota
          /\ h.disabled = keyHash[k].disabled /\ h.used = u
    <3>1. /\ [keyHash[k] EXCEPT !.used = u] \in GatewayKeyInfo
          /\ [keyHash[k] EXCEPT !.used = u].key = keyHash[k].key
          /\ [keyHash[k] EXCEPT !.used = u].role = keyHash[k].role
          /\ [keyHash[k] EXCEPT !.used = u].quota = keyHash[k].quota
          /\ [keyHash[k] EXCEPT !.used = u].disabled = keyHash[k].disabled
          /\ [keyHash[k] EXCEPT !.used = u].used = u
      BY <2>1 DEF GatewayKeyInfo
    <3> QED BY <3>1
  <2>4. keyHash' = [keyHash EXCEPT ![k] = h]
    BY <1>1, <2>2, <2>3 DEF IncrementGatewayKeyTokens
  <2> QED BY <1>2, <2>1, <2>2, <2>3, <2>4 DEF KeyTypes
<1>4. /\ job' \in [KeyActors -> JobRecord]
      /\ \A b \in KeyActors \ {a} : job'[b] = job[b]
      /\ saves => job'[a].step = "save" /\ job'[a].key = k /\ job'[a].dto = job[a].dto
      /\ ~saves => job'[a].step = "idle"
  <2>1. CASE saves
    BY <1>2, <2>1, JobMoves, JobFields
  <2>2. CASE ~saves
    BY <1>2, <2>2, JobEnds
  <2> QED BY <2>1, <2>2
<1>5. KeyTypes'
  BY <1>2, <1>3, <1>4 DEF KeyTypes
<1>6. ASSUME NEW x \in GatewayKeyIds, x # k PROVE KeyInv(x)'
  <2>1. ~Involved(a, x) /\ ~Involved(a, x)'
    BY <1>1, <1>2, <1>4, <1>6 DEF Involved
  <2>2. SameSets(x)
    BY <1>4, <2>1, SetsStay
  <2> QED BY <1>2, <1>3, <1>6, <2>2, KeyStays DEF KeysInv
<1>7. KeyInv(k)'
  <2>1. OperatorSave(k)' = OperatorSave(k)
    <3>1. a \notin OperatorSave(k)
      BY <1>2 DEF OperatorSave, PendingSave
    <3>2. a \notin OperatorSave(k)'
      <4>1. CASE saves
        <5>1. job'[a].dto.disabled
          BY <1>2, <1>4, <4>1 DEF JobShape
        <5> QED BY <1>4, <4>1, <5>1 DEF OperatorSave, Doing
      <4>2. CASE ~saves
        BY <1>4, <4>2 DEF OperatorSave, PendingSave
      <4> QED BY <4>1, <4>2
    <3> QED BY <1>4, <3>1, <3>2, SetsMove
  <2>2. Cardinality(PendingCount(k)') = Cardinality(PendingCount(k)) - 1
    <3>1. a \in PendingCount(k) /\ a \notin PendingCount(k)'
      BY <1>1, <1>2, <1>4 DEF PendingCount
    <3> QED BY <1>4, <3>1, SetsMove, SetSizes, SizeShrinks
  <2>3. Admitted(k)' = Admitted(k)
    <3>1. a \notin Admitted(k) /\ a \notin Admitted(k)'
      BY <1>2, <1>4 DEF Admitted
    <3> QED BY <1>4, <3>1, SetsMove
  <2>4. /\ saves => PendingSave(k)' # {}
        /\ ~saves => PendingSave(k)' = PendingSave(k) /\ Disabling(k)' = Disabling(k)
    <3>1. saves => a \in PendingSave(k)'
      BY <1>4 DEF PendingSave
    <3>2. ~saves => /\ a \notin PendingSave(k) /\ a \notin PendingSave(k)'
                    /\ a \notin Disabling(k) /\ a \notin Disabling(k)'
      BY <1>2, <1>4 DEF PendingSave, Disabling
    <3> QED BY <1>4, <3>1, <3>2, SetsMove
  <2> HIDE DEF saves
  <2>5. KeyShape(k)'
    BY <1>2, <1>3, <2>4 DEF KeyInv, KeyShape, AdminShape, CopyOf
  <2>6. RemovedOff(k)'
    BY <1>2, <1>3, <2>1 DEF KeyInv, RemovedOff
  <2>7. CountsAgree(k)'
    <3>1. Cardinality(PendingCount(k)) \in Nat
      BY SetSizes
    <3> QED BY <1>2, <1>3, <2>2, <2>4, <3>1 DEF KeyInv, CountsAgree
  <2>8. FlagsAgree(k)'
    BY <1>2, <1>3, <2>4 DEF KeyInv, FlagsAgree, DisabledWhenSpent
  <2>9. RoomLeft(k)'
    BY <1>2, <2>3 DEF KeyInv, RoomLeft
  <2> QED BY <2>5, <2>6, <2>7, <2>8, <2>9 DEF KeyInv
<1>8. ASSUME NEW b \in KeyActors PROVE JobShape(b)'
  <2>1. CASE b = a
    <3>1. CASE saves
      BY <1>1, <1>2, <1>4, <2>1, <3>1
      DEF JobShape, HasDTO, AdminShape, CopyOf, DisabledWhenSpent
    <3>2. CASE ~saves
      BY <1>4, <2>1, <3>2 DEF JobShape, HasDTO
    <3> QED BY <3>1, <3>2
  <2>2. CASE b # a
    BY <1>2, <1>4, <2>2, JobStays DEF KeysInv
  <2> QED BY <2>1, <2>2
<1>9. AdminBesides'
  <2>1. ~Guarded(a)'
    BY <1>4 DEF Guarded, Doing
  <2> QED BY <1>2, <1>4, <2>1, AdminsStay, AdminStays DEF KeysInv
<1> QED BY <1>5, <1>6, <1>7, <1>8, <1>9 DEF KeysInv

(* A save writes the copy the goroutine has. *)
LEMMA SaveKeeps ==
  ASSUME KeysInv, NEW a \in KeyActors, SaveGatewayKey(a)
  PROVE  KeysInv'
<1>1. PICK k \in GatewayKeyIds : k = job[a].key
  BY JobFields DEF KeysInv
<1>2. PICK dto \in GatewayKeyInfo : dto = job[a].dto
  BY JobFields DEF KeysInv
<1>3. /\ KeyTypes /\ job[a].step = "save" /\ KeyInv(k) /\ Ends(a)
      /\ UNCHANGED <<info, registered, removed, excused, lockout, keyRestarts>>
      /\ keyHash' = [keyHash EXCEPT ![k] = dto]
      /\ skewed' = IF PendingCount(k) # {} \/ dto.used # info[k].used
                   THEN skewed \cup {k} ELSE skewed \ {k}
  BY <1>1, <1>2 DEF KeysInv, SaveGatewayKey, Doing
<1>4. /\ dto.key /\ AdminShape(dto) /\ CopyOf(dto, k)
      /\ k \notin excused => DisabledWhenSpent(dto)
  BY <1>1, <1>2, <1>3 DEF KeysInv, JobShape, HasDTO
<1>5. /\ keyHash' \in [GatewayKeyIds -> GatewayKeyInfo] /\ keyHash'[k] = dto
      /\ \A x \in GatewayKeyIds \ {k} : keyHash'[x] = keyHash[x]
  BY <1>3 DEF KeyTypes
<1>6. /\ job' \in [KeyActors -> JobRecord] /\ job'[a].step = "idle"
      /\ \A b \in KeyActors \ {a} : job'[b] = job[b]
  BY <1>3, JobEnds
<1>7. /\ skewed' \in SUBSET GatewayKeyIds /\ \A x \in GatewayKeyIds \ {k} : x \in skewed => x \in skewed'
      /\ k \notin skewed' => PendingCount(k) = {} /\ dto.used = info[k].used
  BY <1>3 DEF KeyTypes
<1>8. KeyTypes'
  BY <1>3, <1>5, <1>6, <1>7 DEF KeyTypes
<1>9. ASSUME NEW x \in GatewayKeyIds, x # k PROVE KeyInv(x)'
  <2>1. ~Involved(a, x) /\ ~Involved(a, x)'
    BY <1>1, <1>6, <1>9 DEF Involved
  <2>2. SameSets(x)
    BY <1>6, <2>1, SetsStay
  <2> QED BY <1>3, <1>5, <1>7, <1>9, <2>2, KeyStays DEF KeysInv
<1>10. KeyInv(k)'
  <2>1. a \in PendingSave(k)
    BY <1>1, <1>3 DEF PendingSave
  <2>2. PendingCount(k)' = PendingCount(k) /\ Admitted(k)' = Admitted(k)
    <3>1. /\ a \notin PendingCount(k) /\ a \notin PendingCount(k)'
          /\ a \notin Admitted(k) /\ a \notin Admitted(k)'
      BY <1>3, <1>6 DEF PendingCount, Admitted
    <3> QED BY <1>6, <3>1, SetsMove
  <2>3. OperatorSave(k)' \subseteq OperatorSave(k)
    <3>1. a \notin OperatorSave(k)'
      BY <1>6 DEF OperatorSave, PendingSave
    <3> QED BY <1>6, <3>1, SetsMove
  <2>4. KeyShape(k)'
    BY <1>3, <1>4, <1>5 DEF KeyInv, KeyShape, AdminShape, CopyOf
  <2>5. RemovedOff(k)'
    <3>1. k \in removed => dto.disabled
      BY <1>2, <1>3, <2>1 DEF KeyInv, RemovedOff, OperatorSave
    <3> QED BY <1>3, <1>5, <2>3, <3>1 DEF KeyInv, RemovedOff
  <2>6. CountsAgree(k)'
    <3>1. PendingCount(k) = {} => Cardinality(PendingCount(k)) = 0
      BY SetSizes
    <3>2. info[k].used \in Nat
      BY <1>3, InfoFields DEF KeyTypes
    <3> QED BY <1>3, <1>5, <1>7, <2>2, <3>1, <3>2 DEF CountsAgree
  <2>7. FlagsAgree(k)'
    <3>1. k \notin excused /\ k \notin skewed' /\ info[k].quota > 0
            => (dto.disabled <=> info[k].disabled)
      BY <1>3, <1>4, <1>7 DEF KeyInv, FlagsAgree, DisabledWhenSpent, CopyOf
    <3> QED BY <1>3, <1>5, <3>1 DEF KeyInv, FlagsAgree, DisabledWhenSpent
  <2>8. RoomLeft(k)'
    BY <1>3, <2>2 DEF KeyInv, RoomLeft
  <2> QED BY <2>4, <2>5, <2>6, <2>7, <2>8 DEF KeyInv
<1>11. ASSUME NEW b \in KeyActors PROVE JobShape(b)'
  <2>1. CASE b = a
    BY <1>6, <2>1 DEF JobShape, HasDTO
  <2>2. CASE b # a
    BY <1>3, <1>6, <2>2, JobStays DEF KeysInv
  <2> QED BY <2>1, <2>2
<1>12. AdminBesides'
  <2>1. ~Guarded(a)'
    BY <1>6 DEF Guarded, Doing
  <2> QED BY <1>3, <1>6, <2>1, AdminsStay, AdminStays DEF KeysInv
<1> QED BY <1>8, <1>9, <1>10, <1>11, <1>12 DEF KeysInv

(* HINCRBY fails: Redis stays behind, which skewed remembers. *)
LEMMA HincrbyFailsKeeps ==
  ASSUME KeysInv, NEW a \in KeyActors, IncrementGatewayKeyTokensFails(a)
  PROVE  KeysInv'
<1>1. PICK k \in GatewayKeyIds : k = job[a].key
  BY JobFields DEF KeysInv
<1> DEFINE saves == job[a].step = "hincrby_save"
<1>2. /\ KeyTypes /\ job[a].step \in {"hincrby", "hincrby_save"} /\ JobShape(a) /\ KeyInv(k)
      /\ UNCHANGED <<info, registered, keyHash, removed, excused, lockout, keyRestarts>>
      /\ skewed' = skewed \cup {k}
      /\ saves => Do(a, "save", k, job[a].dto)
      /\ ~saves => Ends(a)
  BY <1>1 DEF KeysInv, IncrementGatewayKeyTokensFails, Doing
<1>3. /\ job' \in [KeyActors -> JobRecord]
      /\ \A b \in KeyActors \ {a} : job'[b] = job[b]
      /\ saves => job'[a].step = "save" /\ job'[a].key = k /\ job'[a].dto = job[a].dto
      /\ ~saves => job'[a].step = "idle"
  <2>1. CASE saves
    BY <1>2, <2>1, JobMoves, JobFields
  <2>2. CASE ~saves
    BY <1>2, <2>2, JobEnds
  <2> QED BY <2>1, <2>2
<1>4. KeyTypes'
  BY <1>2, <1>3 DEF KeyTypes
<1>5. ASSUME NEW x \in GatewayKeyIds, x # k PROVE KeyInv(x)'
  <2>1. ~Involved(a, x) /\ ~Involved(a, x)'
    BY <1>1, <1>2, <1>3, <1>5 DEF Involved
  <2>2. SameSets(x)
    BY <1>3, <2>1, SetsStay
  <2> QED BY <1>2, <2>2, KeyStays DEF KeysInv
<1>6. KeyInv(k)'
  <2>1. OperatorSave(k)' = OperatorSave(k)
    <3>1. a \notin OperatorSave(k)
      BY <1>2 DEF OperatorSave, PendingSave
    <3>2. a \notin OperatorSave(k)'
      <4>1. CASE saves
        <5>1. job'[a].dto.disabled
          BY <1>2, <1>3, <4>1 DEF JobShape
        <5> QED BY <1>3, <4>1, <5>1 DEF OperatorSave, Doing
      <4>2. CASE ~saves
        BY <1>3, <4>2 DEF OperatorSave, PendingSave
      <4> QED BY <4>1, <4>2
    <3> QED BY <1>3, <3>1, <3>2, SetsMove
  <2>2. Admitted(k)' = Admitted(k)
    <3>1. a \notin Admitted(k) /\ a \notin Admitted(k)'
      BY <1>2, <1>3 DEF Admitted
    <3> QED BY <1>3, <3>1, SetsMove
  <2> QED BY <1>2, <2>1, <2>2, SkewedKeeps
<1>7. ASSUME NEW b \in KeyActors PROVE JobShape(b)'
  <2>1. CASE b = a
    <3>1. CASE saves
      BY <1>1, <1>2, <1>3, <2>1, <3>1
      DEF JobShape, HasDTO, AdminShape, CopyOf, DisabledWhenSpent
    <3>2. CASE ~saves
      BY <1>3, <2>1, <3>2 DEF JobShape, HasDTO
    <3> QED BY <3>1, <3>2
  <2>2. CASE b # a
    BY <1>2, <1>3, <2>2, JobStays DEF KeysInv
  <2> QED BY <2>1, <2>2
<1>8. AdminBesides'
  <2>1. ~Guarded(a)'
    BY <1>3 DEF Guarded, Doing
  <2> QED BY <1>2, <1>3, <2>1, AdminsStay, AdminStays DEF KeysInv
<1> QED BY <1>4, <1>5, <1>6, <1>7, <1>8 DEF KeysInv

(* A save or a removal that fails: Redis has what it had. *)
LEMMA FailsKeeps ==
  ASSUME KeysInv, NEW a \in KeyActors, SaveGatewayKeyFails(a) \/ DeleteGatewayKeyFails(a)
  PROVE  KeysInv'
<1>1. PICK k \in GatewayKeyIds : k = job[a].key
  BY JobFields DEF KeysInv
<1>2. /\ KeyTypes /\ KeyInv(k) /\ Ends(a)
      /\ UNCHANGED <<info, registered, keyHash, removed, excused, lockout, keyRestarts>>
      /\ \/ job[a].step = "save" /\ skewed' = skewed \cup {k}
         \/ job[a].step = "del" /\ skewed' = skewed
  BY <1>1 DEF KeysInv, SaveGatewayKeyFails, DeleteGatewayKeyFails, Doing
<1>3. /\ job' \in [KeyActors -> JobRecord] /\ job'[a].step = "idle"
      /\ \A b \in KeyActors \ {a} : job'[b] = job[b]
  BY <1>2, JobEnds
<1>4. KeyTypes'
  BY <1>2, <1>3 DEF KeyTypes
<1>5. ASSUME NEW x \in GatewayKeyIds, x # k PROVE KeyInv(x)'
  <2>1. ~Involved(a, x) /\ ~Involved(a, x)'
    BY <1>1, <1>3, <1>5 DEF Involved
  <2>2. SameSets(x)
    BY <1>3, <2>1, SetsStay
  <2> QED BY <1>2, <2>2, KeyStays DEF KeysInv
<1>6. KeyInv(k)'
  <2>1. CASE job[a].step = "save"
    <3>1. Admitted(k)' = Admitted(k)
      <4>1. a \notin Admitted(k) /\ a \notin Admitted(k)'
        BY <1>3, <2>1 DEF Admitted
      <4> QED BY <1>3, <4>1, SetsMove
    <3>2. OperatorSave(k)' \subseteq OperatorSave(k)
      <4>1. a \notin OperatorSave(k)'
        BY <1>3 DEF OperatorSave, PendingSave
      <4> QED BY <1>3, <4>1, SetsMove
    <3> QED BY <1>2, <2>1, <3>1, <3>2, SkewedKeeps
  <2>2. CASE job[a].step = "del"
    <3>1. ~Involved(a, k) /\ ~Involved(a, k)'
      BY <1>3, <2>2 DEF Involved
    <3>2. SameSets(k)
      BY <1>3, <3>1, SetsStay
    <3> QED BY <1>2, <2>2, <3>2, KeyStays
  <2> QED BY <1>2, <2>1, <2>2
<1>7. ASSUME NEW b \in KeyActors PROVE JobShape(b)'
  <2>1. CASE b = a
    BY <1>3, <2>1 DEF JobShape, HasDTO
  <2>2. CASE b # a
    BY <1>2, <1>3, <2>2, JobStays DEF KeysInv
  <2> QED BY <2>1, <2>2
<1>8. AdminBesides'
  <2>1. ~Guarded(a)'
    BY <1>3 DEF Guarded, Doing
  <2> QED BY <1>2, <1>3, <2>1, AdminsStay, AdminStays DEF KeysInv
<1> QED BY <1>4, <1>5, <1>6, <1>7, <1>8 DEF KeysInv

-----------------------------------------------------------------------------
(* Operators' calls.                                                       *)

LEMMA CreateKeeps ==
  ASSUME KeysInv, NEW a \in KeyActors, NEW k \in GatewayKeyIds,
         NEW role \in {"admin", "inference"}, NEW quota \in {0, Quota},
         role = "admin" => quota = 0,
         HandleCreateKey(a, k, role, quota)
  PROVE  KeysInv'
<1>1. /\ KeyTypes /\ job[a].step = "idle" /\ KeyInv(k)
      /\ ~info[k].key /\ ~keyHash[k].key /\ k \notin removed /\ k # BootKey
      /\ info' = [info EXCEPT ![k] = NewKey(role, quota)]
      /\ registered' = registered \cup {k}
      /\ Do(a, "snapshot", k, NoKey)
      /\ UNCHANGED <<keyHash, removed, skewed, excused, lockout, keyRestarts>>
  BY NoKeyFields DEF KeysInv, HandleCreateKey, GenerateGatewayKey, Doing
<1>2. PICK n \in GatewayKeyInfo :
        /\ n = NewKey(role, quota)
        /\ n.key /\ n.role = role /\ n.quota = quota /\ n.used = 0 /\ ~n.disabled
  <2>1. /\ NewKey(role, quota) \in GatewayKeyInfo
        /\ NewKey(role, quota).key /\ NewKey(role, quota).role = role
        /\ NewKey(role, quota).quota = quota /\ NewKey(role, quota).used = 0
        /\ ~NewKey(role, quota).disabled
    BY DEF NewKey, GatewayKeyInfo
  <2> QED BY <2>1
<1>3. /\ info' \in [GatewayKeyIds -> GatewayKeyInfo] /\ info'[k] = n
      /\ \A x \in GatewayKeyIds \ {k} : info'[x] = info[x]
  BY <1>1, <1>2 DEF KeyTypes
<1>4. /\ job' \in [KeyActors -> JobRecord]
      /\ job'[a].step = "snapshot" /\ job'[a].key = k
      /\ \A b \in KeyActors \ {a} : job'[b] = job[b]
  BY <1>1, JobMoves, NoKeyFields
<1>5. KeyTypes'
  BY <1>1, <1>3, <1>4 DEF KeyTypes
<1>6. ASSUME NEW x \in GatewayKeyIds, x # k PROVE KeyInv(x)'
  <2>1. ~Involved(a, x) /\ ~Involved(a, x)'
    BY <1>1, <1>4, <1>6 DEF Involved
  <2>2. SameSets(x)
    BY <1>4, <2>1, SetsStay
  <2> QED BY <1>1, <1>3, <1>6, <2>2, KeyStays DEF KeysInv
<1>7. KeyInv(k)'
  <2>1. PendingSave(k)' # {}
    <3>1. a \in PendingSave(k)'
      BY <1>4 DEF PendingSave
    <3> QED BY <3>1
  <2>2. AdminShape(info[k]') /\ AdminShape(keyHash[k])
    BY <1>1, <1>2, <1>3 DEF AdminShape, KeyInv, KeyShape
  <2>3. KeyShape(k)'
    BY <1>1, <1>2, <1>3, <2>1, <2>2 DEF KeyShape
  <2>4. RemovedOff(k)' /\ CountsAgree(k)'
    BY <1>1, <2>1 DEF RemovedOff, CountsAgree
  <2>5. Quota \in Nat /\ Quota > 0
    BY KeysAssumption
  <2>6. FlagsAgree(k)'
    BY <1>2, <1>3, <2>1, <2>5 DEF FlagsAgree, DisabledWhenSpent
  <2>7. RoomLeft(k)'
    <3>1. Admitted(k)' = Admitted(k)
      <4>1. a \notin Admitted(k) /\ a \notin Admitted(k)'
        BY <1>1, <1>4 DEF Admitted
      <4> QED BY <1>4, <4>1, SetsMove
    <3>2. /\ Cardinality(Admitted(k)) <= Cardinality(KeyActors)
          /\ Cardinality(Admitted(k)) \in Nat /\ Cardinality(KeyActors) \in Nat
      BY SetSizes
    <3> QED BY <1>2, <1>3, <2>5, <3>1, <3>2 DEF RoomLeft
  <2> QED BY <2>3, <2>4, <2>6, <2>7 DEF KeyInv
<1>8. ASSUME NEW b \in KeyActors PROVE JobShape(b)'
  <2>1. CASE b = a
    BY <1>2, <1>3, <1>4, <2>1 DEF JobShape, HasDTO
  <2>2. CASE b # a
    <3>1. job[b].step # "idle" => job[b].key # k
      BY <1>1 DEF KeysInv, JobShape
    <3> QED BY <1>1, <1>3, <1>4, <2>2, <3>1, JobFields, JobStays DEF KeysInv
  <2> QED BY <2>1, <2>2
<1>9. AdminBesides'
  <2>1. ~Guarded(a)'
    BY <1>4 DEF Guarded, Doing
  <2>2. AdminKeys \subseteq AdminKeys'
    <3> SUFFICES ASSUME NEW x \in AdminKeys PROVE x \in AdminKeys'
      OBVIOUS
    <3>1. /\ x \in registered /\ x \in GatewayKeyIds /\ x # k
          /\ info[x].role = "admin" /\ ~info[x].disabled
      BY <1>1 DEF AdminKeys, KeyTypes, KeyInv, KeyShape
    <3> QED BY <1>1, <1>3, <3>1 DEF AdminKeys
  <2> QED BY <1>1, <1>4, <2>1, <2>2, AdminStays DEF KeysInv
<1> QED BY <1>5, <1>6, <1>7, <1>8, <1>9 DEF KeysInv

(* The copy to save is taken from memory. *)
LEMMA SnapshotKeeps ==
  ASSUME KeysInv, NEW a \in KeyActors, saveGatewayKey(a)
  PROVE  KeysInv'
<1>1. PICK k \in GatewayKeyIds : k = job[a].key
  BY JobFields DEF KeysInv
<1>2. /\ KeyTypes /\ job[a].step = "snapshot" /\ KeyInv(k) /\ Do(a, "save", k, info[k])
      /\ UNCHANGED <<info, registered, keyHash, removed, skewed, excused, lockout, keyRestarts>>
  BY <1>1 DEF KeysInv, saveGatewayKey, Doing, gatewayKeyDTOFromInfo
<1>3. /\ job' \in [KeyActors -> JobRecord]
      /\ job'[a].step = "save" /\ job'[a].key = k /\ job'[a].dto = info[k]
      /\ \A b \in KeyActors \ {a} : job'[b] = job[b]
  <2>1. info[k] \in GatewayKeyInfo
    BY <1>2 DEF KeyTypes
  <2> QED BY <1>2, <2>1, JobMoves
<1>4. KeyTypes'
  BY <1>2, <1>3 DEF KeyTypes
<1>5. ASSUME NEW x \in GatewayKeyIds, x # k PROVE KeyInv(x)'
  <2>1. ~Involved(a, x) /\ ~Involved(a, x)'
    BY <1>1, <1>3, <1>5 DEF Involved
  <2>2. SameSets(x)
    BY <1>3, <2>1, SetsStay
  <2> QED BY <1>2, <2>2, KeyStays DEF KeysInv
<1>6. KeyInv(k)'
  <2>1. a \in PendingSave(k) /\ a \in PendingSave(k)' /\ a \in OperatorSave(k)
    BY <1>1, <1>2, <1>3 DEF PendingSave, OperatorSave, Doing
  <2>2. /\ PendingSave(k)' = PendingSave(k) /\ OperatorSave(k)' \subseteq OperatorSave(k)
    BY <1>3, <2>1, SetsMove, SMTT(30)
  <2>3. Admitted(k)' = Admitted(k)
    <3>1. a \notin Admitted(k) /\ a \notin Admitted(k)'
      BY <1>2, <1>3 DEF Admitted
    <3> QED BY <1>3, <3>1, SetsMove
  <2>4. KeyShape(k)'
    BY <1>2, <2>2 DEF KeyInv, KeyShape, AdminShape, CopyOf
  <2>5. RemovedOff(k)'
    BY <1>2, <2>2 DEF KeyInv, RemovedOff
  <2>6. PendingSave(k)' # {}
    BY <2>1
  <2>7. CountsAgree(k)' /\ FlagsAgree(k)'
    BY <1>2, <2>6 DEF KeyInv, CountsAgree, FlagsAgree, DisabledWhenSpent
  <2>8. RoomLeft(k)'
    BY <1>2, <2>3 DEF KeyInv, RoomLeft
  <2> QED BY <2>4, <2>5, <2>7, <2>8 DEF KeyInv
<1>7. ASSUME NEW b \in KeyActors PROVE JobShape(b)'
  <2>1. CASE b = a
    <3>1. /\ info[k].key /\ AdminShape(info[k])
          /\ k \notin excused => DisabledWhenSpent(info[k])
      BY <1>1, <1>2 DEF KeysInv, JobShape, KeyInv, KeyShape, FlagsAgree
    <3>2. CopyOf(info[k], k)'
      BY <1>2 DEF CopyOf
    <3> QED BY <1>2, <1>3, <2>1, <3>1, <3>2 DEF JobShape, HasDTO, CopyOf
  <2>2. CASE b # a
    BY <1>2, <1>3, <2>2, JobStays DEF KeysInv
  <2> QED BY <2>1, <2>2
<1>8. AdminBesides'
  <2>1. ~Guarded(a)'
    BY <1>3 DEF Guarded, Doing
  <2> QED BY <1>2, <1>3, <2>1, AdminsStay, AdminStays DEF KeysInv
<1> QED BY <1>4, <1>5, <1>6, <1>7, <1>8 DEF KeysInv

(* The guard: with an admin besides k, or k none, one remains without k. *)
LEMMA GuardHolds ==
  ASSUME KeysInv, ~lockout, NEW k \in GatewayKeyIds, k \in registered,
         ~(info[k].role = "admin" /\ CountAdmins <= 1)
  PROVE  AdminKeys \ {k} # {}
<1>1. AdminKeys # {}
  BY DEF KeysInv, AdminBesides
<1>2. CASE k \notin AdminKeys
  BY <1>1, <1>2
<1>3. CASE k \in AdminKeys
  <2>1. info[k].role = "admin"
    BY <1>3 DEF AdminKeys
  <2>2. SUFFICES ASSUME AdminKeys \ {k} = {} PROVE FALSE
    OBVIOUS
  <2>3. AdminKeys = {k}
    BY <1>3, <2>2
  <2>4. Cardinality({k}) = 1
    BY FS_Singleton
  <2> QED BY <2>1, <2>3, <2>4 DEF CountAdmins
<1> QED BY <1>2, <1>3

(* HandleDeleteKey and HandleUpdateKey up to their guards. *)
LEMMA GuardKeeps ==
  ASSUME KeysInv, NEW a \in KeyActors, NEW k \in GatewayKeyIds,
         HandleDeleteKey(a, k) \/ HandleUpdateKey(a, k)
  PROVE  KeysInv'
<1>1. /\ KeyTypes /\ job[a].step = "idle" /\ k \in registered
      /\ ~(info[k].role = "admin" /\ CountAdmins <= 1)
      /\ Do(a, "remove", k, NoKey) \/ Do(a, "demote", k, NoKey)
      /\ UNCHANGED <<info, registered, keyHash, removed, skewed, excused, lockout, keyRestarts>>
  BY DEF KeysInv, HandleDeleteKey, HandleUpdateKey, Doing
<1>2. /\ job' \in [KeyActors -> JobRecord]
      /\ job'[a].step \in {"remove", "demote"} /\ job'[a].key = k
      /\ \A b \in KeyActors \ {a} : job'[b] = job[b]
  BY <1>1, JobMoves, NoKeyFields
<1>3. KeyTypes'
  BY <1>1, <1>2 DEF KeyTypes
<1>4. ASSUME NEW x \in GatewayKeyIds PROVE KeyInv(x)'
  <2>1. ~Involved(a, x) /\ ~Involved(a, x)'
    BY <1>1, <1>2 DEF Involved
  <2>2. SameSets(x)
    BY <1>2, <2>1, SetsStay
  <2> QED BY <1>1, <2>2, KeyStays DEF KeysInv
<1>5. ASSUME NEW b \in KeyActors PROVE JobShape(b)'
  <2>1. CASE b = a
    <3>1. info[k].key
      BY <1>1 DEF KeysInv, KeyInv, KeyShape
    <3> QED BY <1>1, <1>2, <2>1, <3>1 DEF JobShape, HasDTO
  <2>2. CASE b # a
    BY <1>1, <1>2, <2>2, JobStays DEF KeysInv
  <2> QED BY <2>1, <2>2
<1>6. AdminBesides'
  <2> SUFFICES ASSUME ~lockout'
               PROVE  /\ AdminKeys' # {}
                      /\ \A b \in KeyActors : Guarded(b)' => AdminKeys' \ {job'[b].key} # {}
    BY DEF AdminBesides
  <2>1. ~lockout /\ AdminKeys' = AdminKeys
    BY <1>1, AdminsStay
  <2>2. /\ AdminKeys # {}
        /\ \A b \in KeyActors : Guarded(b) => AdminKeys \ {job[b].key} # {}
    BY <2>1 DEF KeysInv, AdminBesides
  <2>3. AdminKeys \ {k} # {}
    BY <1>1, <2>1, GuardHolds
  <2>4. \A b \in KeyActors \ {a} : Guarded(b)' => Guarded(b)
    BY <1>2 DEF Guarded, Doing
  <2> QED BY <1>2, <2>1, <2>2, <2>3, <2>4
<1> QED BY <1>3, <1>4, <1>5, <1>6 DEF KeysInv

(* A guarded call that nobody crosses leaves an admin. *)
LEMMA UncrossedLeavesAdmin ==
  ASSUME AdminBesides, NEW a \in KeyActors, Guarded(a), ~Guarded(a)',
         \A b \in KeyActors \ {a} : job'[b] = job[b],
         lockout' = (lockout \/ CrossedGuard(a)),
         AdminKeys \ {job[a].key} \subseteq AdminKeys'
  PROVE  AdminBesides'
<1> SUFFICES ASSUME ~lockout'
             PROVE  /\ AdminKeys' # {}
                    /\ \A b \in KeyActors : Guarded(b)' => AdminKeys' \ {job'[b].key} # {}
  BY DEF AdminBesides
<1>1. ~lockout /\ ~CrossedGuard(a)
  OBVIOUS
<1>2. AdminKeys \ {job[a].key} # {}
  BY <1>1 DEF AdminBesides
<1>3. \A b \in KeyActors : ~Guarded(b)'
  BY <1>1 DEF CrossedGuard, Guarded, Doing
<1> QED BY <1>2, <1>3

LEMMA RemoveKeeps ==
  ASSUME KeysInv, NEW a \in KeyActors, RemoveKey(a)
  PROVE  KeysInv'
<1>1. PICK k \in GatewayKeyIds : k = job[a].key
  BY JobFields DEF KeysInv
<1>2. /\ KeyTypes /\ job[a].step = "remove" /\ JobShape(a)
      /\ registered' = registered \ {k}
      /\ lockout' = (lockout \/ CrossedGuard(a))
      /\ Do(a, "del", k, NoKey)
      /\ UNCHANGED <<info, keyHash, removed, skewed, excused, keyRestarts>>
  BY <1>1 DEF KeysInv, RemoveKey, Doing
<1>3. /\ job' \in [KeyActors -> JobRecord]
      /\ job'[a].step = "del" /\ job'[a].key = k
      /\ \A b \in KeyActors \ {a} : job'[b] = job[b]
  BY <1>2, JobMoves, NoKeyFields
<1>4. KeyTypes'
  <2>1. lockout' \in BOOLEAN
    BY <1>2 DEF CrossedGuard
  <2> QED BY <1>2, <1>3, <2>1 DEF KeyTypes
<1>5. ASSUME NEW x \in GatewayKeyIds PROVE KeyInv(x)'
  <2>1. ~Involved(a, x) /\ ~Involved(a, x)'
    BY <1>2, <1>3 DEF Involved
  <2>2. SameSets(x)
    BY <1>3, <2>1, SetsStay
  <2> QED BY <1>2, <2>2, KeyStays DEF KeysInv
<1>6. ASSUME NEW b \in KeyActors PROVE JobShape(b)'
  <2>1. CASE b = a
    BY <1>1, <1>2, <1>3, <2>1 DEF JobShape, HasDTO
  <2>2. CASE b # a
    BY <1>2, <1>3, <2>2, JobStays DEF KeysInv
  <2> QED BY <2>1, <2>2
<1>7. AdminBesides'
  <2>1. Guarded(a) /\ ~Guarded(a)'
    BY <1>2, <1>3 DEF Guarded, Doing
  <2>2. AdminKeys \ {job[a].key} \subseteq AdminKeys'
    BY <1>1, <1>2 DEF AdminKeys
  <2> QED BY <1>2, <1>3, <2>1, <2>2, UncrossedLeavesAdmin DEF KeysInv
<1> QED BY <1>4, <1>5, <1>6, <1>7 DEF KeysInv

LEMMA DeleteKeeps ==
  ASSUME KeysInv, NEW a \in KeyActors, DeleteGatewayKey(a)
  PROVE  KeysInv'
<1>1. PICK k \in GatewayKeyIds : k = job[a].key
  BY JobFields DEF KeysInv
<1>2. /\ KeyTypes /\ job[a].step = "del" /\ KeyInv(k) /\ k \notin registered
      /\ keyHash' = [keyHash EXCEPT ![k] = NoKey]
      /\ removed' = IF OperatorSave(k) = {} THEN removed \cup {k} ELSE removed
      /\ Ends(a)
      /\ UNCHANGED <<info, registered, skewed, excused, lockout, keyRestarts>>
  BY <1>1 DEF KeysInv, JobShape, DeleteGatewayKey, Doing
<1>3. /\ job' \in [KeyActors -> JobRecord] /\ job'[a].step = "idle"
      /\ \A b \in KeyActors \ {a} : job'[b] = job[b]
  BY <1>2, JobEnds
<1>4. /\ keyHash' \in [GatewayKeyIds -> GatewayKeyInfo] /\ keyHash'[k] = NoKey
      /\ \A x \in GatewayKeyIds \ {k} : keyHash'[x] = keyHash[x]
  BY <1>2, NoKeyFields DEF KeyTypes
<1>5. KeyTypes'
  BY <1>2, <1>3, <1>4 DEF KeyTypes
<1>6. ASSUME NEW x \in GatewayKeyIds PROVE SameSets(x)
  <2>1. ~Involved(a, x) /\ ~Involved(a, x)'
    BY <1>2, <1>3 DEF Involved
  <2> QED BY <1>3, <2>1, SetsStay
<1>7. ASSUME NEW x \in GatewayKeyIds, x # k PROVE KeyInv(x)'
  BY <1>2, <1>4, <1>6, <1>7, KeyStays DEF KeysInv
<1>8. KeyInv(k)'
  <2>1. KeyShape(k)' /\ CountsAgree(k)' /\ FlagsAgree(k)'
    BY <1>2, <1>4, NoKeyFields
    DEF KeyInv, KeyShape, AdminShape, CountsAgree, FlagsAgree, DisabledWhenSpent
  <2>2. RemovedOff(k)'
    BY <1>2, <1>4, <1>6, NoKeyFields DEF KeyInv, RemovedOff, SameSets
  <2>3. RoomLeft(k)'
    BY <1>2, <1>6 DEF KeyInv, RoomLeft, SameSets
  <2> QED BY <2>1, <2>2, <2>3 DEF KeyInv
<1>9. ASSUME NEW b \in KeyActors PROVE JobShape(b)'
  <2>1. CASE b = a
    BY <1>3, <2>1 DEF JobShape, HasDTO
  <2>2. CASE b # a
    BY <1>2, <1>3, <2>2, JobStays DEF KeysInv
  <2> QED BY <2>1, <2>2
<1>10. AdminBesides'
  <2>1. ~Guarded(a)'
    BY <1>3 DEF Guarded, Doing
  <2> QED BY <1>2, <1>3, <2>1, AdminsStay, AdminStays DEF KeysInv
<1> QED BY <1>5, <1>7, <1>8, <1>9, <1>10 DEF KeysInv

(* Update: a key with a quota is excused from then on. *)
LEMMA UpdateKeeps ==
  ASSUME KeysInv, NEW a \in KeyActors, NEW k \in GatewayKeyIds, NEW n \in GatewayKeyInfo,
         ~Involved(a, k), job[a].step \in {"idle", "demote"}, job[a].step # "idle" => job[a].key = k,
         k \in registered,
         n.key = info[k].key, n.quota = info[k].quota,
         n.role = "admin" => info[k].role = "admin", AdminShape(n),
         ApplyUpdate(a, k, n), lockout' \in BOOLEAN
  PROVE  /\ KeyTypes' /\ \A x \in GatewayKeyIds : KeyInv(x)'
         /\ \A b \in KeyActors : JobShape(b)'
<1>1. /\ KeyTypes /\ KeyInv(k) /\ info[k].key /\ info[k].quota \in Nat
      /\ info' = [info EXCEPT ![k] = n]
      /\ excused' = excused \cup ({k} \cap WithQuota)
      /\ Do(a, "save", k, n)
      /\ removed' = removed \ {k}
      /\ UNCHANGED <<registered, keyHash, skewed, keyRestarts>>
  BY InfoFields DEF KeysInv, KeyTypes, KeyInv, KeyShape, ApplyUpdate
<1>2. /\ info' \in [GatewayKeyIds -> GatewayKeyInfo] /\ info'[k] = n
      /\ \A x \in GatewayKeyIds \ {k} : info'[x] = info[x]
  BY <1>1 DEF KeyTypes
<1>3. /\ job' \in [KeyActors -> JobRecord]
      /\ job'[a].step = "save" /\ job'[a].key = k /\ job'[a].dto = n
      /\ \A b \in KeyActors \ {a} : job'[b] = job[b]
  BY <1>1, JobMoves
<1>4. /\ excused' \in SUBSET GatewayKeyIds /\ excused \subseteq excused'
      /\ info[k].quota > 0 => k \in excused'
  BY <1>1 DEF KeyTypes, WithQuota
<1>5. KeyTypes'
  BY <1>1, <1>2, <1>3, <1>4 DEF KeyTypes
<1>6. ASSUME NEW x \in GatewayKeyIds, x # k PROVE KeyInv(x)'
  <2>1. ~Involved(a, x) /\ ~Involved(a, x)'
    BY <1>3, <1>6 DEF Involved
  <2>2. SameSets(x)
    BY <1>3, <2>1, SetsStay
  <2> QED BY <1>1, <1>2, <1>4, <1>6, <2>2, KeyStays DEF KeysInv
<1>7. KeyInv(k)'
  <2>1. PendingSave(k)' # {}
    <3>1. a \in PendingSave(k)'
      BY <1>3 DEF PendingSave
    <3> QED BY <3>1
  <2>2. KeyShape(k)'
    BY <1>1, <1>2, <2>1 DEF KeyInv, KeyShape, AdminShape, CopyOf
  <2>3. RemovedOff(k)' /\ CountsAgree(k)'
    BY <1>1, <2>1 DEF RemovedOff, CountsAgree
  <2>4. FlagsAgree(k)' /\ RoomLeft(k)'
    BY <1>1, <1>2, <1>4, <2>1 DEF FlagsAgree, DisabledWhenSpent, RoomLeft
  <2> QED BY <2>2, <2>3, <2>4 DEF KeyInv
<1>8. ASSUME NEW b \in KeyActors PROVE JobShape(b)'
  <2>1. CASE b = a
    <3>1. CopyOf(n, k)'
      BY <1>2 DEF CopyOf
    <3>2. k \notin excused' => DisabledWhenSpent(n)
      BY <1>1, <1>4 DEF DisabledWhenSpent
    <3> QED BY <1>1, <1>2, <1>3, <2>1, <3>1, <3>2 DEF JobShape, HasDTO, CopyOf
  <2>2. CASE b # a
    <3>1. /\ info'[job[b].key].key = info[job[b].key].key
          /\ info'[job[b].key].quota = info[job[b].key].quota
          /\ info'[job[b].key].role = "admin" => info[job[b].key].role = "admin"
      BY <1>1, <1>2, JobFields
    <3> QED BY <1>1, <1>3, <1>4, <2>2, <3>1, JobStays DEF KeysInv
  <2> QED BY <2>1, <2>2
<1> QED BY <1>5, <1>6, <1>7, <1>8

LEMMA UpdateRoleKeeps ==
  ASSUME KeysInv, NEW a \in KeyActors, UpdateRole(a), job[a].key \in registered
  PROVE  KeysInv'
<1>1. PICK k \in GatewayKeyIds : k = job[a].key
  BY JobFields DEF KeysInv
<1>2. /\ job[a].step = "demote" /\ k \in registered
      /\ ApplyUpdate(a, k, [info[k] EXCEPT !.role = "inference"])
      /\ lockout' = (lockout \/ CrossedGuard(a))
  BY <1>1 DEF UpdateRole, Doing
<1>3. PICK n \in GatewayKeyInfo :
        /\ n = [info[k] EXCEPT !.role = "inference"]
        /\ n.key = info[k].key /\ n.quota = info[k].quota /\ n.role = "inference"
  <2>1. info[k] \in GatewayKeyInfo
    BY DEF KeysInv, KeyTypes
  <2>2. /\ [info[k] EXCEPT !.role = "inference"] \in GatewayKeyInfo
        /\ [info[k] EXCEPT !.role = "inference"].key = info[k].key
        /\ [info[k] EXCEPT !.role = "inference"].quota = info[k].quota
        /\ [info[k] EXCEPT !.role = "inference"].role = "inference"
    BY <2>1 DEF GatewayKeyInfo
  <2> QED BY <2>2
<1>4. ~Involved(a, k) /\ AdminShape(n) /\ lockout' \in BOOLEAN
  BY <1>2, <1>3 DEF Involved, AdminShape, CrossedGuard
<1>5. ApplyUpdate(a, k, n)
  BY <1>2, <1>3
<1>6. /\ KeyTypes' /\ \A x \in GatewayKeyIds : KeyInv(x)'
      /\ \A b \in KeyActors : JobShape(b)'
  BY <1>1, <1>2, <1>3, <1>4, <1>5, UpdateKeeps
<1>7. AdminBesides'
  <2>1. /\ job'[a].step = "save" /\ \A b \in KeyActors \ {a} : job'[b] = job[b]
    BY <1>5, JobMoves DEF ApplyUpdate, KeysInv
  <2>2. Guarded(a) /\ ~Guarded(a)'
    BY <1>2, <2>1 DEF Guarded, Doing
  <2>3. /\ registered' = registered /\ registered \subseteq GatewayKeyIds
        /\ \A x \in GatewayKeyIds \ {k} : info'[x] = info[x]
    BY <1>5 DEF ApplyUpdate, KeysInv, KeyTypes
  <2>4. AdminKeys \ {job[a].key} \subseteq AdminKeys'
    BY <1>1, <2>3 DEF AdminKeys
  <2> QED BY <1>2, <2>1, <2>2, <2>4, UncrossedLeavesAdmin DEF KeysInv
<1> QED BY <1>6, <1>7 DEF KeysInv

LEMMA UpdateGoneKeeps ==
  ASSUME KeysInv, NEW a \in KeyActors, UpdateRole(a), job[a].key \notin registered
  PROVE  KeysInv'
<1>1. /\ KeyTypes /\ job[a].step = "demote" /\ Ends(a)
      /\ UNCHANGED <<info, registered, keyHash, removed, skewed, excused, lockout, keyRestarts>>
  BY DEF KeysInv, UpdateRole, Doing
<1>2. /\ job' \in [KeyActors -> JobRecord] /\ job'[a].step = "idle"
      /\ \A b \in KeyActors \ {a} : job'[b] = job[b]
  BY <1>1, JobEnds
<1>3. KeyTypes'
  BY <1>1, <1>2 DEF KeyTypes
<1>4. ASSUME NEW x \in GatewayKeyIds PROVE KeyInv(x)'
  <2>1. ~Involved(a, x) /\ ~Involved(a, x)'
    BY <1>1, <1>2 DEF Involved
  <2>2. SameSets(x)
    BY <1>2, <2>1, SetsStay
  <2> QED BY <1>1, <2>2, KeyStays DEF KeysInv
<1>5. ASSUME NEW b \in KeyActors PROVE JobShape(b)'
  <2>1. CASE b = a
    BY <1>2, <2>1 DEF JobShape, HasDTO
  <2>2. CASE b # a
    BY <1>1, <1>2, <2>2, JobStays DEF KeysInv
  <2> QED BY <2>1, <2>2
<1>6. AdminBesides'
  <2>1. ~Guarded(a)'
    BY <1>2 DEF Guarded, Doing
  <2> QED BY <1>1, <1>2, <2>1, AdminsStay, AdminStays DEF KeysInv
<1> QED BY <1>3, <1>4, <1>5, <1>6 DEF KeysInv

LEMMA UpdateDisabledKeeps ==
  ASSUME KeysInv, NEW a \in KeyActors, NEW k \in GatewayKeyIds, NEW off \in BOOLEAN,
         k \in WithQuota, UpdateDisabled(a, k, off)
  PROVE  KeysInv'
<1>1. /\ job[a].step = "idle" /\ k \in registered /\ lockout' = lockout
      /\ ApplyUpdate(a, k, [info[k] EXCEPT !.disabled = off])
  BY DEF UpdateDisabled, Doing
<1>2. info[k] \in GatewayKeyInfo /\ info[k].quota > 0 /\ info[k].role # "admin"
  <2>1. info[k] \in GatewayKeyInfo /\ info[k].quota > 0
    BY DEF WithQuota, KeysInv, KeyTypes
  <2> QED BY <2>1 DEF KeysInv, KeyInv, KeyShape, AdminShape
<1>3. PICK n \in GatewayKeyInfo :
        /\ n = [info[k] EXCEPT !.disabled = off]
        /\ n.key = info[k].key /\ n.quota = info[k].quota /\ n.role = info[k].role
  <2>1. /\ [info[k] EXCEPT !.disabled = off] \in GatewayKeyInfo
        /\ [info[k] EXCEPT !.disabled = off].key = info[k].key
        /\ [info[k] EXCEPT !.disabled = off].quota = info[k].quota
        /\ [info[k] EXCEPT !.disabled = off].role = info[k].role
    BY <1>2 DEF GatewayKeyInfo
  <2> QED BY <2>1
<1>4. ~Involved(a, k) /\ AdminShape(n) /\ lockout' \in BOOLEAN
  BY <1>1, <1>2, <1>3 DEF Involved, AdminShape, KeysInv, KeyTypes
<1>5. ApplyUpdate(a, k, n)
  BY <1>1, <1>3
<1>6. /\ KeyTypes' /\ \A x \in GatewayKeyIds : KeyInv(x)'
      /\ \A b \in KeyActors : JobShape(b)'
  BY <1>1, <1>3, <1>4, <1>5, UpdateKeeps
<1>7. AdminBesides'
  <2>1. /\ job'[a].step = "save" /\ \A b \in KeyActors \ {a} : job'[b] = job[b]
    BY <1>5, JobMoves DEF ApplyUpdate, KeysInv
  <2>2. ~Guarded(a)'
    BY <2>1 DEF Guarded, Doing
  <2>3. /\ registered' = registered /\ registered \subseteq GatewayKeyIds
        /\ \A x \in GatewayKeyIds \ {k} : info'[x] = info[x]
    BY <1>5 DEF ApplyUpdate, KeysInv, KeyTypes
  <2>4. AdminKeys \subseteq AdminKeys'
    BY <1>2, <2>3 DEF AdminKeys
  <2> QED BY <1>1, <2>1, <2>2, <2>4, AdminStays DEF KeysInv
<1> QED BY <1>6, <1>7 DEF KeysInv

-----------------------------------------------------------------------------
(* A restart: what is in memory is what Redis has and answers.             *)

LEMMA BootstrappedFields ==
  /\ Bootstrapped \in GatewayKeyInfo
  /\ Bootstrapped.key /\ Bootstrapped.role = "admin" /\ Bootstrapped.quota = 0
  /\ Bootstrapped.used = 0 /\ ~Bootstrapped.disabled
<1>1. PICK h \in GatewayKeyInfo :
        /\ h = NoKey
        /\ h.key = FALSE /\ h.role = "inference" /\ h.quota = 0 /\ h.used = 0
        /\ h.disabled = FALSE
  BY NoKeyFields
<1>2. Bootstrapped = [h EXCEPT !.key = TRUE, !.role = "admin"]
  BY <1>1 DEF Bootstrapped
<1>3. /\ [h EXCEPT !.key = TRUE, !.role = "admin"] \in GatewayKeyInfo
      /\ [h EXCEPT !.key = TRUE, !.role = "admin"].key = TRUE
      /\ [h EXCEPT !.key = TRUE, !.role = "admin"].role = "admin"
      /\ [h EXCEPT !.key = TRUE, !.role = "admin"].quota = h.quota
      /\ [h EXCEPT !.key = TRUE, !.role = "admin"].used = h.used
      /\ [h EXCEPT !.key = TRUE, !.role = "admin"].disabled = h.disabled
  BY DEF GatewayKeyInfo
<1> QED BY <1>1, <1>2, <1>3

LEMMA IdleSets ==
  ASSUME NEW k \in GatewayKeyIds, \A a \in KeyActors : job'[a].step = "idle"
  PROVE  /\ PendingSave(k)' = {} /\ OperatorSave(k)' = {} /\ PendingCount(k)' = {}
         /\ Disabling(k)' = {} /\ Admitted(k)' = {}
         /\ Cardinality(PendingCount(k)') = 0 /\ Cardinality(Admitted(k)') = 0
<1>1. PendingSave(k)' = {} /\ PendingCount(k)' = {} /\ Disabling(k)' = {} /\ Admitted(k)' = {}
  BY DEF PendingSave, PendingCount, Disabling, Admitted
<1>2. OperatorSave(k)' = {}
  BY <1>1 DEF OperatorSave
<1> QED BY <1>1, <1>2, FS_EmptySet

(* A key after a restart: loaded from its hash, or the bootstrap key. *)
Loaded(k) ==
  /\ keyHash'[k] = keyHash[k]
  /\ keyHash[k].key => info'[k] = keyHash[k]
  /\ ~keyHash[k].key => info'[k] = NoKey /\ k \notin registered'
  /\ k \in removed' => k \in removed

Booted(k) ==
  /\ k = BootKey /\ info'[k] = Bootstrapped /\ k \notin removed'
  /\ \/ keyHash'[k] = Bootstrapped
     \/ keyHash'[k] = keyHash[k] /\ k \in skewed'

LEMMA RestartCopies ==
  ASSUME KeysInv, NewManager
  PROVE  /\ KeyTypes'
         /\ \A k \in GatewayKeyIds : Loaded(k) \/ Booted(k)
<1>1. KeyTypes
  BY DEF KeysInv
<1>2. job' \in [KeyActors -> JobRecord]
  <2>1. NoJob \in JobRecord
    BY NoKeyFields, KeysAssumption DEF NoJob, JobRecord
  <2> QED BY <2>1 DEF NewManager
<1>3. /\ keyRestarts' \in Nat /\ excused' \in SUBSET GatewayKeyIds /\ lockout' \in BOOLEAN
  BY <1>1 DEF NewManager, KeyTypes, WithQuota
<1>4. /\ loadGatewayKeys \in [GatewayKeyIds -> GatewayKeyInfo]
      /\ \A k \in GatewayKeyIds : /\ keyHash[k].key => loadGatewayKeys[k] = keyHash[k]
                                  /\ ~keyHash[k].key => loadGatewayKeys[k] = NoKey
  BY <1>1, NoKeyFields DEF loadGatewayKeys, parseGatewayKeyFromRedis, KeyTypes
<1>5. PICK answered \in SUBSET GatewayKeyIds :
        \/ /\ registered' = LoadGatewayKeys(answered)
           /\ info' = loadGatewayKeys
           /\ skewed' = {}
           /\ UNCHANGED <<keyHash, removed>>
        \/ /\ registered' = {BootKey}
           /\ info' = [loadGatewayKeys EXCEPT ![BootKey] = Bootstrapped]
           /\ \/ keyHash' = [keyHash EXCEPT ![BootKey] = Bootstrapped] /\ skewed' = {}
              \/ skewed' = {BootKey} /\ UNCHANGED keyHash
           /\ removed' = removed \ {BootKey}
  BY DEF NewManager
<1>6. CASE /\ registered' = LoadGatewayKeys(answered)
           /\ info' = loadGatewayKeys
           /\ skewed' = {}
           /\ UNCHANGED <<keyHash, removed>>
  <2>1. registered' \in SUBSET GatewayKeyIds /\ \A k \in registered' : keyHash[k].key
    BY <1>6 DEF LoadGatewayKeys, parseGatewayKeyFromRedis
  <2>2. KeyTypes'
    BY <1>1, <1>2, <1>3, <1>4, <1>6, <2>1 DEF KeyTypes
  <2>3. \A k \in GatewayKeyIds : Loaded(k)
    BY <1>4, <1>6, <2>1 DEF Loaded
  <2> QED BY <2>2, <2>3
<1>7. CASE /\ registered' = {BootKey}
           /\ info' = [loadGatewayKeys EXCEPT ![BootKey] = Bootstrapped]
           /\ \/ keyHash' = [keyHash EXCEPT ![BootKey] = Bootstrapped] /\ skewed' = {}
              \/ skewed' = {BootKey} /\ UNCHANGED keyHash
           /\ removed' = removed \ {BootKey}
  <2>1. /\ info' \in [GatewayKeyIds -> GatewayKeyInfo] /\ info'[BootKey] = Bootstrapped
        /\ \A k \in GatewayKeyIds \ {BootKey} : info'[k] = loadGatewayKeys[k]
    BY <1>4, <1>7, BootstrappedFields, KeysAssumption
  <2>2. /\ keyHash' \in [GatewayKeyIds -> GatewayKeyInfo]
        /\ \A k \in GatewayKeyIds \ {BootKey} : keyHash'[k] = keyHash[k]
        /\ \/ keyHash'[BootKey] = Bootstrapped
           \/ keyHash'[BootKey] = keyHash[BootKey] /\ BootKey \in skewed'
    BY <1>1, <1>7, BootstrappedFields, KeysAssumption DEF KeyTypes
  <2>3. /\ registered' = {BootKey} /\ removed' = removed \ {BootKey}
        /\ skewed' \in SUBSET GatewayKeyIds
    BY <1>7, KeysAssumption
  <2>4. KeyTypes'
    BY <1>1, <1>2, <1>3, <2>1, <2>2, <2>3, KeysAssumption DEF KeyTypes
  <2>5. \A k \in GatewayKeyIds \ {BootKey} : Loaded(k)
    BY <1>4, <2>1, <2>2, <2>3 DEF Loaded
  <2>6. Booted(BootKey)
    BY <2>1, <2>2, <2>3 DEF Booted
  <2> QED BY <2>4, <2>5, <2>6
<1> QED BY <1>5, <1>6, <1>7

LEMMA LoadedKeeps ==
  ASSUME KeysInv, NewManager, NEW k \in GatewayKeyIds, Loaded(k),
         \A a \in KeyActors : job'[a].step = "idle"
  PROVE  KeyInv(k)'
<1>1. /\ KeyInv(k) /\ keyHash[k] \in GatewayKeyInfo /\ info[k] \in GatewayKeyInfo
  BY DEF KeysInv, KeyTypes
<1>2. /\ PendingSave(k)' = {} /\ OperatorSave(k)' = {} /\ PendingCount(k)' = {}
      /\ Disabling(k)' = {} /\ Admitted(k)' = {}
      /\ Cardinality(PendingCount(k)') = 0 /\ Cardinality(Admitted(k)') = 0
  BY IdleSets
<1>3. KeyShape(k)'
  <2>1. AdminShape(info'[k]) /\ AdminShape(keyHash'[k])
    BY <1>1, NoKeyFields DEF Loaded, KeyInv, KeyShape, AdminShape
  <2>2. k = BootKey => info'[k].quota = 0
    BY <1>1, NoKeyFields DEF Loaded, KeyInv, KeyShape
  <2> QED BY <2>1, <2>2 DEF Loaded, KeyShape
<1>4. RemovedOff(k)'
  BY <1>1, <1>2 DEF Loaded, KeyInv, RemovedOff
<1>5. CountsAgree(k)'
  <2>1. keyHash[k].used \in Nat
    BY <1>1, InfoFields
  <2> QED BY <1>2, <2>1 DEF Loaded, CountsAgree
<1>6. ASSUME k \notin excused', info'[k].quota > 0
      PROVE  /\ info'[k] = keyHash[k] /\ keyHash[k].key /\ keyHash[k].quota = info[k].quota
             /\ k \notin excused /\ k \notin skewed
             /\ PendingSave(k) = {} /\ PendingCount(k) = {}
  <2>1. info'[k] = keyHash[k] /\ keyHash[k].key
    BY <1>6, NoKeyFields DEF Loaded
  <2>2. keyHash[k].quota = info[k].quota
    BY <1>1, <2>1 DEF KeyInv, KeyShape
  <2>3. k \in WithQuota
    BY <1>6, <2>1, <2>2 DEF WithQuota
  <2> QED BY <1>6, <2>1, <2>2, <2>3 DEF NewManager
<1>7. ASSUME k \notin excused', info'[k].quota > 0
      PROVE  info'[k].used = info[k].used /\ (info'[k].disabled <=> info[k].disabled)
  <2>1. Cardinality(PendingCount(k)) = 0
    BY <1>6, <1>7, SetSizes
  <2>2. keyHash[k].used \in Nat
    BY <1>1, InfoFields
  <2>3. keyHash[k].used = info[k].used
    BY <1>1, <1>6, <1>7, <2>1, <2>2 DEF KeyInv, CountsAgree
  <2>4. Disabling(k) = {}
    BY <1>6, <1>7 DEF Disabling, PendingCount
  <2>5. keyHash[k].disabled <=> info[k].disabled
    BY <1>1, <1>6, <1>7, <2>4 DEF KeyInv, FlagsAgree
  <2> QED BY <1>6, <1>7, <2>3, <2>5
<1>8. FlagsAgree(k)'
  <2>1. k \notin excused' => DisabledWhenSpent(info'[k])
    BY <1>1, <1>6, <1>7 DEF KeyInv, FlagsAgree, DisabledWhenSpent
  <2>2. keyHash'[k].key => (keyHash'[k].disabled <=> info'[k].disabled)
    BY DEF Loaded
  <2> QED BY <2>1, <2>2 DEF FlagsAgree
<1>9. RoomLeft(k)'
  <2>1. /\ Cardinality(Admitted(k)) \in Nat /\ Cardinality(KeyActors) \in Nat
        /\ info[k].used \in Nat /\ info[k].quota \in Nat
    BY <1>1, SetSizes, InfoFields
  <2> QED BY <1>1, <1>2, <1>6, <1>7, <2>1 DEF KeyInv, RoomLeft
<1> QED BY <1>3, <1>4, <1>5, <1>8, <1>9 DEF KeyInv

(* The bootstrap key has no quota, and is saved or skewed. *)
LEMMA BootedKeeps ==
  ASSUME KeysInv, NEW k \in GatewayKeyIds, Booted(k),
         \A a \in KeyActors : job'[a].step = "idle"
  PROVE  KeyInv(k)'
<1>1. PICK h \in GatewayKeyInfo : /\ h = Bootstrapped /\ info'[k] = h
                                /\ h.key /\ h.role = "admin" /\ h.quota = 0
                                /\ h.used = 0 /\ ~h.disabled
  BY BootstrappedFields DEF Booted
<1>2. KeyShape(k)
  BY DEF KeysInv, KeyInv
<1>3. keyHash'[k] = h \/ (keyHash'[k] = keyHash[k] /\ k \in skewed')
  BY <1>1 DEF Booted
<1>4. KeyShape(k)'
  <2>1. CASE keyHash'[k] = h
    BY <1>1, <2>1 DEF KeyShape, AdminShape
  <2>2. CASE keyHash'[k] = keyHash[k] /\ k \in skewed'
    BY <1>1, <1>2, <2>2 DEF KeyShape, AdminShape, Booted
  <2> QED BY <1>3, <2>1, <2>2
<1>5. RemovedOff(k)'
  BY DEF Booted, RemovedOff
<1>6. CountsAgree(k)'
  <2>1. Cardinality(PendingCount(k)') = 0
    BY IdleSets
  <2> QED BY <1>1, <1>3, <2>1 DEF CountsAgree
<1>7. FlagsAgree(k)' /\ RoomLeft(k)'
  BY <1>1 DEF FlagsAgree, RoomLeft, DisabledWhenSpent
<1> QED BY <1>4, <1>5, <1>6, <1>7 DEF KeyInv

LEMMA RestartKeeps ==
  ASSUME KeysInv, NewManager
  PROVE  KeysInv'
<1>1. KeyTypes /\ job' = [a \in KeyActors |-> NoJob]
  BY DEF KeysInv, NewManager
<1>2. \A a \in KeyActors : job'[a].step = "idle"
  BY <1>1 DEF NoJob
<1>3. \A a \in KeyActors : JobShape(a)'
  BY <1>2 DEF JobShape, HasDTO
<1>4. \A k \in GatewayKeyIds : KeyInv(k)'
  BY <1>2, RestartCopies, LoadedKeeps, BootedKeeps
<1>5. AdminBesides'
  <2> SUFFICES ASSUME ~lockout' PROVE AdminKeys' # {}
    BY <1>2 DEF AdminBesides, Guarded, Doing
  <2>1. PICK answered \in SUBSET GatewayKeyIds :
          /\ ~lockout /\ AdminKeys \subseteq answered \ skewed
          /\ \A k \in GatewayKeyIds : PendingSave(k) = {}
          /\ LoadGatewayKeys(answered) # {} =>
               /\ registered' = LoadGatewayKeys(answered)
               /\ info' = loadGatewayKeys
    BY DEF NewManager
  <2>2. PICK k \in AdminKeys : TRUE
    BY <2>1 DEF KeysInv, AdminBesides
  <2>3. /\ k \in GatewayKeyIds /\ k \in registered /\ info[k].role = "admin"
        /\ k \in answered /\ k \notin skewed /\ PendingSave(k) = {}
    BY <1>1, <2>1, <2>2 DEF AdminKeys, KeyTypes
  <2>4. keyHash[k].key /\ keyHash[k].role = "admin" /\ ~keyHash[k].disabled
    BY <2>3 DEF KeysInv, KeyInv, KeyShape, AdminShape
  <2>5. k \in LoadGatewayKeys(answered)
    BY <2>3, <2>4 DEF LoadGatewayKeys, parseGatewayKeyFromRedis
  <2>6. k \in registered' /\ info'[k] = keyHash[k]
    BY <2>1, <2>3, <2>4, <2>5 DEF loadGatewayKeys, parseGatewayKeyFromRedis
  <2>7. k \in AdminKeys'
    BY <2>4, <2>6 DEF AdminKeys
  <2> QED BY <2>7
<1> QED BY <1>3, <1>4, <1>5, RestartCopies DEF KeysInv

-----------------------------------------------------------------------------
LEMMA KeysStart == KeysInit => KeysInv
<1> SUFFICES ASSUME KeysInit PROVE KeysInv
  OBVIOUS
<1>1. /\ info = [k \in GatewayKeyIds |-> IF k = BootKey THEN Bootstrapped ELSE NoKey]
      /\ registered = {BootKey} /\ keyHash = info /\ job = [a \in KeyActors |-> NoJob]
      /\ keyRestarts = 0 /\ removed = {} /\ skewed = {} /\ excused = {} /\ lockout = FALSE
  BY DEF KeysInit
<1>2. job \in [KeyActors -> JobRecord] /\ \A a \in KeyActors : job[a].step = "idle"
  <2>1. NoJob \in JobRecord /\ NoJob.step = "idle"
    BY NoKeyFields, KeysAssumption DEF NoJob, JobRecord
  <2> QED BY <1>1, <2>1
<1>3. KeyTypes
  BY <1>1, <1>2, NoKeyFields, BootstrappedFields, KeysAssumption DEF KeyTypes
<1>4. \A a \in KeyActors : JobShape(a)
  BY <1>2 DEF JobShape, HasDTO
<1>5. ASSUME NEW k \in GatewayKeyIds PROVE KeyInv(k)
  <2>1. /\ info[k] = IF k = BootKey THEN Bootstrapped ELSE NoKey
        /\ keyHash[k] = info[k]
    BY <1>1
  <2>2. info[k].quota = 0 /\ info[k].used = 0 /\ AdminShape(info[k]) /\ (k = BootKey => info[k].key)
    BY <2>1, NoKeyFields, BootstrappedFields DEF AdminShape
  <2>3. PendingCount(k) = {} /\ Cardinality(PendingCount(k)) = 0
    <3>1. PendingCount(k) = {}
      BY <1>2 DEF PendingCount
    <3> QED BY <3>1, FS_EmptySet
  <2>4. KeyShape(k)
    BY <1>1, <2>1, <2>2 DEF KeyShape, CopyOf
  <2>5. RemovedOff(k) /\ CountsAgree(k)
    BY <1>1, <2>1, <2>2, <2>3 DEF RemovedOff, CountsAgree
  <2>6. FlagsAgree(k) /\ RoomLeft(k)
    BY <2>1, <2>2 DEF FlagsAgree, DisabledWhenSpent, RoomLeft
  <2> QED BY <2>4, <2>5, <2>6 DEF KeyInv
<1>6. AdminBesides
  <2>1. info[BootKey] = Bootstrapped
    BY <1>1, KeysAssumption
  <2>2. BootKey \in AdminKeys
    BY <1>1, <2>1, BootstrappedFields DEF AdminKeys
  <2> QED BY <1>2, <2>2 DEF AdminBesides, Guarded, Doing
<1> QED BY <1>3, <1>4, <1>5, <1>6 DEF KeysInv

(* KeysInv is inductive. *)
LEMMA KeysStep == KeysInv /\ [KeysNext]_keyVars => KeysInv'
<1> SUFFICES ASSUME KeysInv, [KeysNext]_keyVars PROVE KeysInv'
  OBVIOUS
<1>1. CASE UNCHANGED keyVars
  <2>1. /\ UNCHANGED <<info, registered, keyHash, job, keyRestarts, removed, skewed, excused,
                       lockout>>
    BY <1>1 DEF keyVars
  <2>2. KeyTypes'
    BY <2>1 DEF KeysInv, KeyTypes
  <2>3. ASSUME NEW k \in GatewayKeyIds PROVE KeyInv(k)'
    <3>1. SameSets(k)
      BY <2>1 DEF SameSets, PendingSave, OperatorSave, PendingCount, Disabling, Admitted, Doing
    <3> QED BY <2>1, <3>1, KeyStays DEF KeysInv
  <2>4. ASSUME NEW a \in KeyActors PROVE JobShape(a)'
    BY <2>1, JobStays DEF KeysInv
  <2>5. AdminBesides'
    BY <2>1, AdminsStay DEF KeysInv, AdminBesides, Guarded, Doing
  <2> QED BY <2>2, <2>3, <2>4, <2>5 DEF KeysInv
<1>2. ASSUME NEW a \in KeyActors, KeyStep(a) PROVE KeysInv'
  BY <1>2, CountKeeps, UncountedKeeps, HincrbyKeeps, HincrbyFailsKeeps, SaveKeeps, SnapshotKeeps, RemoveKeeps,
     DeleteKeeps, FailsKeeps, UpdateRoleKeeps, UpdateGoneKeeps DEF KeyStep
<1>3. ASSUME NEW a \in KeyActors, NEW k \in GatewayKeyIds,
             \/ k \in WithQuota /\ AuthMiddleware(a, k)
             \/ HandleDeleteKey(a, k) \/ HandleUpdateKey(a, k)
             \/ HandleCreateKey(a, k, "admin", 0)
             \/ HandleCreateKey(a, k, "inference", Quota)
             \/ k \in WithQuota /\ \E disabled \in BOOLEAN : UpdateDisabled(a, k, disabled)
      PROVE  KeysInv'
  <2>1. CASE AuthMiddleware(a, k)
    BY <2>1, AuthKeeps
  <2>2. CASE HandleDeleteKey(a, k) \/ HandleUpdateKey(a, k)
    BY <2>2, GuardKeeps
  <2>3. CASE HandleCreateKey(a, k, "admin", 0)
    BY <2>3, CreateKeeps
  <2>4. CASE HandleCreateKey(a, k, "inference", Quota)
    BY <2>4, CreateKeeps
  <2>5. CASE k \in WithQuota /\ \E disabled \in BOOLEAN : UpdateDisabled(a, k, disabled)
    BY <2>5, UpdateDisabledKeeps
  <2> QED BY <1>3, <2>1, <2>2, <2>3, <2>4, <2>5
<1> QED BY <1>1, <1>2, <1>3, RestartKeeps DEF KeysNext

LEMMA KeysInvariant == KeysSpec => []KeysInv
  BY KeysStart, KeysStep, PTL DEF KeysSpec

-----------------------------------------------------------------------------
(* A key that was removed, from Redis too, admits no request again, before *)
(* and after any restart, whatever is written late and whichever writes    *)
(* and reads fail (auth.go, Remove; db.go, LoadGatewayKeys).               *)
THEOREM RemovedStaysInvalidHolds == KeysSpec => []RemovedStaysInvalid
<1>1. KeysInv => RemovedStaysInvalid
  BY DEF KeysInv, KeyTypes, KeyInv, RemovedOff, RemovedStaysInvalid, Valid
<1> QED BY <1>1, KeysInvariant, PTL

(* Redis has the tokens of a key once every write is done, unless a save   *)
(* crossed an increment, or a write failed and no save repaired it         *)
(* (auth.go, IncrementTokens; db.go, HINCRBY).                             *)
THEOREM TokensPersistedHolds == KeysSpec => []TokensPersisted
<1>1. KeysInv => TokensPersisted
  <2> SUFFICES ASSUME KeysInv, NEW k \in registered \ skewed,
                      PendingCount(k) = {}, PendingSave(k) = {}
               PROVE  keyHash[k].used = info[k].used
    BY DEF TokensPersisted
  <2>1. k \in GatewayKeyIds /\ keyHash[k] \in GatewayKeyInfo
    BY DEF KeysInv, KeyTypes
  <2>2. keyHash[k].used \in Nat /\ Cardinality(PendingCount(k)) = 0
    BY <2>1, InfoFields, SetSizes
  <2>3. keyHash[k].key
    BY <2>1 DEF KeysInv, KeyInv, KeyShape
  <2>4. keyHash[k].used + Cardinality(PendingCount(k)) = info[k].used
    BY <2>1, <2>3 DEF KeysInv, KeyInv, CountsAgree
  <2> QED BY <2>2, <2>4
<1> QED BY <1>1, KeysInvariant, PTL

(* A quota is overrun by fewer tokens than there may be requests under     *)
(* way, also across restarts that load a count no failed, cut off or       *)
(* crossed write left behind (auth.go, IncrementTokens and the check of    *)
(* Valid before it).                                                       *)
THEOREM OverrunBoundedHolds == KeysSpec => []OverrunBounded
<1>1. KeysInv => OverrunBounded
  <2> SUFFICES ASSUME KeysInv, NEW k \in registered \ excused, info[k].quota > 0
               PROVE  info[k].used < info[k].quota + Cardinality(KeyActors) * Amount
    BY DEF OverrunBounded
  <2>1. k \in GatewayKeyIds /\ info[k] \in GatewayKeyInfo
    BY DEF KeysInv, KeyTypes
  <2>2. /\ info[k].used \in Nat /\ info[k].quota \in Nat
        /\ Cardinality(Admitted(k)) \in Nat /\ Cardinality(KeyActors) \in Nat
    BY <2>1, InfoFields, SetSizes
  <2>3. info[k].used + Cardinality(Admitted(k)) < info[k].quota + Cardinality(KeyActors)
    BY <2>1 DEF KeysInv, KeyInv, RoomLeft
  <2>4. Cardinality(KeyActors) * Amount = Cardinality(KeyActors)
    BY <2>2 DEF Amount
  <2> QED BY <2>2, <2>3, <2>4
<1> QED BY <1>1, KeysInvariant, PTL

(* The guards keep an admin key that works, also across restarts, unless   *)
(* two guarded calls cross, or a restart cuts off a write, does not load   *)
(* an admin key, or follows a failed save of one (handlers.go,             *)
(* HandleDeleteKey and HandleUpdateKey; auth.go, NewManager).              *)
THEOREM AdminRemainsHolds == KeysSpec => []AdminRemains
<1>1. KeysInv => AdminRemains
  BY DEF KeysInv, AdminBesides, AdminRemains
<1> QED BY <1>1, KeysInvariant, PTL
=============================================================================
