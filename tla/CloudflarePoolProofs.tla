------------------------ MODULE CloudflarePoolProofs ------------------------
(***************************************************************************)
(* Proof that the count of a Cloudflare account runs over its limit by     *)
(* less than the number of handlers (QuotaOverrun), for every pool, every  *)
(* set of handlers, every limit and every number of days and restarts.     *)
(*                                                                         *)
(* The invariant counts a handler that holds an account as a use still to  *)
(* come.  Next gives out an account that has quota left, so the sum stays  *)
(* below limit + handlers when it adds a holder; recordUsage turns a       *)
(* holder into a use and leaves the sum; every other step only lets go of  *)
(* accounts and lowers counts, or loads what was within the bound when it  *)
(* was written.                                                            *)
(*                                                                         *)
(* And that an account is charged today for no more than today's uses      *)
(* (ChargedForTodayOnly): a second invariant, ChargeInv, says the same of  *)
(* every copy of an account, in memory, in Redis and in the snapshots      *)
(* under way, and that none is of a day to come.                           *)
(***************************************************************************)
EXTENDS CloudflarePool, FiniteSetTheorems, TLAPS

(* What Become does to the goroutines. *)
LEMMA BecomeFacts ==
  ASSUME NEW p \in Procs, NEW r \in Goroutine,
         g \in [Procs -> Goroutine], Become(p, r)
  PROVE  /\ g' \in [Procs -> Goroutine]
         /\ g'[p] = r
         /\ \A q \in Procs : q # p => g'[q] = g[q]
  BY DEF Become

(* The number of handlers is a number, and bounds the holders. *)
LEMMA HandlersFinite ==
  /\ IsFiniteSet(Handlers)
  /\ Cardinality(Handlers) \in Nat
  BY PoolAssumption, FS_CardinalityType

LEMMA HoldersFinite ==
  ASSUME NEW S, S \subseteq Handlers
  PROVE  /\ IsFiniteSet(S)
         /\ Cardinality(S) \in Nat
         /\ Cardinality(S) <= Cardinality(Handlers)
  BY HandlersFinite, FS_Subset, FS_CardinalityType

(* The numbers of an account. *)
LEMMA Numbers ==
  ASSUME NEW d \in DTO
  PROVE  d.used \in Nat /\ d.limit \in Nat
  BY DEF DTO

(* No account with a limit is counted higher than before. *)
NotRaised ==
  \A a \in Accounts :
    \/ mem'[a].limit = 0
    \/ mem'[a].limit = mem[a].limit /\ mem'[a].used <= mem[a].used

(* A step that adds no holder and raises no count keeps the sum below the  *)
(* bound.                                                                  *)
LEMMA SumNotRaised ==
  ASSUME TypeOK, UsesInFlight, mem' \in [Accounts -> DTO], NotRaised,
         \A a \in Accounts : Holders(a)' \subseteq Holders(a)
  PROVE  UsesInFlight'
<1> SUFFICES ASSUME NEW a \in Accounts, mem'[a].limit > 0
             PROVE  mem'[a].used + Cardinality(Holders(a)')
                      < mem'[a].limit + Cardinality(Handlers)
  BY DEF UsesInFlight, Within
<1>1. Holders(a) \subseteq Handlers
  BY DEF Holders
<1>2. /\ Cardinality(Holders(a)) \in Nat
      /\ Cardinality(Holders(a)') \in Nat
      /\ Cardinality(Holders(a)') <= Cardinality(Holders(a))
      /\ Cardinality(Handlers) \in Nat
  BY <1>1, HandlersFinite, HoldersFinite, FS_Subset
<1>3. mem[a] \in DTO /\ mem'[a] \in DTO
  BY DEF TypeOK
<1>4. /\ mem[a].used \in Nat /\ mem'[a].used \in Nat
      /\ mem[a].limit \in Nat /\ mem'[a].limit \in Nat
  BY <1>3, Numbers
<1>5. mem'[a].limit = mem[a].limit /\ mem'[a].used <= mem[a].used
  BY <1>4 DEF NotRaised
<1>6. mem[a].used + Cardinality(Holders(a))
        < mem[a].limit + Cardinality(Handlers)
  BY <1>5 DEF UsesInFlight, Within
<1> QED
  BY <1>2, <1>4, <1>5, <1>6

(* What is held to come is not negative. *)
LEMMA WithinBound ==
  ASSUME TypeOK, UsesInFlight, NEW a \in Accounts
  PROVE  Within(mem[a], 0)
<1>1. Cardinality(Holders(a)) \in Nat /\ Cardinality(Handlers) \in Nat
  BY HandlersFinite, HoldersFinite DEF Holders
<1>2. mem[a] \in DTO
  BY DEF TypeOK
<1>3. mem[a].used \in Nat /\ mem[a].limit \in Nat
  BY <1>2, Numbers
<1> QED
  BY <1>1, <1>3 DEF UsesInFlight, Within

(* A goroutine that goes on as r without holding an account to use, while  *)
(* counts do not rise.                                                     *)
LEMMA LocalStep ==
  ASSUME IInv, mem' \in [Accounts -> DTO], NotRaised,
         NEW p \in Procs, NEW r \in Goroutine, Become(p, r),
         r.pc # "sent",
         r.pc \in {"toDTO", "toDTO2", "save", "delete"} => r.key \in Accounts,
         r.pc \in {"toDTO2", "save"} => Within(r.dto, 0)
  PROVE  UsesInFlight' /\ HeldKeys' /\ SnapshotsWithinBound'
<1>1. /\ g' \in [Procs -> Goroutine]
      /\ g'[p] = r
      /\ \A q \in Procs : q # p => g'[q] = g[q]
  BY BecomeFacts DEF IInv, TypeOK
<1>2. \A a \in Accounts : Holders(a)' \subseteq Holders(a)
  BY <1>1 DEF Holders, Procs
<1>3. UsesInFlight'
  BY <1>2, SumNotRaised DEF IInv
<1>4. HeldKeys'
  BY <1>1 DEF HeldKeys, IInv
<1>5. SnapshotsWithinBound'
  BY <1>1 DEF SnapshotsWithinBound, IInv, Within
<1> QED
  BY <1>3, <1>4, <1>5


(* A step that changes no count raises none. *)
LEMMA SameCounts ==
  ASSUME TypeOK, mem' = mem
  PROVE  mem' \in [Accounts -> DTO] /\ NotRaised
<1>1. mem \in [Accounts -> DTO]
  BY DEF TypeOK
<1>2. ASSUME NEW b \in Accounts
      PROVE  mem'[b].limit = mem[b].limit /\ mem'[b].used <= mem[b].used
  <2>1. mem[b] \in DTO
    BY <1>1
  <2>2. mem[b].used \in Nat
    BY <2>1, Numbers
  <2> QED
    BY <2>2
<1> QED
  BY <1>1, <1>2 DEF NotRaised

(* The same for a step that leaves everything but the goroutine alone. *)
LEMMA QuietStep ==
  ASSUME IInv, UNCHANGED <<rest, keys, next, mem, redis, scan>>,
         NEW p \in Procs, NEW r \in Goroutine, Become(p, r),
         r.pc # "sent",
         r.pc \in {"toDTO", "toDTO2", "save", "delete"} => r.key \in Accounts,
         r.pc \in {"toDTO2", "save"} => Within(r.dto, 0)
  PROVE  IInv'
<1>1. mem' \in [Accounts -> DTO] /\ NotRaised
  BY SameCounts DEF IInv
<1>2. TypeOK'
  BY BecomeFacts DEF IInv, TypeOK, rest
<1>3. RedisWithinBound'
  BY DEF IInv, RedisWithinBound, Within
<1>4. UsesInFlight' /\ HeldKeys' /\ SnapshotsWithinBound'
  BY <1>1, LocalStep
<1> QED
  BY <1>2, <1>3, <1>4 DEF IInv

(* The records goroutines become. *)
LEMMA IdleType ==
  /\ Idle \in Goroutine
  /\ Idle.pc = "idle"
  /\ Fresh \in DTO
  /\ Fresh.limit = 0 /\ Absent.limit = 0
  BY DEF Idle, Goroutine, Fresh, Unused, DTO, Status, Absent

PCs == {"idle", "loop", "sent", "toDTO", "toDTO2", "save", "scan", "saves",
        "delete"}

LEMMA MoveType ==
  ASSUME NEW x \in Goroutine, NEW l \in PCs, NEW a \in Accounts \cup {NoKey}
  PROVE  /\ Move(x, l, a) \in Goroutine
         /\ Move(x, l, a).pc = l
         /\ Move(x, l, a).key = a
  BY DEF Move, Goroutine, PCs

LEMMA AllPCs ==
  /\ "idle" \in PCs /\ "loop" \in PCs /\ "sent" \in PCs
  /\ "toDTO" \in PCs /\ "toDTO2" \in PCs /\ "save" \in PCs
  /\ "scan" \in PCs /\ "saves" \in PCs /\ "delete" \in PCs
  BY DEF PCs

LEMMA SnapType ==
  ASSUME NEW x \in Goroutine, NEW d \in DTO
  PROVE  /\ Snap(x, d) \in Goroutine
         /\ Snap(x, d).pc = x.pc
         /\ Snap(x, d).key = x.key
         /\ Snap(x, d).dto = d
  BY DEF Snap, Goroutine

LEMMA ThenType ==
  ASSUME NEW x \in Goroutine, NEW t \in {"idle", "loop", "saves"}
  PROVE  /\ Then(x, t) \in Goroutine
         /\ Then(x, t).pc = x.pc
         /\ Then(x, t).key = x.key
  BY DEF Then, Goroutine

LEMMA TryType ==
  ASSUME NEW x \in Goroutine, NEW k \in {"chat", "run"},
         NEW n \in Nat, NEW m \in Nat
  PROVE  /\ Try(x, k, n, m) \in Goroutine
         /\ Try(x, k, n, m).pc = x.pc
         /\ Try(x, k, n, m).key = x.key
  BY DEF Try, Goroutine

LEMMA DateField ==
  ASSUME NEW d \in DTO, NEW n \in Nat
  PROVE  /\ [d EXCEPT !.date = n] \in DTO
         /\ [d EXCEPT !.date = n].used = d.used
         /\ [d EXCEPT !.date = n].limit = d.limit
  BY DEF DTO

LEMMA SetStatusType ==
  ASSUME NEW d \in DTO, NEW s \in Status
  PROVE  /\ [d EXCEPT !.status = s] \in DTO
         /\ [d EXCEPT !.status = s].used = d.used
         /\ [d EXCEPT !.status = s].limit = d.limit
  BY DEF DTO

LEMMA NewDayType ==
  ASSUME TypeOK, NEW a \in Accounts
  PROVE  /\ NewDay(a) \in DTO /\ NewDay(a).limit = mem[a].limit
         /\ NewDay(a).used <= mem[a].used
<1>1. mem[a] \in DTO /\ mem[a].used \in Nat /\ mem[a].limit \in Nat
      /\ day \in Nat
  BY PoolAssumption DEF TypeOK, DTO
<1> QED
  BY <1>1 DEF NewDay, DTO, Status

(* An account without a limit is within every bound. *)
LEMMA EmptyWithin == Within(Fresh, 0) /\ Within(Absent, 0)
  BY IdleType DEF Within

-----------------------------------------------------------------------------
(* Where a goroutine of a step can go. *)
LEMMA MoveTo ==
  ASSUME IInv, NEW p \in Procs, NEW l \in PCs, NEW a \in Accounts \cup {NoKey}
  PROVE  /\ Move(g[p], l, a) \in Goroutine
         /\ Move(g[p], l, a).pc = l
         /\ Move(g[p], l, a).key = a
<1>1. g[p] \in Goroutine
  BY DEF IInv, TypeOK
<1> QED
  BY <1>1, MoveType

(* The steps of a save. *)
LEMMA SaverStep ==
  ASSUME IInv, NEW p \in Procs, Saver(p)
  PROVE  IInv'
<1> DEFINE a == g[p].key
<1>a. /\ g[p] \in Goroutine /\ TypeOK /\ HeldKeys
      /\ g[p].dto \in DTO /\ g[p].then \in {"idle", "loop", "saves"}
      /\ "toDTO2" \in PCs /\ "save" \in PCs /\ g[p].then \in PCs
      /\ NoKey \in Accounts \cup {NoKey}
      /\ "idle" \in {"idle", "loop", "saves"}
  BY AllPCs DEF IInv, TypeOK, Goroutine, PCs
<1>1. CASE toDTO(p)
  <2> DEFINE x == Move(g[p], "toDTO2", a)
             r == Snap(x, mem[a])
  <2>1. a \in Accounts /\ mem[a] \in DTO /\ a \in Accounts \cup {NoKey}
    BY <1>a, <1>1 DEF toDTO, HeldKeys, TypeOK
  <2>2. x \in Goroutine /\ x.pc = "toDTO2" /\ x.key = a
    BY <1>a, <2>1, MoveTo
  <2> HIDE DEF x
  <2>3. r \in Goroutine /\ r.pc = "toDTO2" /\ r.key = a /\ r.dto = mem[a]
    BY <2>1, <2>2, SnapType
  <2>4. Within(mem[a], 0)
    BY <2>1, <1>a, WithinBound DEF IInv
  <2>5. Become(p, r) /\ UNCHANGED <<rest, keys, next, mem, redis, scan>>
    BY <1>1 DEF toDTO, x
  <2> HIDE DEF r
  <2> QED
    BY <2>1, <2>3, <2>4, <2>5, QuietStep
<1>2. CASE toDTO2(p)
  <2> DEFINE d == [g[p].dto EXCEPT !.date = mem[a].date]
             x == Move(g[p], "save", a)
             r == Snap(x, d)
  <2>1. a \in Accounts /\ mem[a].date \in Nat /\ a \in Accounts \cup {NoKey}
    BY <1>a, <1>2 DEF toDTO2, HeldKeys, TypeOK, DTO
  <2>2. d \in DTO /\ d.used = g[p].dto.used /\ d.limit = g[p].dto.limit
    BY <1>a, <2>1, DateField
  <2>3. x \in Goroutine /\ x.pc = "save" /\ x.key = a
    BY <1>a, <2>1, MoveTo
  <2>4. /\ Become(p, r)
        /\ UNCHANGED <<day, keys, next, mem, redis, scan,
                       crashes, uses>>
        /\ torn' \in BOOLEAN
    BY <1>2, <1>a DEF toDTO2, TypeOK
  <2>5. Within(d, 0)
    <3>1. Within(g[p].dto, 0)
      BY <1>2 DEF IInv, SnapshotsWithinBound, toDTO2
    <3> QED
      BY <2>2, <3>1 DEF Within
  <2> HIDE DEF x, d
  <2>6. r \in Goroutine /\ r.pc = "save" /\ r.key = a /\ r.dto = d
    BY <2>2, <2>3, SnapType
  <2> HIDE DEF r
  <2>7. TypeOK'
    BY <1>a, <2>4, <2>6, BecomeFacts DEF TypeOK
  <2>8. RedisWithinBound'
    BY <2>4 DEF IInv, RedisWithinBound, Within
  <2>9. mem' \in [Accounts -> DTO] /\ NotRaised
    BY <1>a, <2>4, SameCounts
  <2>10. UsesInFlight' /\ HeldKeys' /\ SnapshotsWithinBound'
    BY <2>1, <2>4, <2>5, <2>6, <2>9, LocalStep
  <2> QED
    BY <2>7, <2>8, <2>10 DEF IInv
<1>3. CASE saveCFKey(p)
  <2> DEFINE x == Move(g[p], g[p].then, NoKey)
             y == Snap(x, Fresh)
             r == IF g[p].then = "idle" THEN Idle ELSE Then(y, "idle")
  <2>1. a \in Accounts
    BY <1>a, <1>3 DEF saveCFKey, HeldKeys
  <2>2. x \in Goroutine /\ x.pc = g[p].then
    <3>1. g[p].then \in PCs /\ NoKey \in Accounts \cup {NoKey}
      BY <1>a
    <3> QED
      BY <3>1, MoveTo
  <2>3. Become(p, r)
    BY <1>3 DEF saveCFKey, Done
  <2> HIDE DEF x
  <2>4. y \in Goroutine /\ y.pc = g[p].then
    BY <2>2, SnapType, IdleType
  <2> HIDE DEF y
  <2>5. r \in Goroutine /\ r.pc \in {"idle", "loop", "saves"}
    BY <1>a, <2>4, ThenType, IdleType
  <2> HIDE DEF r
  <2>6. /\ UNCHANGED <<rest, keys, next, mem, scan>>
        /\ redis' \in {redis, [redis EXCEPT ![a] = g[p].dto]}
    BY <1>3 DEF saveCFKey
  <2>7. TypeOK'
    BY <1>a, <2>1, <2>3, <2>5, <2>6, BecomeFacts DEF TypeOK, rest
  <2>8. Within(g[p].dto, 0)
    BY <1>3 DEF IInv, SnapshotsWithinBound, saveCFKey
  <2>9. RedisWithinBound'
    BY <1>a, <2>1, <2>6, <2>8 DEF IInv, RedisWithinBound, Within, TypeOK
  <2>10. mem' \in [Accounts -> DTO] /\ NotRaised
    BY <1>a, <2>6, SameCounts
  <2>11. UsesInFlight' /\ HeldKeys' /\ SnapshotsWithinBound'
    BY <2>3, <2>5, <2>10, LocalStep
  <2> QED
    BY <2>7, <2>9, <2>11 DEF IInv
<1> QED
  BY <1>1, <1>2, <1>3 DEF Saver

-----------------------------------------------------------------------------
(* The steps of a handler that change no account. *)
LEMMA Sizes ==
  ASSUME TypeOK, NEW k \in {"chat", "run"}
  PROVE  Attempts(k) \in Nat
  BY PoolAssumption DEF TypeOK, Attempts

LEMMA QuietHandlerStep ==
  ASSUME IInv, NEW p \in Handlers,
         \/ Start(p) \/ GiveUp(p) \/ TryAnother(p) \/ NotFound(p)
         \/ RunAnswered(p)
  PROVE  IInv'
<1> DEFINE x == Move(g[p], "loop", NoKey)
<1>1. p \in Procs /\ TypeOK /\ "loop" \in PCs /\ NoKey \in Accounts \cup {NoKey}
  BY AllPCs DEF Procs, IInv
<1>2. x \in Goroutine /\ x.pc = "loop"
  BY <1>1, MoveTo
<1>3. g[p].left \in Nat /\ g[p].n404 + 1 \in Nat /\ "chat" \in {"chat", "run"}
  BY <1>1 DEF TypeOK, Goroutine
<1>4. \/ Done(p)
      \/ Become(p, x)
      \/ \E k \in {"chat", "run"} : Become(p, Try(x, k, Attempts(k), 0))
      \/ Become(p, Try(x, "chat", g[p].left, g[p].n404 + 1))
  BY DEF Start, GiveUp, TryAnother, NotFound, RunAnswered, Again
<1>5. UNCHANGED <<rest, keys, next, mem, redis, scan>>
  BY DEF Start, GiveUp, TryAnother, NotFound, RunAnswered
<1> HIDE DEF x
<1>6. CASE Done(p)
  BY <1>1, <1>5, <1>6, IdleType, QuietStep DEF Done
<1>7. CASE Become(p, x)
  BY <1>1, <1>2, <1>5, <1>7, QuietStep
<1>8. ASSUME NEW k \in {"chat", "run"}, NEW n \in Nat, NEW m \in Nat,
             Become(p, Try(x, k, n, m))
      PROVE  IInv'
  <2>1. Try(x, k, n, m) \in Goroutine /\ Try(x, k, n, m).pc = "loop"
    BY <1>2, TryType
  <2> QED
    BY <1>1, <1>5, <1>8, <2>1, QuietStep
<1>9. CASE \E k \in {"chat", "run"} : Become(p, Try(x, k, Attempts(k), 0))
  <2>1. PICK k \in {"chat", "run"} : Become(p, Try(x, k, Attempts(k), 0))
    BY <1>9
  <2>2. Attempts(k) \in Nat /\ 0 \in Nat
    BY <1>1, Sizes
  <2> QED
    BY <1>8, <2>1, <2>2
<1>10. CASE Become(p, Try(x, "chat", g[p].left, g[p].n404 + 1))
  BY <1>3, <1>8, <1>10
<1> QED
  BY <1>4, <1>6, <1>7, <1>9, <1>10

(* A goroutine that has changed account a goes to save it. *)
LEMMA PersistFacts ==
  ASSUME IInv, NEW p \in Procs, NEW a \in Accounts,
         NEW l \in {"idle", "loop", "saves"}
  PROVE  /\ Then(Move(g[p], "toDTO", a), l) \in Goroutine
         /\ Then(Move(g[p], "toDTO", a), l).pc = "toDTO"
         /\ Then(Move(g[p], "toDTO", a), l).key = a
<1> DEFINE x == Move(g[p], "toDTO", a)
<1>1. "toDTO" \in PCs /\ a \in Accounts \cup {NoKey}
  BY AllPCs
<1>2. x \in Goroutine /\ x.pc = "toDTO" /\ x.key = a
  BY <1>1, MoveTo
<1> HIDE DEF x
<1>3. Then(x, l) \in Goroutine /\ Then(x, l).pc = x.pc /\ Then(x, l).key = x.key
  BY <1>2, ThenType
<1> QED
  BY <1>2, <1>3 DEF x

LEMMA DisableStep ==
  ASSUME IInv, NEW p \in Handlers, NEW s \in {"permanent", "cooldown"},
         Disable(p, s)
  PROVE  IInv'
<1> DEFINE a == g[p].key
           r == Then(Move(g[p], "toDTO", a), "loop")
<1>1. p \in Procs /\ TypeOK /\ a \in Accounts /\ mem[a] \in DTO /\ s \in Status
      /\ "loop" \in {"idle", "loop", "saves"}
  BY DEF Procs, IInv, HeldKeys, Disable, TypeOK, Status
<1>2. r \in Goroutine /\ r.pc = "toDTO" /\ r.key = a
  BY <1>1, PersistFacts
<1>3. Become(p, r) /\ UNCHANGED <<rest, keys, next, redis, scan>>
  BY DEF Disable, Persist
<1> HIDE DEF r
<1>4. /\ [mem[a] EXCEPT !.status = s] \in DTO
      /\ [mem[a] EXCEPT !.status = s].used = mem[a].used
      /\ [mem[a] EXCEPT !.status = s].limit = mem[a].limit
  BY <1>1, SetStatusType
<1>5. mem' = [mem EXCEPT ![a] = [mem[a] EXCEPT !.status = s]]
  BY DEF Disable
<1>6. mem' \in [Accounts -> DTO] /\ NotRaised
  <2>1. /\ mem' \in [Accounts -> DTO]
        /\ \A b \in Accounts : /\ mem'[b].limit = mem[b].limit
                              /\ mem'[b].used = mem[b].used
    BY <1>1, <1>4, <1>5 DEF TypeOK
  <2>2. \A b \in Accounts : mem[b].used \in Nat
    BY <1>1, Numbers DEF TypeOK
  <2> QED
    BY <2>1, <2>2 DEF NotRaised
<1>7. UsesInFlight' /\ HeldKeys' /\ SnapshotsWithinBound'
  BY <1>1, <1>2, <1>3, <1>6, LocalStep
<1>8. TypeOK'
  BY <1>1, <1>2, <1>3, <1>6, BecomeFacts DEF TypeOK, rest
<1>9. RedisWithinBound'
  BY <1>3 DEF IInv, RedisWithinBound, Within
<1> QED
  BY <1>7, <1>8, <1>9 DEF IInv

-----------------------------------------------------------------------------
(* The account at any place of the rotation is one of the pool. *)
LEMMA RingInPool ==
  ASSUME TypeOK, NEW i \in Candidates
  PROVE  Ring(i) \in Accounts
<1>1. /\ keys \in Seq(Accounts) /\ next \in Nat
      /\ i \in 0..(Len(keys) - 1)
  BY DEF TypeOK, Candidates
<1>2. Len(keys) \in Nat /\ Len(keys) > 0 /\ i \in Nat
  BY <1>1
<1>3. ((next + i) % Len(keys)) + 1 \in 1..Len(keys)
  BY <1>1, <1>2
<1> QED
  BY <1>1, <1>3 DEF Ring

(* Next: the account it returns has quota left, and so has room for every  *)
(* handler there is.                                                       *)
LEMMA PickStep ==
  ASSUME IInv, NEW p \in Handlers, Pick(p)
  PROVE  IInv'
<1>1. TypeOK /\ p \in Procs /\ g[p] \in Goroutine
  BY DEF IInv, TypeOK, Procs
<1>2. PICK i \in Best : Become(p, Try(Move(g[p], "sent", Ring(i)),
                                      g[p].kind, g[p].left - 1, g[p].n404))
  BY DEF Pick, Take
<1> DEFINE a == Ring(i)
           x == Move(g[p], "sent", a)
           r == Try(x, g[p].kind, g[p].left - 1, g[p].n404)
<1>3. i \in Candidates /\ a \in Accounts /\ a \in Accounts \cup {NoKey}
      /\ "sent" \in PCs
  BY <1>1, <1>2, RingInPool, AllPCs DEF Best
<1>4. x \in Goroutine /\ x.pc = "sent" /\ x.key = a
  BY <1>1, <1>3, MoveTo
<1>5. /\ g[p].kind \in {"chat", "run"} /\ g[p].left - 1 \in Nat
      /\ g[p].n404 \in Nat
  BY <1>1 DEF Pick, Goroutine
<1>6. Become(p, r)
  BY <1>2
<1> HIDE DEF x
<1>7. r \in Goroutine /\ r.pc = "sent" /\ r.key = a
  BY <1>4, <1>5, TryType
<1> HIDE DEF r
<1>8. /\ g' \in [Procs -> Goroutine]
      /\ g'[p] = r
      /\ \A q \in Procs : q # p => g'[q] = g[q]
  BY <1>1, <1>6, <1>7, BecomeFacts DEF TypeOK
<1>9. UNCHANGED <<rest, keys, redis, scan>> /\ Scanned
      /\ next' = (next + 1) % Len(keys) /\ Candidates # {}
  BY DEF Pick
<1>10. /\ mem' \in [Accounts -> DTO]
       /\ \A b \in Accounts : /\ mem'[b].limit = mem[b].limit
                             /\ mem'[b].used <= mem[b].used
  <2>1. ASSUME NEW b \in Accounts
        PROVE  mem[b] \in DTO /\ mem[b].used <= mem[b].used
    BY <1>1, <2>1 DEF TypeOK, DTO
  <2> QED
    BY <1>1, <1>9, <2>1, NewDayType DEF Scanned
<1>11. TypeOK'
  <2>1. Len(keys) \in Nat /\ Len(keys) > 0 /\ next \in Nat
    BY <1>1, <1>3 DEF TypeOK, Candidates
  <2>2. next' \in Nat
    BY <1>9, <2>1
  <2> QED
    BY <1>1, <1>8, <1>9, <1>10, <2>2, <1>7 DEF TypeOK, rest
<1>12. RedisWithinBound'
  BY <1>9 DEF IInv, RedisWithinBound, Within
<1>13. HeldKeys'
  BY <1>3, <1>7, <1>8 DEF HeldKeys, IInv
<1>14. SnapshotsWithinBound'
  BY <1>7, <1>8 DEF SnapshotsWithinBound, IInv, Within
<1>15. mem'[a].limit > 0 => mem'[a].used < mem'[a].limit
  <2>1. Remaining(a) > 0
    BY <1>3 DEF Candidates
  <2>2. /\ NewDay(a).used \in Nat /\ NewDay(a).limit \in Nat
        /\ NewDay(a).limit = mem[a].limit
    BY <1>1, <1>3, NewDayType, Numbers
  <2>3. a \in Range(keys)
    <3>1. /\ keys \in Seq(Accounts) /\ next \in Nat
          /\ i \in 0..(Len(keys) - 1)
      BY <1>1, <1>3 DEF TypeOK, Candidates
    <3>2. Len(keys) \in Nat /\ Len(keys) > 0 /\ i \in Nat
      BY <3>1
    <3>3. ((next + i) % Len(keys)) + 1 \in 1..Len(keys)
      BY <3>1, <3>2
    <3> QED
      BY <3>1, <3>3 DEF Ring, Range
  <2>4. mem'[a] = NewDay(a)
    BY <1>3, <1>9, <2>3 DEF Scanned
  <2> QED
    BY <2>1, <2>2, <2>4 DEF Remaining
<1>16. UsesInFlight'
  <2> SUFFICES ASSUME NEW b \in Accounts, mem'[b].limit > 0
               PROVE  mem'[b].used + Cardinality(Holders(b)')
                        < mem'[b].limit + Cardinality(Handlers)
    BY DEF UsesInFlight, Within
  <2>1. /\ Cardinality(Holders(b)) \in Nat
        /\ Cardinality(Holders(b)') \in Nat
        /\ Cardinality(Holders(b)') <= Cardinality(Handlers)
        /\ IsFiniteSet(Holders(b))
        /\ Cardinality(Handlers) \in Nat
    BY HoldersFinite, HandlersFinite DEF Holders
  <2>2. /\ mem'[b].used \in Nat /\ mem[b].used \in Nat
        /\ mem[b].limit \in Nat /\ mem'[b].limit = mem[b].limit
        /\ mem'[b].used <= mem[b].used
    <3>1. mem[b] \in DTO /\ mem'[b] \in DTO
      BY <1>1, <1>10 DEF TypeOK
    <3> QED
      BY <1>10, <3>1, Numbers
  <2>3. CASE b = a
    BY <1>15, <2>1, <2>2, <2>3
  <2>4. CASE b # a
    <3>1. Holders(b)' \subseteq Holders(b)
      BY <1>7, <1>8, <2>4 DEF Holders, Procs
    <3>2. Cardinality(Holders(b)') <= Cardinality(Holders(b))
      BY <2>1, <3>1, FS_Subset
    <3>3. mem[b].used + Cardinality(Holders(b))
            < mem[b].limit + Cardinality(Handlers)
      BY <2>2 DEF IInv, UsesInFlight, Within
    <3> QED
      BY <2>1, <2>2, <3>2, <3>3
  <2> QED
    BY <2>3, <2>4
<1> QED
  BY <1>11, <1>12, <1>13, <1>14, <1>16 DEF IInv

(* recordUsage turns the holder into a use. *)
LEMMA recordUsageStep ==
  ASSUME IInv, NEW p \in Handlers, recordUsage(p)
  PROVE  IInv'
<1> DEFINE a == g[p].key
           old == IF mem[a].date = day THEN mem[a].used ELSE 0
           n == old + Counted(a)
           r == Then(Move(g[p], "toDTO", a), "idle")
<1>1. /\ p \in Procs /\ TypeOK /\ a \in Accounts /\ mem[a] \in DTO
      /\ g[p].pc = "sent" /\ "idle" \in {"idle", "loop", "saves"}
  BY DEF Procs, IInv, HeldKeys, recordUsage, TypeOK
<1>2. r \in Goroutine /\ r.pc = "toDTO" /\ r.key = a
  BY <1>1, PersistFacts
<1>3. /\ Become(p, r)
      /\ UNCHANGED <<day, keys, next, redis, scan, crashes, torn>>
      /\ Counts(a)
  BY DEF recordUsage, Persist
<1>4. mem' = [mem EXCEPT ![a] = [mem[a] EXCEPT !.used = n, !.date = day]]
  BY <1>1 DEF recordUsage, TypeOK
<1> HIDE DEF r
<1>5. /\ mem[a].used \in Nat /\ day \in Nat /\ Counted(a) \in {0, 1}
      /\ n \in Nat /\ n <= mem[a].used + 1
  <2>1. mem[a].used \in Nat /\ day \in Nat
    BY <1>1, Numbers, PoolAssumption DEF TypeOK
  <2>2. Counted(a) \in {0, 1}
    BY DEF Counted
  <2> QED
    BY <2>1, <2>2
<1> HIDE DEF n
<1>6. [mem[a] EXCEPT !.used = n, !.date = day] \in DTO
      /\ [mem[a] EXCEPT !.used = n, !.date = day].used = n
      /\ [mem[a] EXCEPT !.used = n, !.date = day].limit = mem[a].limit
  BY <1>1, <1>5 DEF DTO
<1>7. /\ mem' \in [Accounts -> DTO]
      /\ mem'[a].used = n /\ mem'[a].limit = mem[a].limit
      /\ \A b \in Accounts : b # a => mem'[b] = mem[b]
  BY <1>1, <1>4, <1>6 DEF TypeOK
<1>8. /\ g' \in [Procs -> Goroutine]
      /\ g'[p] = r
      /\ \A q \in Procs : q # p => g'[q] = g[q]
  BY <1>1, <1>2, <1>3, BecomeFacts DEF TypeOK
<1>9. uses' \in [Accounts -> Nat]
  BY <1>1, <1>3, <1>5 DEF Counts, TypeOK
<1>10. TypeOK'
  BY <1>1, <1>3, <1>7, <1>8, <1>9 DEF TypeOK
<1>11. RedisWithinBound'
  BY <1>3 DEF IInv, RedisWithinBound, Within
<1>12. HeldKeys'
  BY <1>1, <1>2, <1>8 DEF HeldKeys, IInv
<1>13. SnapshotsWithinBound'
  BY <1>2, <1>8 DEF SnapshotsWithinBound, IInv, Within
<1>14. UsesInFlight'
  <2> SUFFICES ASSUME NEW b \in Accounts, mem'[b].limit > 0
               PROVE  mem'[b].used + Cardinality(Holders(b)')
                        < mem'[b].limit + Cardinality(Handlers)
    BY DEF UsesInFlight, Within
  <2>1. /\ Cardinality(Holders(b)) \in Nat /\ IsFiniteSet(Holders(b))
        /\ Cardinality(Handlers) \in Nat
        /\ mem[b].limit \in Nat /\ mem[b].used \in Nat
        /\ mem'[b].limit = mem[b].limit
        /\ mem[b].used + Cardinality(Holders(b))
             < mem[b].limit + Cardinality(Handlers)
    <3>1. Cardinality(Holders(b)) \in Nat /\ IsFiniteSet(Holders(b))
          /\ Cardinality(Handlers) \in Nat
      BY HoldersFinite, HandlersFinite DEF Holders
    <3>2. mem[b].limit \in Nat /\ mem[b].used \in Nat
      BY <1>1, Numbers DEF TypeOK
    <3>3. mem'[b].limit = mem[b].limit
      BY <1>7
    <3> QED
      BY <3>1, <3>2, <3>3 DEF IInv, UsesInFlight, Within
  <2>2. CASE b = a
    <3>1. Holders(b)' = Holders(b) \ {p} /\ p \in Holders(b)
      BY <1>1, <1>2, <1>8, <2>2 DEF Holders, Procs
    <3>2. Cardinality(Holders(b)') = Cardinality(Holders(b)) - 1
      BY <2>1, <3>1, FS_RemoveElement
    <3>3. mem'[b].used \in Nat /\ mem'[b].used <= mem[b].used + 1
      BY <1>5, <1>7, <2>2
    <3> QED
      BY <2>1, <3>2, <3>3
  <2>3. CASE b # a
    <3>1. Holders(b)' = Holders(b)
      BY <1>1, <1>2, <1>8, <2>3 DEF Holders, Procs
    <3> QED
      BY <1>7, <2>1, <2>3, <3>1
  <2> QED
    BY <2>2, <2>3
<1> QED
  BY <1>10, <1>11, <1>12, <1>13, <1>14 DEF IInv

-----------------------------------------------------------------------------
(* The worker. *)
LEMMA StartScanStep ==
  ASSUME IInv, StartScan
  PROVE  IInv'
<1> DEFINE r == Move(g[Worker], "scan", NoKey)
<1>1. /\ Worker \in Procs /\ TypeOK /\ "scan" \in PCs
      /\ NoKey \in Accounts \cup {NoKey}
  BY AllPCs DEF StartScan, Procs, IInv
<1>2. r \in Goroutine /\ r.pc = "scan"
  BY <1>1, MoveTo
<1>3. /\ Become(Worker, r) /\ UNCHANGED <<rest, keys, next, mem, redis>>
      /\ scan' = [today |-> day, todo |-> keys, changed |-> <<>>]
  BY DEF StartScan
<1> HIDE DEF r
<1>4. TypeOK'
  BY <1>1, <1>2, <1>3, BecomeFacts DEF TypeOK, rest
<1>5. mem' \in [Accounts -> DTO] /\ NotRaised
  BY <1>1, <1>3, SameCounts
<1>6. UsesInFlight' /\ HeldKeys' /\ SnapshotsWithinBound'
  BY <1>1, <1>2, <1>3, <1>5, LocalStep
<1>7. RedisWithinBound'
  BY <1>3 DEF IInv, RedisWithinBound, Within
<1> QED
  BY <1>4, <1>6, <1>7 DEF IInv

LEMMA EndScanStep ==
  ASSUME IInv, EndScan
  PROVE  IInv'
<1> DEFINE r == Move(g[Worker], "saves", NoKey)
<1>1. Worker \in Procs /\ "saves" \in PCs /\ NoKey \in Accounts \cup {NoKey}
  BY AllPCs DEF EndScan, Procs
<1>2. r \in Goroutine /\ r.pc = "saves"
  BY <1>1, MoveTo
<1>3. Become(Worker, r) /\ UNCHANGED <<rest, keys, next, mem, redis, scan>>
  BY DEF EndScan
<1> HIDE DEF r
<1> QED
  BY <1>1, <1>2, <1>3, QuietStep

(* The list that is left, and its head. *)
LEMMA HeadTail ==
  ASSUME NEW s \in Seq(Accounts), s # <<>>
  PROVE  Head(s) \in Accounts /\ Tail(s) \in Seq(Accounts)
  OBVIOUS

LEMMA NoScanType ==
  NoScan \in [today : 0..MaxDay, todo : Seq(Accounts),
              changed : Seq(Accounts)]
  BY PoolAssumption DEF NoScan

LEMMA SaveChangedStep ==
  ASSUME IInv, SaveChanged
  PROVE  IInv'
<1> DEFINE a == Head(scan.changed)
           r == IF scan.changed = <<>> THEN Idle
                ELSE Then(Move(g[Worker], "toDTO", a), "saves")
<1>1. /\ Worker \in Procs /\ TypeOK /\ scan.changed \in Seq(Accounts)
      /\ "saves" \in {"idle", "loop", "saves"}
  BY DEF SaveChanged, Procs, IInv, TypeOK
<1>2. /\ r \in Goroutine /\ r.pc \in {"idle", "toDTO"}
      /\ r.pc = "toDTO" => r.key \in Accounts
  <2>1. CASE scan.changed = <<>>
    BY <2>1, IdleType
  <2>2. CASE scan.changed # <<>>
    <3>1. a \in Accounts
      BY <1>1, <2>2, HeadTail
    <3> QED
      BY <1>1, <2>2, <3>1, PersistFacts
  <2> QED
    BY <2>1, <2>2
<1>3. /\ Become(Worker, r) /\ UNCHANGED <<rest, keys, next, mem, redis>>
  BY DEF SaveChanged, Done, Persist
<1>4. scan' \in [today : 0..MaxDay, todo : Seq(Accounts),
                 changed : Seq(Accounts)]
  <2>1. CASE scan.changed = <<>>
    <3>1. scan' = NoScan
      BY <2>1 DEF SaveChanged
    <3> QED
      BY <3>1, NoScanType
  <2>2. CASE scan.changed # <<>>
    BY <1>1, <2>2, HeadTail DEF SaveChanged, TypeOK
  <2> QED
    BY <2>1, <2>2
<1> HIDE DEF r
<1>5. TypeOK'
  BY <1>1, <1>2, <1>3, <1>4, BecomeFacts DEF TypeOK, rest
<1>6. mem' \in [Accounts -> DTO] /\ NotRaised
  BY <1>1, <1>3, SameCounts
<1>7. UsesInFlight' /\ HeldKeys' /\ SnapshotsWithinBound'
  BY <1>1, <1>2, <1>3, <1>6, LocalStep
<1>8. RedisWithinBound'
  BY <1>3 DEF IInv, RedisWithinBound, Within
<1> QED
  BY <1>5, <1>7, <1>8 DEF IInv

LEMMA ReenableStep ==
  ASSUME IInv, ReenableCooldowns
  PROVE  IInv'
<1> DEFINE a == Head(scan.todo)
           k == mem[a]
<1>1. /\ TypeOK /\ scan.todo \in Seq(Accounts) /\ scan.todo # <<>>
      /\ scan.changed \in Seq(Accounts)
      /\ scan.today \in 0..MaxDay /\ scan.today \in Nat
  <2>1. TypeOK /\ scan.todo # <<>>
    BY DEF IInv, ReenableCooldowns
  <2>2. scan \in [today : 0..MaxDay, todo : Seq(Accounts),
                  changed : Seq(Accounts)]
    BY <2>1 DEF TypeOK
  <2> QED
    BY <2>1, <2>2
<1>2. a \in Accounts /\ Tail(scan.todo) \in Seq(Accounts)
  BY <1>1, HeadTail
<1>3. /\ k \in DTO /\ k.used \in Nat /\ k.limit \in Nat
      /\ k.status \in Status
  BY <1>1, <1>2 DEF TypeOK, DTO
<1>4. PICK over \in BOOLEAN :
        LET lift == k.status = "cooldown" /\ over
            stale == k.date # scan.today
        IN  /\ mem' = [mem EXCEPT ![a] =
                         [status |-> IF lift THEN "enabled" ELSE k.status,
                          used |-> IF stale THEN 0 ELSE k.used,
                          limit |-> k.limit,
                          date |-> scan.today]]
            /\ scan' = [scan EXCEPT
                          !.todo = Tail(@),
                          !.changed = IF lift \/ stale THEN Append(@, a)
                                                       ELSE @]
  BY DEF ReenableCooldowns
<1> HIDE DEF k, a
<1> DEFINE s == IF k.status = "cooldown" /\ over THEN "enabled" ELSE k.status
           u == IF k.date # scan.today THEN 0 ELSE k.used
<1>5. s \in Status /\ u \in Nat /\ u <= k.used
  BY <1>3 DEF Status
<1>6. mem' = [mem EXCEPT ![a] = [status |-> s, used |-> u,
                                 limit |-> k.limit, date |-> scan.today]]
  BY <1>4
<1> HIDE DEF s, u
<1>7. /\ mem' \in [Accounts -> DTO]
      /\ NotRaised
  <2>1. [status |-> s, used |-> u, limit |-> k.limit, date |-> scan.today]
          \in DTO
    BY <1>1, <1>3, <1>5 DEF DTO
  <2>2. /\ mem' \in [Accounts -> DTO]
        /\ mem'[a].used = u /\ mem'[a].limit = k.limit
        /\ \A b \in Accounts : b # a => mem'[b] = mem[b]
    BY <1>1, <1>2, <1>6, <2>1 DEF TypeOK
  <2>3. ASSUME NEW b \in Accounts
        PROVE  mem'[b].limit = mem[b].limit /\ mem'[b].used <= mem[b].used
    <3>1. mem[b].used \in Nat
      BY <1>1, Numbers DEF TypeOK
    <3> QED
      BY <1>5, <2>2, <3>1 DEF k
  <2> QED
    BY <2>2, <2>3 DEF NotRaised
<1>8. scan' \in [today : 0..MaxDay, todo : Seq(Accounts),
                 changed : Seq(Accounts)]
  <2>1. Append(scan.changed, a) \in Seq(Accounts)
    BY <1>1, <1>2
  <2>2. scan' \in {[scan EXCEPT !.todo = Tail(scan.todo),
                                !.changed = Append(scan.changed, a)],
                   [scan EXCEPT !.todo = Tail(scan.todo),
                                !.changed = scan.changed]}
    BY <1>4
  <2> QED
    BY <1>1, <1>2, <2>1, <2>2 DEF TypeOK
<1>9. UNCHANGED <<rest, keys, next, redis, g>>
  BY DEF ReenableCooldowns
<1>10. TypeOK'
  BY <1>1, <1>7, <1>8, <1>9 DEF TypeOK, rest
<1>11. \A b \in Accounts : Holders(b)' \subseteq Holders(b)
  BY <1>9 DEF Holders
<1>12. UsesInFlight'
  BY <1>7, <1>11, SumNotRaised DEF IInv
<1>13. RedisWithinBound' /\ HeldKeys' /\ SnapshotsWithinBound'
  BY <1>9 DEF IInv, RedisWithinBound, HeldKeys, SnapshotsWithinBound,
              Within
<1> QED
  BY <1>10, <1>12, <1>13 DEF IInv

-----------------------------------------------------------------------------
(* The operator. *)
LEMMA OrdersType ==
  ASSUME NEW S \in SUBSET Accounts, NEW s \in Orders(S)
  PROVE  s \in Seq(Accounts)
<1>1. Cardinality(S) \in Nat
  BY PoolAssumption, FS_Subset, FS_CardinalityType
<1>2. s \in [1..Cardinality(S) -> Accounts]
  BY DEF Orders
<1> QED
  BY <1>1, <1>2

LEMMA KeptType ==
  ASSUME TypeOK, NEW S \in SUBSET Range(keys), NEW s \in Kept(S)
  PROVE  s \in Seq(Accounts)
<1>1. Range(keys) \subseteq Accounts
  BY DEF TypeOK, Range
<1>2. S \in SUBSET Accounts /\ s \in Orders(S)
  BY <1>1 DEF Kept
<1> QED
  BY <1>2, OrdersType

LEMMA AddKeyStep ==
  ASSUME IInv, AddKey
  PROVE  IInv'
<1>1. PICK a \in Accounts \ Range(keys) :
        /\ keys' = Append(keys, a)
        /\ mem' = [mem EXCEPT ![a] = Fresh]
        /\ Persist(Admin, a, "idle")
  BY DEF AddKey
<1> DEFINE r == Then(Move(g[Admin], "toDTO", a), "idle")
<1>2. /\ Admin \in Procs /\ TypeOK /\ a \in Accounts
      /\ "idle" \in {"idle", "loop", "saves"}
  BY DEF AddKey, Procs, IInv
<1>3. r \in Goroutine /\ r.pc = "toDTO" /\ r.key = a
  BY <1>2, PersistFacts
<1>4. Become(Admin, r) /\ UNCHANGED <<rest, next, redis, scan>>
  BY <1>1 DEF AddKey, Persist
<1> HIDE DEF r
<1>5. mem' \in [Accounts -> DTO] /\ NotRaised
  <2>1. /\ mem' \in [Accounts -> DTO]
        /\ \A b \in Accounts : mem'[b] = mem[b] \/ mem'[b] = Fresh
    BY <1>1, <1>2, IdleType DEF TypeOK
  <2>2. \A b \in Accounts : mem[b].used \in Nat
    BY <1>2, Numbers DEF TypeOK
  <2> QED
    BY <2>1, <2>2, IdleType DEF NotRaised
<1>6. keys' \in Seq(Accounts)
  BY <1>1, <1>2 DEF TypeOK
<1>7. TypeOK'
  BY <1>2, <1>3, <1>4, <1>5, <1>6, BecomeFacts DEF TypeOK, rest
<1>8. UsesInFlight' /\ HeldKeys' /\ SnapshotsWithinBound'
  BY <1>2, <1>3, <1>4, <1>5, LocalStep
<1>9. RedisWithinBound'
  BY <1>4 DEF IInv, RedisWithinBound, Within
<1> QED
  BY <1>7, <1>8, <1>9 DEF IInv

LEMMA DeleteKeyStep ==
  ASSUME IInv, DeleteKey
  PROVE  IInv'
<1>1. PICK a \in Range(keys) :
        /\ keys' \in Kept(Range(keys) \ {a})
        /\ Become(Admin, Move(g[Admin], "delete", a))
  BY DEF DeleteKey
<1> DEFINE r == Move(g[Admin], "delete", a)
<1>2. /\ Admin \in Procs /\ TypeOK /\ a \in Accounts /\ "delete" \in PCs
      /\ a \in Accounts \cup {NoKey}
  BY <1>1, AllPCs DEF DeleteKey, Procs, IInv, Range, TypeOK
<1>3. r \in Goroutine /\ r.pc = "delete" /\ r.key = a
  BY <1>2, MoveTo
<1>4. Become(Admin, r) /\ UNCHANGED <<rest, next, mem, redis, scan>>
  BY <1>1 DEF DeleteKey
<1> HIDE DEF r
<1>5. keys' \in Seq(Accounts)
  <2>1. Range(keys) \ {a} \in SUBSET Range(keys)
    OBVIOUS
  <2> QED
    BY <1>1, <1>2, <2>1, KeptType
<1>6. mem' \in [Accounts -> DTO] /\ NotRaised
  BY <1>2, <1>4, SameCounts
<1>7. TypeOK'
  BY <1>2, <1>3, <1>4, <1>5, <1>6, BecomeFacts DEF TypeOK, rest
<1>8. UsesInFlight' /\ HeldKeys' /\ SnapshotsWithinBound'
  BY <1>2, <1>3, <1>4, <1>6, LocalStep
<1>9. RedisWithinBound'
  BY <1>4 DEF IInv, RedisWithinBound, Within
<1> QED
  BY <1>7, <1>8, <1>9 DEF IInv

LEMMA DeleteCFKeyStep ==
  ASSUME IInv, DeleteCFKey
  PROVE  IInv'
<1> DEFINE a == g[Admin].key
<1>1. Admin \in Procs /\ TypeOK /\ a \in Accounts
  BY DEF DeleteCFKey, Procs, IInv, HeldKeys
<1>2. /\ Become(Admin, Idle) /\ UNCHANGED <<rest, keys, next, mem, scan>>
      /\ redis' \in {redis, [redis EXCEPT ![a] = Absent]}
  BY DEF DeleteCFKey, Done
<1>3. redis' \in [Accounts -> DTO \cup {Absent}]
  BY <1>1, <1>2 DEF TypeOK
<1>4. mem' \in [Accounts -> DTO] /\ NotRaised
  BY <1>1, <1>2, SameCounts
<1>5. TypeOK'
  BY <1>1, <1>2, <1>3, <1>4, IdleType, BecomeFacts DEF TypeOK, rest
<1>6. UsesInFlight' /\ HeldKeys' /\ SnapshotsWithinBound'
  BY <1>1, <1>2, <1>4, IdleType, LocalStep
<1>7. RedisWithinBound'
  <2>1. \A b \in Accounts : redis'[b] = redis[b] \/ redis'[b] = Absent
    BY <1>1, <1>2 DEF TypeOK
  <2> QED
    BY <2>1, EmptyWithin DEF IInv, RedisWithinBound, Within
<1> QED
  BY <1>5, <1>6, <1>7 DEF IInv

LEMMA CleanupStep ==
  ASSUME IInv, CleanupDisabled
  PROVE  IInv'
<1> DEFINE dead == {a \in Range(keys) : mem[a].status = "permanent"}
<1>1. TypeOK /\ UNCHANGED <<rest, next, mem, g, scan>>
  BY DEF IInv, CleanupDisabled
<1>2. PICK lost \in SUBSET dead :
        redis' = [a \in Accounts |->
                    IF a \in dead \ lost THEN Absent ELSE redis[a]]
  BY DEF CleanupDisabled
<1>3. keys' \in Seq(Accounts)
  <2>1. keys' \in Kept(Range(keys) \ dead)
    BY DEF CleanupDisabled
  <2>2. Range(keys) \ dead \in SUBSET Range(keys)
    OBVIOUS
  <2> QED
    BY <1>1, <2>1, <2>2, KeptType
<1>4. redis' \in [Accounts -> DTO \cup {Absent}]
  BY <1>1, <1>2 DEF TypeOK
<1>5. TypeOK'
  BY <1>1, <1>3, <1>4 DEF TypeOK, rest
<1>6. RedisWithinBound'
  <2>1. \A b \in Accounts : redis'[b] = redis[b] \/ redis'[b] = Absent
    BY <1>2
  <2> QED
    BY <2>1, EmptyWithin DEF IInv, RedisWithinBound, Within
<1>7. UsesInFlight' /\ HeldKeys' /\ SnapshotsWithinBound'
  BY <1>1 DEF IInv, UsesInFlight, HeldKeys, SnapshotsWithinBound, Within,
              Holders
<1> QED
  BY <1>5, <1>6, <1>7 DEF IInv

-----------------------------------------------------------------------------
(* Midnight, and a restart from what was written before. *)
LEMMA MidnightStep ==
  ASSUME IInv, Midnight
  PROVE  IInv'
<1>1. TypeOK'
  <2>1. day' \in 1..MaxDay
    BY PoolAssumption DEF IInv, TypeOK, Midnight
  <2> QED
    BY <2>1 DEF IInv, TypeOK, Midnight
<1>2. /\ UsesInFlight' /\ RedisWithinBound' /\ HeldKeys'
      /\ SnapshotsWithinBound'
  BY DEF Midnight, IInv, UsesInFlight, RedisWithinBound, HeldKeys,
         SnapshotsWithinBound, Within, Holders
<1> QED
  BY <1>1, <1>2 DEF IInv

LEMMA IdleAll ==
  ASSUME g = [p \in Procs |-> Idle]
  PROVE  /\ g \in [Procs -> Goroutine]
         /\ HeldKeys /\ SnapshotsWithinBound
         /\ \A a \in Accounts : Holders(a) = {}
  BY IdleType DEF HeldKeys, SnapshotsWithinBound, Holders, Procs

(* What LoadFromRedis makes of the pool. *)
LEMMA LoadFacts ==
  ASSUME TypeOK, LoadFromRedis
  PROVE  /\ keys' \in Seq(Accounts)
         /\ mem' \in [Accounts -> DTO]
         /\ redis' \in [Accounts -> DTO \cup {Absent}]
         /\ \A a \in Accounts : /\ mem'[a] \in {redis[a], Fresh}
                               /\ redis'[a] \in {redis[a], Fresh}
<1> DEFINE stored == {a \in Accounts : redis[a] # Absent}
           seeds(read) == IF read = {} THEN Seeds ELSE {}
<1>1. PICK read \in SUBSET stored :
        /\ mem' = [a \in Accounts |-> IF a \in read THEN redis[a] ELSE Fresh]
        /\ \/ /\ keys' \in Orders(read \cup seeds(read))
              /\ \E saved \in SUBSET seeds(read) :
                   redis' = [a \in Accounts |->
                               IF a \in saved THEN Fresh ELSE redis[a]]
           \/ keys' = <<>> /\ UNCHANGED redis
  BY DEF LoadFromRedis
<1>2. read \cup seeds(read) \in SUBSET Accounts
  BY PoolAssumption
<1> HIDE DEF seeds
<1>3. keys' \in Seq(Accounts)
  <2> DEFINE S == read \cup seeds(read)
  <2>1. S \in SUBSET Accounts
    BY <1>2
  <2>2. keys' \in Orders(S) \/ keys' = <<>>
    BY <1>1
  <2> HIDE DEF S
  <2>3. CASE keys' \in Orders(S)
    BY <2>1, <2>3, OrdersType
  <2>4. CASE keys' = <<>>
    BY <2>4
  <2> QED
    BY <2>2, <2>3, <2>4
<1>4. redis \in [Accounts -> DTO \cup {Absent}] /\ Fresh \in DTO
  BY IdleType DEF TypeOK
<1>5. \A a \in read : a \in Accounts /\ redis[a] \in DTO
  BY <1>4
<1>6. mem' \in [Accounts -> DTO]
  BY <1>1, <1>4, <1>5
<1>7. redis' \in [Accounts -> DTO \cup {Absent}]
  BY <1>1, <1>4
<1>8. \A a \in Accounts : /\ mem'[a] \in {redis[a], Fresh}
                        /\ redis'[a] \in {redis[a], Fresh}
  BY <1>1
<1> QED
  BY <1>3, <1>6, <1>7, <1>8

LEMMA RestartStep ==
  ASSUME IInv, Restart
  PROVE  IInv'
<1>1. TypeOK /\ RedisWithinBound /\ UNCHANGED <<day, uses, torn>>
  BY DEF IInv, Restart
<1>2. /\ g' = [p \in Procs |-> Idle]
      /\ next' = 0 /\ scan' = NoScan /\ crashes' = crashes + 1
      /\ crashes < MaxCrashes
  BY DEF Restart
<1>3. /\ keys' \in Seq(Accounts)
      /\ mem' \in [Accounts -> DTO]
      /\ redis' \in [Accounts -> DTO \cup {Absent}]
      /\ \A a \in Accounts : /\ mem'[a] \in {redis[a], Fresh}
                            /\ redis'[a] \in {redis[a], Fresh}
  BY <1>1, LoadFacts DEF Restart
<1>4. /\ g' \in [Procs -> Goroutine] /\ HeldKeys' /\ SnapshotsWithinBound'
      /\ \A a \in Accounts : Holders(a)' = {}
  BY <1>2, IdleType DEF HeldKeys, SnapshotsWithinBound, Holders, Procs
<1>5. crashes' \in 0..MaxCrashes
  BY <1>1, <1>2, PoolAssumption DEF TypeOK
<1>6. TypeOK'
  BY <1>1, <1>2, <1>3, <1>4, <1>5, NoScanType DEF TypeOK
<1>7. \A a \in Accounts : Within(mem'[a], 0) /\ Within(redis'[a], 0)
  BY <1>1, <1>3, EmptyWithin DEF RedisWithinBound
<1>8. RedisWithinBound'
  BY <1>7 DEF RedisWithinBound, Within
<1>9. UsesInFlight'
  <2>1. \A a \in Accounts : Cardinality(Holders(a)') = 0
    BY <1>4, FS_EmptySet
  <2> QED
    BY <1>7, <2>1 DEF UsesInFlight, Within
<1> QED
  BY <1>4, <1>6, <1>8, <1>9 DEF IInv

-----------------------------------------------------------------------------
LEMMA InitInvariant ==
  ASSUME Init
  PROVE  IInv
<1>1. /\ g \in [Procs -> Goroutine] /\ HeldKeys /\ SnapshotsWithinBound
      /\ \A a \in Accounts : Holders(a) = {}
  BY IdleAll DEF Init
<1>2. keys \in Seq(Accounts)
  BY PoolAssumption, OrdersType DEF Init
<1>3. PICK limit \in Limits : mem = [a \in Accounts |-> Unused(limit[a])]
  BY DEF Init
<1>4. ASSUME NEW a \in Accounts
      PROVE  /\ mem[a] \in DTO /\ mem[a].used = 0
             /\ redis[a] \in {mem[a], Absent}
  <2>1. limit[a] \in Nat /\ mem[a] = Unused(limit[a])
    BY <1>3, <1>4, PoolAssumption
  <2> QED
    BY <1>4, <2>1 DEF Init, Unused, DTO, Status
<1>5. TypeOK
  <2>1. day \in 1..MaxDay /\ crashes \in 0..MaxCrashes
    BY PoolAssumption DEF Init
  <2>2. mem \in [Accounts -> DTO]
    BY <1>3, <1>4
  <2>3. redis \in [Accounts -> DTO \cup {Absent}]
    BY <1>4 DEF Init
  <2> QED
    BY <1>1, <1>2, <2>1, <2>2, <2>3, NoScanType DEF Init, TypeOK
<1>6. ASSUME NEW a \in Accounts
      PROVE  Within(mem[a], 0) /\ Within(redis[a], 0)
  <2>1. mem[a].limit \in Nat /\ mem[a].used = 0
    BY <1>4, <1>6, Numbers
  <2>2. Cardinality(Handlers) \in Nat
    BY HandlersFinite
  <2>3. Within(mem[a], 0)
    BY <2>1, <2>2 DEF Within
  <2> QED
    BY <1>4, <1>6, <2>3, EmptyWithin
<1>7. UsesInFlight
  <2>1. \A a \in Accounts : Cardinality(Holders(a)) = 0
    BY <1>1, FS_EmptySet
  <2> QED
    BY <1>6, <2>1 DEF UsesInFlight
<1> QED
  BY <1>1, <1>5, <1>6, <1>7 DEF IInv, RedisWithinBound

LEMMA Stutter ==
  ASSUME IInv, UNCHANGED vars
  PROVE  IInv'
<1>1. TypeOK'
  BY DEF IInv, TypeOK, vars
<1>2. /\ UsesInFlight' /\ RedisWithinBound' /\ HeldKeys'
      /\ SnapshotsWithinBound'
  BY DEF vars, IInv, UsesInFlight, RedisWithinBound, HeldKeys,
         SnapshotsWithinBound, Within, Holders
<1> QED
  BY <1>1, <1>2 DEF IInv

(* Every step of the pool keeps the invariant. *)
LEMMA NextInvariant ==
  ASSUME IInv, [Next]_vars
  PROVE  IInv'
<1>1. CASE \E p \in Handlers : Start(p) \/ Handler(p)
  <2>1. PICK p \in Handlers : Start(p) \/ Handler(p)
    BY <1>1
  <2>2. CASE \/ Start(p) \/ GiveUp(p) \/ TryAnother(p) \/ NotFound(p)
             \/ RunAnswered(p)
    BY <2>2, QuietHandlerStep
  <2>3. CASE Pick(p)
    BY <2>3, PickStep
  <2>4. CASE permanentDisableCF(p) \/ cooldownDisableCF(p)
    BY <2>4, DisableStep DEF permanentDisableCF, cooldownDisableCF
  <2>5. CASE recordUsage(p)
    BY <2>5, recordUsageStep
  <2> QED
    BY <2>1, <2>2, <2>3, <2>4, <2>5 DEF Handler
<1>2. CASE \E p \in Procs : Saver(p)
  BY <1>2, SaverStep
<1>3. CASE StartScan \/ Scan
  BY <1>3, StartScanStep, ReenableStep, EndScanStep, SaveChangedStep DEF Scan
<1>4. CASE AddKey \/ DeleteKey \/ DeleteCFKey \/ CleanupDisabled
  BY <1>4, AddKeyStep, DeleteKeyStep, DeleteCFKeyStep, CleanupStep
<1>5. CASE Midnight \/ Restart
  BY <1>5, MidnightStep, RestartStep
<1>6. CASE UNCHANGED vars
  BY <1>6, Stutter
<1> QED
  BY <1>1, <1>2, <1>3, <1>4, <1>5, <1>6 DEF Next

(* The pool keeps its types, and the uses counted and still to come of an  *)
(* account, in memory, in Redis and in every snapshot under way, stay      *)
(* below its limit plus the number of handlers.                            *)
THEOREM PoolInvariant == Spec => []IInv
<1>1. Init => IInv
  BY InitInvariant
<1>2. IInv /\ [Next]_vars => IInv'
  BY NextInvariant
<1> QED
  BY <1>1, <1>2, PTL DEF Spec

(* QuotaOverrun for every pool: Next checks the quota when it gives an     *)
(* account out and recordUsage counts it when the answer is there, and the *)
(* count runs over the limit by less than the number of handlers.          *)
THEOREM QuotaOverrunHolds == Spec => []QuotaOverrun
<1>1. IInv => QuotaOverrun
  <2> SUFFICES ASSUME IInv, NEW a \in Accounts, mem[a].limit > 0
               PROVE  mem[a].used < mem[a].limit + Cardinality(Handlers)
    BY DEF QuotaOverrun
  <2>1. Within(mem[a], 0) /\ mem[a] \in DTO
    BY WithinBound DEF IInv, TypeOK
  <2>2. mem[a].used \in Nat
    BY <2>1, Numbers
  <2> QED
    BY <2>1, <2>2 DEF Within
<1> QED
  BY <1>1, PoolInvariant, PTL

-----------------------------------------------------------------------------
(* ChargedForTodayOnly.  A copy of an account (in memory, in Redis, in a   *)
(* snapshot under way) is fair when it is of no day to come, and, if it is *)
(* of today, counts no more than today's n uses.                           *)

FairCopy(d, n, t) == d.date <= t /\ (d.date = t => d.used <= n)

SnapshotsFair ==
  \A p \in Procs : g[p].pc \in {"toDTO2", "save"} =>
    FairCopy(g[p].dto, uses[g[p].key], day)

CopiesFair ==
  /\ scan.today <= day
  /\ \A a \in Accounts : FairCopy(mem[a], uses[a], day) /\ FairCopy(redis[a], uses[a], day)
  /\ SnapshotsFair

ChargeInv == torn \/ CopiesFair

(* What the types say of dates and uses. *)
LEMMA DateTypes ==
  ASSUME TypeOK
  PROVE  /\ day \in Nat /\ scan.today \in Nat
         /\ \A a \in Accounts : /\ uses[a] \in Nat
                                /\ mem[a].date \in Nat /\ mem[a].used \in Nat
                                /\ redis[a].date \in Nat /\ redis[a].used \in Nat
         /\ \A p \in Procs : g[p].dto.date \in Nat /\ g[p].dto.used \in Nat
<1>1. day \in Nat /\ scan.today \in Nat
  BY PoolAssumption DEF TypeOK
<1>2. \A a \in Accounts : uses[a] \in Nat /\ mem[a].date \in Nat /\ mem[a].used \in Nat
  BY DEF TypeOK, DTO
<1>3. \A a \in Accounts : redis[a].date \in Nat /\ redis[a].used \in Nat
  <2>1. Absent.date = 0 /\ Absent.used = 0
    BY DEF Absent
  <2>2. \A a \in Accounts : redis[a] \in DTO \/ redis[a] = Absent
    BY DEF TypeOK
  <2> QED BY <2>1, <2>2 DEF DTO
<1>4. ASSUME NEW p \in Procs PROVE g[p].dto.date \in Nat /\ g[p].dto.used \in Nat
  <2>1. g[p].dto \in DTO
    BY DEF TypeOK, Goroutine
  <2> QED BY <2>1 DEF DTO
<1> QED BY <1>1, <1>2, <1>3, <1>4

(* An unused copy is fair, and a fair one stays so when uses are added. *)
LEMMA UnusedFair ==
  ASSUME NEW d, NEW n \in Nat, NEW t \in Nat, d.used = 0, d.date \in Nat, d.date <= t
  PROVE  FairCopy(d, n, t)
  BY DEF FairCopy

LEMMA StaysFair ==
  ASSUME NEW d, NEW n \in Nat, NEW m \in Nat, NEW t, d.used \in Nat, n <= m, FairCopy(d, n, t)
  PROVE  FairCopy(d, m, t)
  BY DEF FairCopy

LEMMA NoUses == /\ Fresh.used = 0 /\ Fresh.date = 0
                /\ Absent.used = 0 /\ Absent.date = 0
  BY DEF Fresh, Unused, Absent

(* A step within a day that counts no use, and moves goroutine p alone,    *)
(* not into the middle of a save.                                          *)
LEMMA SnapshotsStayFair ==
  ASSUME IInv, SnapshotsFair, NEW p \in Procs, UNCHANGED <<day, uses>>,
         \A q \in Procs : q # p => g'[q] = g[q],
         g'[p].pc \notin {"toDTO2", "save"}
  PROVE  SnapshotsFair'
  BY DEF SnapshotsFair

(* Such a step that changes neither memory nor Redis. *)
LEMMA QuietStaysFair ==
  ASSUME IInv, ~torn => CopiesFair, NEW p \in Procs, UNCHANGED <<rest, mem, redis>>,
         \A q \in Procs : q # p => g'[q] = g[q],
         g'[p].pc \notin {"toDTO2", "save"}, scan'.today \in {scan.today, day, 0}
  PROVE  ChargeInv'
<1> SUFFICES ASSUME ~torn PROVE CopiesFair'
  BY DEF ChargeInv, rest
<1>1. CopiesFair
  OBVIOUS
<1>2. SnapshotsFair'
  BY <1>1, SnapshotsStayFair DEF CopiesFair, rest
<1>3. scan'.today <= day'
  BY <1>1, DateTypes DEF CopiesFair, IInv, rest
<1> QED BY <1>1, <1>2, <1>3 DEF CopiesFair, rest

(* The goroutine of a step, and that no other one moves. *)
LEMMA OnlyOne ==
  ASSUME IInv, NEW p \in Procs, NEW r, Become(p, r)
  PROVE  g'[p] = r /\ \A q \in Procs : q # p => g'[q] = g[q]
  BY DEF Become, IInv, TypeOK

LEMMA QuietHandlerFair ==
  ASSUME IInv, ChargeInv, NEW p \in Handlers,
         \/ Start(p) \/ GiveUp(p) \/ TryAnother(p) \/ NotFound(p) \/ RunAnswered(p)
  PROVE  ChargeInv'
<1>1. p \in Procs /\ g[p] \in Goroutine
  BY DEF Procs, IInv, TypeOK
<1>2. UNCHANGED <<rest, mem, redis, scan>>
  BY DEF Start, GiveUp, TryAnother, NotFound, RunAnswered
<1>3. PICK r : Become(p, r) /\ r.pc \in {"loop", "idle"}
  <2>1. Idle.pc = "idle"
    BY IdleType
  <2>2. \A k, n, m : Try(Move(g[p], "loop", NoKey), k, n, m).pc = "loop"
    BY <1>1 DEF Try, Move, Goroutine
  <2>3. Move(g[p], "loop", NoKey).pc = "loop"
    BY <1>1 DEF Move, Goroutine
  <2> QED
    BY <2>1, <2>2, <2>3 DEF Start, GiveUp, TryAnother, NotFound, RunAnswered, Done, Again
<1>4. g'[p].pc \notin {"toDTO2", "save"} /\ \A q \in Procs : q # p => g'[q] = g[q]
  BY <1>1, <1>3, OnlyOne
<1> QED BY <1>1, <1>2, <1>4, QuietStaysFair DEF ChargeInv

LEMMA SaverFair ==
  ASSUME IInv, ChargeInv, NEW p \in Procs, Saver(p)
  PROVE  ChargeInv'
<1> SUFFICES ASSUME ~torn' PROVE CopiesFair'
  BY DEF ChargeInv
<1>0. ~torn /\ CopiesFair
  <2>1. torn => torn'
    <3>1. CASE toDTO(p) \/ saveCFKey(p)
      BY <3>1 DEF toDTO, saveCFKey, rest
    <3>2. CASE toDTO2(p)
      BY <3>2, Zenon DEF toDTO2
    <3> QED BY <3>1, <3>2 DEF Saver
  <2> QED BY <2>1 DEF ChargeInv
<1>1. /\ g[p] \in Goroutine /\ TypeOK
      /\ g[p].pc \in {"toDTO", "toDTO2", "save"} /\ g[p].key \in Accounts
  <2>1. g[p] \in Goroutine /\ TypeOK /\ HeldKeys
    BY DEF IInv, TypeOK
  <2>2. g[p].pc \in {"toDTO", "toDTO2", "save"}
    BY DEF Saver, toDTO, toDTO2, saveCFKey
  <2> QED BY <2>1, <2>2 DEF HeldKeys
<1>a. /\ g[p].key \in Accounts \cup {NoKey} /\ "toDTO2" \in PCs /\ "save" \in PCs
      /\ mem[g[p].key] \in DTO /\ g[p].dto \in DTO
  BY <1>1, AllPCs DEF TypeOK, Goroutine
<1>2. CASE toDTO(p)
  <2>1. UNCHANGED <<day, uses, mem, redis, scan>>
    BY <1>2 DEF toDTO, rest
  <2>2. /\ g'[p].dto = mem[g[p].key] /\ g'[p].key = g[p].key
        /\ \A q \in Procs : q # p => g'[q] = g[q]
    <3> DEFINE x == Move(g[p], "toDTO2", g[p].key)
               r == Snap(x, mem[g[p].key])
    <3>1. x \in Goroutine /\ x.key = g[p].key
      BY <1>a, MoveTo
    <3>2. Become(p, r)
      BY <1>2 DEF toDTO
    <3> HIDE DEF x
    <3>3. r.dto = mem[g[p].key] /\ r.key = g[p].key
      BY <1>a, <3>1, SnapType
    <3> HIDE DEF r
    <3> QED BY <3>2, <3>3, OnlyOne
  <2>3. SnapshotsFair'
    BY <1>0, <1>1, <2>1, <2>2 DEF CopiesFair, SnapshotsFair
  <2> QED BY <1>0, <2>1, <2>3 DEF CopiesFair
<1>3. CASE toDTO2(p)
  <2>1. UNCHANGED <<day, uses, mem, redis, scan>> /\ g[p].pc = "toDTO2"
        /\ g[p].dto.date = mem[g[p].key].date
    BY <1>3 DEF toDTO2
  <2>2. /\ g'[p].dto.date = g[p].dto.date /\ g'[p].dto.used = g[p].dto.used
        /\ g'[p].key = g[p].key
        /\ \A q \in Procs : q # p => g'[q] = g[q]
    <3> DEFINE d == [g[p].dto EXCEPT !.date = mem[g[p].key].date]
               x == Move(g[p], "save", g[p].key)
               r == Snap(x, d)
    <3>1. Become(p, r)
      BY <1>3 DEF toDTO2
    <3>2. d \in DTO /\ d.date = g[p].dto.date /\ d.used = g[p].dto.used
      BY <1>a, <2>1 DEF DTO
    <3>3. x \in Goroutine /\ x.key = g[p].key
      BY <1>a, MoveTo
    <3> HIDE DEF x, d
    <3>4. r.dto = d /\ r.key = g[p].key
      BY <3>2, <3>3, SnapType
    <3> HIDE DEF r
    <3> QED BY <3>1, <3>2, <3>4, OnlyOne
  <2>3. SnapshotsFair'
    BY <1>0, <2>1, <2>2 DEF CopiesFair, SnapshotsFair, FairCopy
  <2> QED BY <1>0, <2>1, <2>3 DEF CopiesFair
<1>4. CASE saveCFKey(p)
  <2>1. UNCHANGED <<day, uses, mem, scan>> /\ g[p].pc = "save"
        /\ redis' \in {redis, [redis EXCEPT ![g[p].key] = g[p].dto]}
    BY <1>4 DEF saveCFKey, rest
  <2>2. /\ g'[p].pc \in {"idle", "loop", "saves"} /\ \A q \in Procs : q # p => g'[q] = g[q]
    <3>1. g[p].then \in {"idle", "loop", "saves"} /\ Idle.pc = "idle"
      BY <1>1, IdleType DEF Goroutine
    <3>2. Then(Snap(Move(g[p], g[p].then, NoKey), Fresh), "idle").pc = g[p].then
      BY <1>1 DEF Then, Snap, Move, Goroutine
    <3>3. PICK r : Become(p, r) /\ r.pc \in {"idle", "loop", "saves"}
      BY <1>4, <3>1, <3>2 DEF saveCFKey, Done
    <3> QED BY <3>3, OnlyOne
  <2>3. SnapshotsFair'
    BY <1>0, <2>1, <2>2, SnapshotsStayFair DEF CopiesFair
  <2>4. FairCopy(g[p].dto, uses[g[p].key], day)
    BY <1>0, <2>1 DEF CopiesFair, SnapshotsFair
  <2>5. \A a \in Accounts : redis'[a] = redis[a] \/ (a = g[p].key /\ redis'[a] = g[p].dto)
    BY <1>1, <2>1 DEF TypeOK
  <2> QED BY <1>0, <2>1, <2>3, <2>4, <2>5 DEF CopiesFair
<1> QED BY <1>2, <1>3, <1>4 DEF Saver

(* A step within a day that counts no use, puts fair copies into memory    *)
(* and Redis and moves at most goroutine p, not into the middle of a save. *)
LEMMA StepFair ==
  ASSUME IInv, CopiesFair, NEW p \in Procs, UNCHANGED <<day, uses>>,
         \A q \in Procs : q # p => g'[q] = g[q],
         g'[p].pc \notin {"toDTO2", "save"} \/ g'[p] = g[p],
         scan'.today <= day,
         \A a \in Accounts : /\ FairCopy(mem'[a], uses[a], day)
                             /\ FairCopy(redis'[a], uses[a], day)
  PROVE  CopiesFair'
<1>1. SnapshotsFair'
  BY DEF CopiesFair, SnapshotsFair
<1> QED BY <1>1 DEF CopiesFair

LEMMA PersistPC ==
  ASSUME IInv, NEW p \in Procs, NEW a \in Accounts, NEW l \in {"idle", "loop", "saves"},
         Persist(p, a, l)
  PROVE  g'[p].pc = "toDTO" /\ \A q \in Procs : q # p => g'[q] = g[q]
<1>1. PICK r : r = Then(Move(g[p], "toDTO", a), l)
  OBVIOUS
<1>2. r.pc = "toDTO"
  BY <1>1, PersistFacts
<1>3. Become(p, r)
  BY <1>1 DEF Persist
<1> QED BY <1>2, <1>3, OnlyOne

LEMMA DisableFair ==
  ASSUME IInv, ChargeInv, NEW p \in Handlers, NEW s, Disable(p, s)
  PROVE  ChargeInv'
<1> SUFFICES ASSUME ~torn PROVE CopiesFair'
  BY DEF ChargeInv, Disable, rest
<1>0. CopiesFair
  BY DEF ChargeInv
<1>1. p \in Procs /\ TypeOK /\ g[p].key \in Accounts /\ "loop" \in {"idle", "loop", "saves"}
  BY DEF Procs, IInv, HeldKeys, Disable
<1>2. UNCHANGED <<day, uses, redis, scan>> /\ Persist(p, g[p].key, "loop")
  BY DEF Disable, rest
<1>3. g'[p].pc = "toDTO" /\ \A q \in Procs : q # p => g'[q] = g[q]
  BY <1>1, <1>2, PersistPC
<1>4. ASSUME NEW a \in Accounts
      PROVE  mem'[a].date = mem[a].date /\ mem'[a].used = mem[a].used
  <2>1. mem[a] \in DTO
    BY <1>1 DEF TypeOK
  <2>2. mem'[a] = mem[a] \/ mem'[a] = [mem[a] EXCEPT !.status = s]
    BY <1>1 DEF Disable, TypeOK
  <2> QED BY <2>1, <2>2 DEF DTO
<1>5. \A a \in Accounts : FairCopy(mem'[a], uses[a], day) /\ FairCopy(redis'[a], uses[a], day)
  BY <1>0, <1>2, <1>4 DEF CopiesFair, FairCopy
<1>6. scan'.today <= day
  BY <1>0, <1>2 DEF CopiesFair
<1> QED BY <1>0, <1>1, <1>2, <1>3, <1>5, <1>6, StepFair

LEMMA PickFair ==
  ASSUME IInv, ChargeInv, NEW p \in Handlers, Pick(p)
  PROVE  ChargeInv'
<1> SUFFICES ASSUME ~torn PROVE CopiesFair'
  BY DEF ChargeInv, Pick, rest
<1>0. CopiesFair
  BY DEF ChargeInv
<1>1. p \in Procs /\ TypeOK /\ g[p] \in Goroutine
  BY DEF Procs, IInv, TypeOK
<1>2. UNCHANGED <<day, uses, redis, scan>> /\ Scanned /\ Take(p)
  BY DEF Pick, rest
<1>3. g'[p].pc = "sent" /\ \A q \in Procs : q # p => g'[q] = g[q]
  <2>1. PICK i \in Best : Become(p, Try(Move(g[p], "sent", Ring(i)),
                                        g[p].kind, g[p].left - 1, g[p].n404))
    BY <1>2 DEF Take
  <2>2. PICK r : r = Try(Move(g[p], "sent", Ring(i)), g[p].kind, g[p].left - 1, g[p].n404)
    OBVIOUS
  <2>3. r.pc = "sent"
    BY <1>1, <2>2 DEF Try, Move, Goroutine
  <2> QED BY <1>1, <2>1, <2>2, <2>3, OnlyOne
<1>4. ASSUME NEW a \in Accounts
      PROVE  FairCopy(mem'[a], uses[a], day)
  <2>1. /\ day \in Nat /\ uses[a] \in Nat
        /\ FairCopy(mem[a], uses[a], day)
    BY <1>0, <1>1, DateTypes DEF CopiesFair
  <2>2. mem'[a] = mem[a] \/ (mem'[a].used = 0 /\ mem'[a].date = day)
    BY <1>2 DEF Scanned, NewDay
  <2> QED BY <2>1, <2>2, UnusedFair
<1>5. \A a \in Accounts : FairCopy(mem'[a], uses[a], day) /\ FairCopy(redis'[a], uses[a], day)
  BY <1>0, <1>2, <1>4 DEF CopiesFair
<1>6. scan'.today <= day
  BY <1>0, <1>2 DEF CopiesFair
<1> QED BY <1>0, <1>1, <1>2, <1>3, <1>5, <1>6, StepFair

(* recordUsage counts the use of today that it adds to today's count; the  *)
(* history stops counting only beyond what that count can be.              *)
LEMMA recordUsageFair ==
  ASSUME IInv, ChargeInv, NEW p \in Handlers, recordUsage(p)
  PROVE  ChargeInv'
<1> SUFFICES ASSUME ~torn PROVE CopiesFair'
  BY DEF ChargeInv, recordUsage
<1> DEFINE a == g[p].key
           old == IF mem[a].date = day THEN mem[a].used ELSE 0
<1>0. CopiesFair /\ IInv'
  BY recordUsageStep DEF ChargeInv
<1>1. p \in Procs /\ TypeOK /\ a \in Accounts /\ mem[a] \in DTO /\ "idle" \in {"idle", "loop", "saves"}
  BY DEF Procs, IInv, HeldKeys, recordUsage, TypeOK
<1>2. UNCHANGED <<day, redis, scan>> /\ Persist(p, a, "idle") /\ Counts(a)
  BY DEF recordUsage
<1>3. g'[p].pc = "toDTO" /\ \A q \in Procs : q # p => g'[q] = g[q]
  BY <1>1, <1>2, PersistPC
<1>4. /\ mem'[a].used = old + Counted(a) /\ mem'[a].date = day /\ mem'[a].limit = mem[a].limit
      /\ \A b \in Accounts : b # a => mem'[b] = mem[b]
  <2>1. mem' = [mem EXCEPT ![a] = [mem[a] EXCEPT !.used = old + Counted(a), !.date = day]]
    BY <1>1 DEF recordUsage, TypeOK
  <2> HIDE DEF old
  <2>2. mem'[a] = [mem[a] EXCEPT !.used = old + Counted(a), !.date = day]
        /\ \A b \in Accounts : b # a => mem'[b] = mem[b]
    BY <1>1, <2>1 DEF TypeOK
  <2> QED BY <1>1, <2>2 DEF DTO
<1>5. /\ \A b \in Accounts : b # a => uses'[b] = uses[b]
      /\ uses'[a] = IF uses[a] < mem[a].limit + Cardinality(Handlers)
                    THEN uses[a] + Counted(a) ELSE uses[a]
  BY <1>1, <1>2 DEF Counts, TypeOK
<1>6. /\ day \in Nat /\ Cardinality(Handlers) \in Nat /\ Counted(a) \in {0, 1}
      /\ mem[a].limit \in Nat /\ mem[a].used \in Nat /\ uses[a] \in Nat
      /\ Counted(a) = 1 => mem[a].limit > 0
      /\ mem[a].limit = 0 => Counted(a) = 0
  BY <1>1, HandlersFinite, DateTypes, Numbers DEF Counted
<1>7. \A b \in Accounts : uses[b] \in Nat /\ uses'[b] \in Nat /\ uses[b] <= uses'[b]
  <2>1. \A b \in Accounts : uses[b] \in Nat /\ uses'[b] \in Nat
    BY <1>0, <1>1 DEF IInv, TypeOK
  <2>2. uses[a] <= uses'[a]
    BY <1>5, <1>6
  <2> QED BY <1>5, <2>1, <2>2
<1>8. old <= uses[a] /\ old \in Nat
  <2>1. FairCopy(mem[a], uses[a], day)
    BY <1>0, <1>1 DEF CopiesFair
  <2> QED BY <1>6, <2>1 DEF FairCopy
<1>9. mem[a].limit > 0 => mem'[a].used < mem[a].limit + Cardinality(Handlers)
  <2>0. PICK b \in Accounts : b = a
    BY <1>1
  <2>a. Within(mem'[b], Cardinality(Holders(b)'))
    BY <1>0 DEF IInv, UsesInFlight, Within
  <2>b. Cardinality(Holders(b)') \in Nat
    BY HoldersFinite DEF Holders
  <2>1. PICK n \in Nat : Within(mem'[a], n)
    BY <2>0, <2>a, <2>b
  <2>2. old + Counted(a) \in Nat
    BY <1>6, <1>8
  <2> QED BY <1>4, <1>6, <2>1, <2>2 DEF Within
<1>10. mem'[a].used <= uses'[a]
  BY <1>4, <1>5, <1>6, <1>8, <1>9
<1>11. ASSUME NEW b \in Accounts
       PROVE  FairCopy(mem'[b], uses'[b], day) /\ FairCopy(redis[b], uses'[b], day)
  <2>1. /\ FairCopy(mem[b], uses[b], day) /\ FairCopy(redis[b], uses[b], day)
        /\ redis[b].used \in Nat /\ mem[b].used \in Nat
    BY <1>0, <1>1, DateTypes DEF CopiesFair
  <2>2. FairCopy(redis[b], uses'[b], day)
    BY <1>7, <2>1, StaysFair
  <2>3. CASE b = a
    BY <1>4, <1>6, <1>10, <2>2, <2>3 DEF FairCopy
  <2>4. CASE b # a
    BY <1>4, <1>5, <2>1, <2>2, <2>4
  <2> QED BY <2>3, <2>4
<1>12. SnapshotsFair'
  <2> SUFFICES ASSUME NEW q \in Procs, g'[q].pc \in {"toDTO2", "save"}
               PROVE  FairCopy(g'[q].dto, uses'[g'[q].key], day')
    BY DEF SnapshotsFair
  <2>1. q # p /\ g'[q] = g[q]
    BY <1>3
  <2>2. FairCopy(g[q].dto, uses[g[q].key], day) /\ g[q].key \in Accounts
    BY <1>0, <2>1 DEF CopiesFair, SnapshotsFair, IInv, HeldKeys
  <2>3. g[q].dto.used \in Nat
    BY <1>1, DateTypes
  <2> QED BY <1>2, <1>7, <2>1, <2>2, <2>3, StaysFair
<1> QED BY <1>0, <1>2, <1>11, <1>12 DEF CopiesFair

LEMMA WorkerFair ==
  ASSUME IInv, ChargeInv, StartScan \/ EndScan \/ SaveChanged
  PROVE  ChargeInv'
<1>1. Worker \in Procs /\ UNCHANGED <<rest, mem, redis>> /\ TypeOK
  BY DEF StartScan, EndScan, SaveChanged, Procs, IInv
<1>2. PICK r : Become(Worker, r) /\ r.pc \in {"scan", "saves", "idle", "toDTO"}
  <2>1. Idle.pc = "idle"
    BY IdleType
  <2>2. Move(g[Worker], "scan", NoKey).pc = "scan" /\ Move(g[Worker], "saves", NoKey).pc = "saves"
    BY <1>1, AllPCs, MoveTo
  <2>3. CASE StartScan \/ EndScan
    BY <2>2, <2>3 DEF StartScan, EndScan
  <2>4. CASE SaveChanged /\ scan.changed = <<>>
    BY <2>1, <2>4 DEF SaveChanged, Done
  <2>5. CASE SaveChanged /\ scan.changed # <<>>
    <3>1. Head(scan.changed) \in Accounts /\ "saves" \in {"idle", "loop", "saves"}
      BY <1>1, <2>5, HeadTail DEF TypeOK
    <3>2. Then(Move(g[Worker], "toDTO", Head(scan.changed)), "saves").pc = "toDTO"
      BY <1>1, <3>1, PersistFacts
    <3> QED BY <2>5, <3>2 DEF SaveChanged, Persist
  <2> QED BY <2>3, <2>4, <2>5
<1>3. g'[Worker].pc \notin {"toDTO2", "save"} /\ \A q \in Procs : q # Worker => g'[q] = g[q]
  BY <1>1, <1>2, OnlyOne
<1>4. scan'.today \in {scan.today, day, 0}
  <2>1. scan \in [today : 0..MaxDay, todo : Seq(Accounts), changed : Seq(Accounts)]
    BY <1>1 DEF TypeOK
  <2>2. CASE StartScan
    BY <2>2 DEF StartScan
  <2>3. CASE EndScan
    BY <2>3 DEF EndScan
  <2>4. CASE SaveChanged
    <3>1. scan' = NoScan \/ scan' = [scan EXCEPT !.changed = Tail(@)]
      BY <2>4 DEF SaveChanged
    <3>2. NoScan.today = 0
      BY DEF NoScan
    <3> QED BY <2>1, <3>1, <3>2
  <2> QED BY <2>2, <2>3, <2>4
<1> QED BY <1>1, <1>3, <1>4, QuietStaysFair DEF ChargeInv

(* The worker writes the date it read when it began, of today or earlier,  *)
(* and keeps a count only for the account's own day.                       *)
LEMMA ReenableFair ==
  ASSUME IInv, ChargeInv, ReenableCooldowns
  PROVE  ChargeInv'
<1> SUFFICES ASSUME ~torn PROVE CopiesFair'
  BY DEF ChargeInv, ReenableCooldowns, rest
<1> DEFINE a == Head(scan.todo)
<1>0. CopiesFair
  BY DEF ChargeInv
<1>1. /\ Worker \in Procs /\ TypeOK /\ UNCHANGED <<day, uses, redis, g>>
      /\ scan \in [today : 0..MaxDay, todo : Seq(Accounts), changed : Seq(Accounts)]
  BY DEF ReenableCooldowns, Procs, IInv, TypeOK, rest
<1>2. a \in Accounts
  <2>1. scan.todo \in Seq(Accounts) /\ scan.todo # <<>>
    BY <1>1 DEF ReenableCooldowns
  <2> QED BY <2>1, HeadTail
<1>3. /\ \E s : mem' = [mem EXCEPT ![a] =
                         [status |-> s,
                          used |-> IF mem[a].date # scan.today THEN 0 ELSE mem[a].used,
                          limit |-> mem[a].limit, date |-> scan.today]]
      /\ \E c : scan' = [scan EXCEPT !.todo = Tail(@), !.changed = c]
  BY DEF ReenableCooldowns
<1>4. scan'.today = scan.today
  BY <1>1, <1>3
<1>5. /\ mem'[a].used = IF mem[a].date # scan.today THEN 0 ELSE mem[a].used
      /\ mem'[a].date = scan.today
      /\ \A b \in Accounts : b # a => mem'[b] = mem[b]
  BY <1>1, <1>2, <1>3 DEF TypeOK
<1>6. FairCopy(mem'[a], uses[a], day)
  <2>1. /\ FairCopy(mem[a], uses[a], day) /\ scan.today <= day
        /\ uses[a] \in Nat /\ mem[a].used \in Nat
    BY <1>0, <1>1, <1>2, DateTypes DEF CopiesFair
  <2> QED BY <1>5, <2>1 DEF FairCopy
<1>7. \A b \in Accounts : FairCopy(mem'[b], uses[b], day) /\ FairCopy(redis'[b], uses[b], day)
  BY <1>0, <1>1, <1>5, <1>6 DEF CopiesFair
<1>8. scan'.today <= day
  BY <1>0, <1>4 DEF CopiesFair
<1> HIDE DEF a
<1> QED BY <1>0, <1>1, <1>7, <1>8, StepFair

LEMMA AdminFair ==
  ASSUME IInv, ChargeInv, AddKey \/ DeleteKey \/ DeleteCFKey \/ CleanupDisabled
  PROVE  ChargeInv'
<1> SUFFICES ASSUME ~torn PROVE CopiesFair'
  BY DEF ChargeInv, AddKey, DeleteKey, DeleteCFKey, CleanupDisabled, rest
<1>0. CopiesFair
  BY DEF ChargeInv
<1>1. Admin \in Procs /\ TypeOK /\ UNCHANGED <<day, uses, scan>>
  BY DEF AddKey, DeleteKey, DeleteCFKey, CleanupDisabled, Procs, IInv, rest
<1>2. /\ \A q \in Procs : q # Admin => g'[q] = g[q]
      /\ g'[Admin].pc \notin {"toDTO2", "save"} \/ g'[Admin] = g[Admin]
  <2>1. CASE AddKey
    <3>1. PICK a \in Accounts : Persist(Admin, a, "idle")
      BY <2>1 DEF AddKey
    <3>2. "idle" \in {"idle", "loop", "saves"}
      OBVIOUS
    <3>3. g'[Admin].pc = "toDTO" /\ \A q \in Procs : q # Admin => g'[q] = g[q]
      BY <1>1, <3>1, <3>2, PersistPC
    <3> QED BY <3>3
  <2>2. CASE DeleteKey
    <3>1. PICK a \in Range(keys) : Become(Admin, Move(g[Admin], "delete", a))
      BY <2>2 DEF DeleteKey
    <3>2. a \in Accounts \cup {NoKey} /\ "delete" \in PCs
      BY <1>1, AllPCs DEF TypeOK, Range
    <3>3. PICK r : r = Move(g[Admin], "delete", a)
      OBVIOUS
    <3>4. r.pc = "delete"
      BY <1>1, <3>2, <3>3, MoveTo
    <3> QED BY <1>1, <3>1, <3>3, <3>4, OnlyOne
  <2>3. CASE DeleteCFKey
    BY <1>1, <2>3, IdleType, OnlyOne DEF DeleteCFKey, Done
  <2>4. CASE CleanupDisabled
    BY <2>4 DEF CleanupDisabled
  <2> QED BY <2>1, <2>2, <2>3, <2>4
<1>3. \A a \in Accounts : mem'[a] \in {mem[a], Fresh} /\ redis'[a] \in {redis[a], Absent}
  BY <1>1 DEF AddKey, DeleteKey, DeleteCFKey, CleanupDisabled, TypeOK
<1>4. \A a \in Accounts : FairCopy(mem'[a], uses[a], day) /\ FairCopy(redis'[a], uses[a], day)
  <2>1. \A a \in Accounts : FairCopy(Fresh, uses[a], day) /\ FairCopy(Absent, uses[a], day)
    BY <1>1, DateTypes, NoUses, UnusedFair
  <2> QED BY <1>0, <1>3, <2>1 DEF CopiesFair
<1>5. scan'.today <= day
  BY <1>0, <1>1 DEF CopiesFair
<1> QED BY <1>0, <1>1, <1>2, <1>4, <1>5, StepFair

(* At midnight every copy is of an earlier day, and no use of the new day  *)
(* has been recorded.                                                      *)
LEMMA MidnightFair ==
  ASSUME IInv, ChargeInv, Midnight
  PROVE  ChargeInv'
<1> SUFFICES ASSUME ~torn PROVE CopiesFair'
  BY DEF ChargeInv, Midnight
<1>0. CopiesFair /\ TypeOK
  BY DEF ChargeInv, IInv
<1>1. day' = day + 1 /\ UNCHANGED <<mem, redis, g, scan>>
  BY DEF Midnight
<1>2. ASSUME NEW d, NEW n, NEW m, d.date \in Nat, FairCopy(d, n, day)
      PROVE  FairCopy(d, m, day')
  BY <1>0, <1>1, <1>2, DateTypes DEF FairCopy
<1>3. SnapshotsFair'
  BY <1>0, <1>1, <1>2, DateTypes DEF CopiesFair, SnapshotsFair
<1>4. \A a \in Accounts : FairCopy(mem'[a], uses'[a], day') /\ FairCopy(redis'[a], uses'[a], day')
  BY <1>0, <1>1, <1>2, DateTypes DEF CopiesFair
<1>5. scan'.today <= day'
  BY <1>0, <1>1, DateTypes DEF CopiesFair
<1> QED BY <1>3, <1>4, <1>5 DEF CopiesFair

LEMMA RestartFair ==
  ASSUME IInv, ChargeInv, Restart
  PROVE  ChargeInv'
<1> SUFFICES ASSUME ~torn PROVE CopiesFair'
  BY DEF ChargeInv, Restart
<1>0. CopiesFair /\ TypeOK
  BY DEF ChargeInv, IInv
<1>1. /\ UNCHANGED <<day, uses>> /\ scan' = NoScan /\ g' = [p \in Procs |-> Idle]
      /\ LoadFromRedis
  BY DEF Restart
<1>2. SnapshotsFair'
  BY <1>1, IdleType DEF SnapshotsFair
<1>3. scan'.today <= day'
  BY <1>0, <1>1, DateTypes DEF NoScan
<1>4. \A a \in Accounts : mem'[a] \in {redis[a], Fresh} /\ redis'[a] \in {redis[a], Fresh}
  BY <1>0, <1>1, LoadFacts
<1>5. \A a \in Accounts : FairCopy(Fresh, uses[a], day)
  BY <1>0, DateTypes, NoUses, UnusedFair
<1> QED BY <1>0, <1>1, <1>2, <1>3, <1>4, <1>5 DEF CopiesFair

LEMMA InitCharge ==
  ASSUME Init
  PROVE  ChargeInv
<1>1. /\ day = 1 /\ scan.today = 0
      /\ \A a \in Accounts : uses[a] = 0
      /\ \A p \in Procs : g[p].pc = "idle"
  BY IdleType DEF Init, NoScan
<1>2. \A a \in Accounts : /\ mem[a].used = 0 /\ mem[a].date = 0
                          /\ redis[a].used = 0 /\ redis[a].date = 0
  <2>1. PICK limit \in Limits : mem = [a \in Accounts |-> Unused(limit[a])]
    BY DEF Init
  <2>2. \A a \in Accounts : mem[a].used = 0 /\ mem[a].date = 0
    BY <2>1 DEF Unused
  <2>3. \A a \in Accounts : redis[a] \in {mem[a], Absent}
    BY DEF Init
  <2> QED BY <2>2, <2>3, NoUses
<1> QED BY <1>1, <1>2 DEF ChargeInv, CopiesFair, SnapshotsFair, FairCopy

LEMMA NextCharge ==
  ASSUME IInv, ChargeInv, [Next]_vars
  PROVE  ChargeInv'
<1>1. CASE \E p \in Handlers : Start(p) \/ Handler(p)
  <2>1. PICK p \in Handlers : Start(p) \/ Handler(p)
    BY <1>1
  <2>2. CASE \/ Start(p) \/ GiveUp(p) \/ TryAnother(p) \/ NotFound(p) \/ RunAnswered(p)
    BY <2>2, QuietHandlerFair
  <2>3. CASE Pick(p)
    BY <2>3, PickFair
  <2>4. CASE permanentDisableCF(p) \/ cooldownDisableCF(p)
    BY <2>4, DisableFair DEF permanentDisableCF, cooldownDisableCF
  <2>5. CASE recordUsage(p)
    BY <2>5, recordUsageFair
  <2> QED BY <2>1, <2>2, <2>3, <2>4, <2>5 DEF Handler
<1>2. CASE \E p \in Procs : Saver(p)
  BY <1>2, SaverFair
<1>3. CASE StartScan \/ Scan
  BY <1>3, WorkerFair, ReenableFair DEF Scan
<1>4. CASE AddKey \/ DeleteKey \/ DeleteCFKey \/ CleanupDisabled
  BY <1>4, AdminFair
<1>5. CASE Midnight \/ Restart
  BY <1>5, MidnightFair, RestartFair
<1>6. CASE UNCHANGED vars
  BY <1>6 DEF vars, ChargeInv, CopiesFair, SnapshotsFair
<1> QED BY <1>1, <1>2, <1>3, <1>4, <1>5, <1>6 DEF Next

(* ChargedForTodayOnly for every pool: as long as no snapshot mixed two    *)
(* days, an account is charged today for no more than today's uses,        *)
(* wherever midnight falls between Next, recordUsage, the worker's scan, a *)
(* save and a restart.                                                     *)
THEOREM ChargedForTodayOnlyHolds == Spec => []ChargedForTodayOnly
<1>1. Init => ChargeInv
  BY InitCharge
<1>2. IInv /\ ChargeInv /\ [Next]_vars => ChargeInv'
  BY NextCharge
<1>3. IInv /\ ChargeInv => ChargedForTodayOnly
  <2> SUFFICES ASSUME IInv, CopiesFair, NEW a \in Range(keys), mem[a].date = day
               PROVE  mem[a].used <= uses[a]
    BY DEF ChargeInv, ChargedForTodayOnly
  <2>1. a \in Accounts
    BY DEF IInv, TypeOK, Range
  <2> QED BY <2>1 DEF CopiesFair, FairCopy
<1> QED BY <1>1, <1>2, <1>3, PoolInvariant, PTL DEF Spec
=============================================================================
