------------------------- MODULE CodeBuddyKeyProofs -------------------------
(***************************************************************************)
(* Proofs about one CodeBuddy credential, for every number of handlers,    *)
(* objects, answers and restarts, whether or not a write to Redis may time *)
(* out: an undisturbed save leaves Redis with the key as it is in memory,  *)
(* and the credits counted twice are at most the requests in flight.       *)
(***************************************************************************)
EXTENDS CodeBuddyKey, FiniteSetTheorems, TLAPS

KeyRecord == [status : {"enabled", "cooldown", "permanent"}, used : Nat]
ReturnPoints == {"idle", "sent", "resent", "tail", "meter"}
Points == ReturnPoints \cup {"stream", "scan", "fetched", "toDTO", "save", "delete"}
Holders == Objs \cup {NoObj}

KeyTypes ==
  /\ mem \in [Objs -> KeyRecord] /\ cur \in Holders /\ redis \in KeyRecord \cup {Absent}
  /\ pc \in [Procs -> Points] /\ obj \in [Procs -> Holders]
  /\ dto \in [Procs -> KeyRecord] /\ then \in [Procs -> ReturnPoints]
  /\ meter \in Nat /\ billed \in Nat
  /\ alone \subseteq Procs

(* A goroutine at work holds an object; the operator holds none while it   *)
(* deletes, and the pool is then without the credential.                   *)
HoldsObject ==
  \A p \in Procs :
    /\ pc[p] \notin {"idle", "delete"} => obj[p] \in Objs
    /\ pc[p] = "delete" => p = Admin /\ cur = NoObj

(* A save marked alone is the only one under way. *)
AloneSaves ==
  \A p \in alone : Saving(p) /\ \A q \in Procs \ {p} : ~Saving(q)

(* Since the snapshot of a save that is alone nobody changed the object:   *)
(* whoever changes it saves it, too.                                       *)
SnapshotCurrent ==
  \A p \in alone : pc[p] = "save" => dto[p] = mem[obj[p]]

(* The handlers whose answer is billed and may yet be counted. *)
AwaitsCount(p) ==
  \/ pc[p] \in {"stream", "tail"}
  \/ pc[p] \in {"toDTO", "save"} /\ then[p] = "tail"
Pending == {p \in Handlers : AwaitsCount(p)}

(* Each object counted at most what is billed and not yet to be counted,   *)
(* and what a sync read before its answers were.                           *)
CountedOnce ==
  /\ meter <= billed
  /\ \A o \in Objs : mem[o].used + Cardinality(Pending) <= billed + Cardinality(Handlers)

(* The copies of the key that a restart, or a late save, brings back. *)
CopiesCounted ==
  /\ redis.used <= billed + Cardinality(Handlers)
  /\ \A p \in Procs : dto[p].used <= billed + Cardinality(Handlers)

KeyInv ==
  /\ KeyTypes /\ HoldsObject
  /\ AloneSaves /\ SnapshotCurrent /\ PersistedUnlessRaced
  /\ CountedOnce /\ CopiesCounted

-----------------------------------------------------------------------------
(* Facts that several steps use. *)

LEMMA KeyRecords ==
  /\ Fresh \in KeyRecord /\ Fresh.used = 0 /\ Absent.used = 0
  /\ \A r \in KeyRecord : r.used \in Nat /\ r # Absent
  /\ \A r \in KeyRecord \cup {Absent} : r.used \in Nat
  BY DEF Fresh, Absent, KeyRecord

LEMMA PendingCount ==
  /\ Cardinality(Handlers) \in Nat /\ Cardinality(Pending) \in Nat
  /\ Cardinality(Pending) <= Cardinality(Handlers) /\ IsFiniteSet(Pending)
<1>1. IsFiniteSet(Handlers) /\ Pending \subseteq Handlers
  BY KeyAssumption DEF Pending
<1> QED BY <1>1, FS_Subset, FS_CardinalityType

LEMMA PendingCountNext ==
  /\ Cardinality(Pending') \in Nat /\ Cardinality(Pending') <= Cardinality(Handlers)
  /\ (Pending' \subseteq Pending => Cardinality(Pending') <= Cardinality(Pending))
<1>1. IsFiniteSet(Handlers) /\ Pending' \subseteq Handlers
  BY KeyAssumption DEF Pending
<1>2. Cardinality(Pending') \in Nat /\ Cardinality(Pending') <= Cardinality(Handlers)
  BY <1>1, FS_Subset, FS_CardinalityType
<1>3. Pending' \subseteq Pending => Cardinality(Pending') <= Cardinality(Pending)
  BY PendingCount, FS_Subset
<1> QED BY <1>2, <1>3

(* A goroutine that goes on leaves the others where they are. *)
LEMMA OthersStay ==
  ASSUME KeyTypes, NEW p \in Procs, NEW l \in Points, Goto(p, l)
  PROVE  /\ pc' \in [Procs -> Points] /\ pc'[p] = l
         /\ \A q \in Procs \ {p} : pc'[q] = pc[q]
  BY DEF KeyTypes, Goto

LEMMA ShapeKept ==
  ASSUME KeyInv, NEW p \in Procs, NEW l \in Points, Goto(p, l),
         mem' \in [Objs -> KeyRecord], cur' \in Holders, redis' \in KeyRecord \cup {Absent},
         obj' \in [Procs -> Holders], dto' \in [Procs -> KeyRecord],
         then' \in [Procs -> ReturnPoints], meter' \in Nat, billed' \in Nat,
         alone' \subseteq Procs,
         \A q \in Procs \ {p} : obj'[q] = obj[q],
         l \notin {"idle", "delete"} => obj'[p] \in Objs,
         l = "delete" => p = Admin /\ cur' = NoObj,
         cur' = cur \/ p = Admin
  PROVE  KeyTypes' /\ HoldsObject'
<1>1. /\ pc' \in [Procs -> Points] /\ pc'[p] = l
      /\ \A q \in Procs \ {p} : pc'[q] = pc[q]
  BY OthersStay DEF KeyInv
<1>2. KeyTypes'
  BY <1>1 DEF KeyTypes
<1>3. ASSUME NEW q \in Procs
      PROVE  /\ pc'[q] \notin {"idle", "delete"} => obj'[q] \in Objs
             /\ pc'[q] = "delete" => q = Admin /\ cur' = NoObj
  <2>1. CASE q = p
    BY <1>1, <2>1
  <2>2. CASE q # p
    <3>1. pc'[q] = pc[q] /\ obj'[q] = obj[q]
      BY <1>1, <2>2
    <3>2. /\ pc[q] \notin {"idle", "delete"} => obj[q] \in Objs
          /\ pc[q] = "delete" => q = Admin /\ cur = NoObj
      BY DEF KeyInv, HoldsObject
    <3> QED BY <2>2, <3>1, <3>2
  <2> QED BY <2>1, <2>2
<1> QED BY <1>2, <1>3 DEF HoldsObject

LEMMA NoMorePending ==
  ASSUME KeyTypes, NEW p \in Procs, NEW l \in Points, Goto(p, l),
         \A q \in Procs \ {p} : then'[q] = then[q],
         AwaitsCount(p)' => AwaitsCount(p)
  PROVE  Pending' \subseteq Pending
<1>1. /\ pc'[p] = l /\ \A q \in Procs \ {p} : pc'[q] = pc[q]
  BY OthersStay
<1>2. ASSUME NEW q \in Handlers, AwaitsCount(q)' PROVE AwaitsCount(q)
  <2>1. CASE q = p
    BY <1>2, <2>1
  <2>2. CASE q # p
    <3>1. pc'[q] = pc[q] /\ then'[q] = then[q]
      BY <1>1, <2>2 DEF Procs
    <3> QED BY <1>2, <3>1 DEF AwaitsCount
  <2> QED BY <2>1, <2>2
<1> QED BY <1>2 DEF Pending

(* Counts that are not raised, or are set to what is billed. *)
LEMMA CountsKept ==
  ASSUME KeyInv, KeyTypes', billed <= billed', meter' <= billed', Pending' \subseteq Pending,
         \A o \in Objs : mem'[o].used <= mem[o].used \/ mem'[o].used <= billed
  PROVE  CountedOnce'
<1>1. PICK H \in Nat, n \in Nat, m \in Nat, b \in Nat, c \in Nat :
        /\ H = Cardinality(Handlers) /\ n = Cardinality(Pending) /\ m = Cardinality(Pending')
        /\ b = billed /\ c = billed'
  BY PendingCount, PendingCountNext DEF KeyInv, KeyTypes
<1>2. m <= n /\ m <= H /\ b <= c
  BY <1>1, PendingCountNext
<1>3. ASSUME NEW o \in Objs PROVE mem'[o].used + m <= c + H
  <2>1. PICK u \in Nat, v \in Nat : u = mem[o].used /\ v = mem'[o].used
    BY KeyRecords DEF KeyInv, KeyTypes
  <2>2. u + n <= b + H
    BY <1>1, <2>1 DEF KeyInv, CountedOnce
  <2>3. v <= u \/ v <= b
    BY <1>1, <2>1
  <2>4. v + m <= c + H
    BY <1>2, <2>2, <2>3
  <2> QED BY <2>1, <2>4
<1> QED BY <1>1, <1>3 DEF CountedOnce

LEMMA CopiesKept ==
  ASSUME KeyInv, billed' \in Nat, billed <= billed', UNCHANGED <<redis, dto>>
  PROVE  CopiesCounted'
<1>1. PICK H \in Nat, b \in Nat, c \in Nat :
        H = Cardinality(Handlers) /\ b = billed /\ c = billed' /\ b <= c
  BY PendingCount DEF KeyInv, KeyTypes
<1>2. redis.used <= b + H /\ redis.used \in Nat
  BY <1>1, KeyRecords DEF KeyInv, CopiesCounted, KeyTypes
<1>3. ASSUME NEW p \in Procs PROVE dto[p].used <= b + H /\ dto[p].used \in Nat
  BY <1>1, KeyRecords DEF KeyInv, CopiesCounted, KeyTypes
<1>4. ASSUME NEW u \in Nat, u <= b + H PROVE u <= c + H
  BY <1>1, <1>4
<1> QED BY <1>1, <1>2, <1>3, <1>4 DEF CopiesCounted

(* A save, or a delete, that begins: it is the only one, or nobody is      *)
(* alone any more, and until it ends nothing is claimed of Redis.          *)
LEMMA SaveBegins ==
  ASSUME KeyInv, NEW p \in Procs, NEW l \in {"toDTO", "delete"}, Goto(p, l), BeginSave(p)
  PROVE  AloneSaves' /\ SnapshotCurrent' /\ PersistedUnlessRaced' /\ alone' \subseteq Procs
<1>1. /\ pc'[p] = l /\ \A q \in Procs \ {p} : pc'[q] = pc[q]
  BY OthersStay DEF KeyInv, Points
<1>2. Saving(p)' /\ \A q \in Procs \ {p} : Saving(q)' <=> Saving(q)
  BY <1>1 DEF Saving
<1>3. alone' \subseteq {p} /\ (p \in alone' => \A q \in Procs \ {p} : ~Saving(q))
  BY DEF BeginSave, OthersSaving
<1>4. AloneSaves'
  BY <1>2, <1>3 DEF AloneSaves
<1>5. SnapshotCurrent'
  BY <1>1, <1>3 DEF SnapshotCurrent
<1>6. PersistedUnlessRaced'
  BY <1>2 DEF PersistedUnlessRaced
<1> QED BY <1>3, <1>4, <1>5, <1>6

(* A step of a goroutine that does not save. *)
LEMMA NoSaveBegins ==
  ASSUME KeyInv, NEW p \in Procs, NEW l \in Points \ {"toDTO", "save", "delete"},
         Goto(p, l), ~Saving(p), UNCHANGED <<key, dto, saves>>,
         \A q \in Procs \ {p} : obj'[q] = obj[q]
  PROVE  AloneSaves' /\ SnapshotCurrent' /\ PersistedUnlessRaced'
<1>1. /\ pc'[p] = l /\ \A q \in Procs \ {p} : pc'[q] = pc[q]
  BY OthersStay DEF KeyInv
<1>2. ~Saving(p)' /\ \A q \in Procs : Saving(q)' <=> Saving(q)
  BY <1>1 DEF Saving
<1>3. UNCHANGED <<mem, cur, redis, alone, raced>>
  BY DEF key, saves
<1>4. p \notin alone /\ alone \subseteq Procs
  BY DEF KeyInv, AloneSaves, KeyTypes
<1>5. AloneSaves'
  BY <1>2, <1>3, <1>4 DEF KeyInv, AloneSaves
<1>6. SnapshotCurrent'
  BY <1>1, <1>3, <1>4 DEF KeyInv, SnapshotCurrent
<1>7. PersistedUnlessRaced'
  BY <1>2, <1>3 DEF KeyInv, PersistedUnlessRaced, Current
<1> QED BY <1>5, <1>6, <1>7

-----------------------------------------------------------------------------
(* The steps *)

(* A goroutine that changed the key, or refreshed its token, and saves it. *)
LEMMA PersistStep ==
  ASSUME KeyInv, NEW p \in Procs, NEW l \in ReturnPoints, Persist(p, l),
         mem' \in [Objs -> KeyRecord], cur' \in Holders, cur' = cur \/ p = Admin,
         obj' \in [Procs -> Holders], obj'[p] \in Objs,
         \A q \in Procs \ {p} : obj'[q] = obj[q],
         UNCHANGED <<redis, meter, billed>>,
         l = "tail" => AwaitsCount(p),
         \A o \in Objs : mem'[o].used <= mem[o].used \/ mem'[o].used <= billed
  PROVE  KeyInv'
<1>1. /\ Goto(p, "toDTO") /\ BeginSave(p) /\ UNCHANGED dto /\ "toDTO" \in Points
      /\ then' = [then EXCEPT ![p] = l]
  BY DEF Persist, Points
<1>2. /\ then' \in [Procs -> ReturnPoints] /\ then'[p] = l
      /\ \A q \in Procs \ {p} : then'[q] = then[q]
  BY <1>1 DEF KeyInv, KeyTypes
<1>3. AloneSaves' /\ SnapshotCurrent' /\ PersistedUnlessRaced' /\ alone' \subseteq Procs
  BY <1>1, SaveBegins
<1>4. /\ redis' \in KeyRecord \cup {Absent} /\ dto' \in [Procs -> KeyRecord]
      /\ meter' \in Nat /\ billed' \in Nat /\ billed <= billed' /\ meter' <= billed'
  BY <1>1 DEF KeyInv, KeyTypes, CountedOnce
<1>5. KeyTypes' /\ HoldsObject'
  BY <1>1, <1>2, <1>3, <1>4, ShapeKept
<1>6. AwaitsCount(p)' => AwaitsCount(p)
  <2>1. pc'[p] = "toDTO"
    BY <1>1, OthersStay DEF KeyInv
  <2> QED BY <1>2, <2>1 DEF AwaitsCount
<1>7. Pending' \subseteq Pending
  BY <1>1, <1>2, <1>6, NoMorePending DEF KeyInv
<1>8. CountedOnce'
  BY <1>4, <1>5, <1>7, CountsKept
<1>9. CopiesCounted'
  BY <1>1, <1>4, CopiesKept
<1> QED BY <1>3, <1>5, <1>8, <1>9 DEF KeyInv

(* The object a goroutine already holds. *)
LEMMA HeldObject ==
  ASSUME KeyInv, NEW p \in Procs, pc[p] \notin {"idle", "delete"}
  PROVE  obj[p] \in Objs /\ mem[obj[p]] \in KeyRecord
  BY DEF KeyInv, KeyTypes, HoldsObject

(* A change of the object held. *)
LEMMA HeldChanges ==
  ASSUME KeyInv, NEW p \in Procs, NEW l \in ReturnPoints, Persist(p, l),
         pc[p] \notin {"idle", "delete"}, NEW r \in KeyRecord,
         mem' = [mem EXCEPT ![obj[p]] = r],
         UNCHANGED <<cur, redis, obj, meter, billed>>,
         l = "tail" => AwaitsCount(p),
         r.used <= mem[obj[p]].used \/ r.used <= billed
  PROVE  KeyInv'
<1>1. PICK o \in Objs : o = obj[p]
  BY HeldObject
<1>2. /\ mem' \in [Objs -> KeyRecord] /\ mem'[o] = r
      /\ \A x \in Objs \ {o} : mem'[x] = mem[x]
  BY <1>1 DEF KeyInv, KeyTypes
<1>3. ASSUME NEW x \in Objs PROVE mem'[x].used <= mem[x].used \/ mem'[x].used <= billed
  <2>1. CASE x = o
    BY <1>1, <1>2, <2>1
  <2>2. CASE x # o
    <3>1. mem'[x] = mem[x] /\ mem[x].used \in Nat
      BY <1>2, <2>2, KeyRecords DEF KeyInv, KeyTypes
    <3> QED BY <3>1
  <2> QED BY <2>1, <2>2
<1>4. /\ obj' \in [Procs -> Holders] /\ obj'[p] \in Objs /\ cur' \in Holders
      /\ \A q \in Procs \ {p} : obj'[q] = obj[q]
  BY <1>1 DEF KeyInv, KeyTypes
<1> QED BY <1>2, <1>3, <1>4, PersistStep

(* The object of the pool is taken up, and saved. *)
LEMMA PickedSaved ==
  ASSUME KeyInv, NEW p \in Procs, NEW l \in ReturnPoints, Persist(p, l), l # "tail",
         cur \in Objs, obj' = [obj EXCEPT ![p] = cur],
         mem' \in [Objs -> KeyRecord],
         \A o \in Objs : mem'[o].used <= mem[o].used \/ mem'[o].used <= billed,
         UNCHANGED <<cur, redis, meter, billed>>
  PROVE  KeyInv'
<1>1. /\ obj' \in [Procs -> Holders] /\ obj'[p] \in Objs /\ cur' \in Holders
      /\ \A q \in Procs \ {p} : obj'[q] = obj[q]
  BY DEF KeyInv, KeyTypes, Holders
<1> QED BY <1>1, PersistStep

LEMMA MemUnchanged ==
  ASSUME KeyInv, UNCHANGED mem
  PROVE  /\ mem' \in [Objs -> KeyRecord]
         /\ \A o \in Objs : mem'[o].used <= mem[o].used \/ mem'[o].used <= billed
  BY KeyRecords DEF KeyInv, KeyTypes

(* A goroutine that only goes on. *)
LEMMA GoesOn ==
  ASSUME KeyInv, NEW p \in Procs, NEW l \in Points \ {"toDTO", "save", "delete"},
         Goto(p, l), ~Saving(p), UNCHANGED <<key, dto, then, saves, billed>>,
         meter' \in Nat, meter' <= billed,
         obj' \in [Procs -> Holders], \A q \in Procs \ {p} : obj'[q] = obj[q],
         l # "idle" => obj'[p] \in Objs,
         l \notin {"stream", "tail"}
  PROVE  KeyInv'
<1>1. UNCHANGED <<mem, cur, redis, alone, raced>>
  BY DEF key, saves
<1>2. AloneSaves' /\ SnapshotCurrent' /\ PersistedUnlessRaced'
  BY NoSaveBegins
<1>3. /\ mem' \in [Objs -> KeyRecord] /\ cur' \in Holders /\ redis' \in KeyRecord \cup {Absent}
      /\ dto' \in [Procs -> KeyRecord] /\ then' \in [Procs -> ReturnPoints]
      /\ billed' \in Nat /\ alone' \subseteq Procs /\ billed <= billed' /\ meter' <= billed'
  BY <1>1 DEF KeyInv, KeyTypes
<1>4. KeyTypes' /\ HoldsObject'
  BY <1>1, <1>3, ShapeKept
<1>5. AwaitsCount(p)' => AwaitsCount(p)
  <2>1. pc'[p] = l
    BY OthersStay DEF KeyInv
  <2> QED BY <2>1 DEF AwaitsCount, Points, ReturnPoints
<1>6. Pending' \subseteq Pending
  BY <1>5, NoMorePending DEF KeyInv
<1>7. \A o \in Objs : mem'[o].used <= mem[o].used \/ mem'[o].used <= billed
  BY <1>1, MemUnchanged
<1>8. CountedOnce'
  BY <1>3, <1>4, <1>6, <1>7, CountsKept
<1>9. CopiesCounted'
  BY <1>1, <1>3, CopiesKept
<1> QED BY <1>2, <1>4, <1>8, <1>9 DEF KeyInv

(* A goroutine that turns away from the key. *)
LEMMA TurnsAway ==
  ASSUME KeyInv, NEW p \in Procs, Done(p), ~Saving(p), UNCHANGED <<key, saves, meter, billed>>
  PROVE  KeyInv'
<1>1. /\ Goto(p, "idle") /\ UNCHANGED <<dto, then>> /\ "idle" \in Points \ {"toDTO", "save", "delete"}
      /\ obj' = [obj EXCEPT ![p] = NoObj]
  BY DEF Done, Points, ReturnPoints
<1>2. obj' \in [Procs -> Holders] /\ \A q \in Procs \ {p} : obj'[q] = obj[q]
  BY <1>1 DEF KeyInv, KeyTypes, Holders
<1>3. meter' \in Nat /\ meter' <= billed
  BY DEF KeyInv, KeyTypes, CountedOnce
<1> QED BY <1>1, <1>2, <1>3, GoesOn

LEMMA toDTOKeeps ==
  ASSUME KeyInv, NEW p \in Procs, toDTO(p)
  PROVE  KeyInv'
<1>1. /\ Goto(p, "save") /\ pc[p] = "toDTO" /\ "save" \in Points
      /\ UNCHANGED <<mem, cur, redis, obj, then, meter, billed, alone, raced>>
      /\ dto' = [dto EXCEPT ![p] = mem[obj[p]]]
  BY DEF toDTO, key, hist, saves, Points
<1>2. PICK r \in KeyRecord : r = mem[obj[p]]
  BY <1>1, HeldObject
<1>3. /\ dto' \in [Procs -> KeyRecord] /\ dto'[p] = r
      /\ \A q \in Procs \ {p} : dto'[q] = dto[q]
  BY <1>1, <1>2 DEF KeyInv, KeyTypes
<1>4. /\ pc'[p] = "save" /\ \A q \in Procs \ {p} : pc'[q] = pc[q]
  BY <1>1, OthersStay DEF KeyInv
<1>5. /\ mem' \in [Objs -> KeyRecord] /\ cur' \in Holders /\ redis' \in KeyRecord \cup {Absent}
      /\ obj' \in [Procs -> Holders] /\ then' \in [Procs -> ReturnPoints] /\ obj'[p] \in Objs
      /\ meter' \in Nat /\ billed' \in Nat /\ alone' \subseteq Procs
      /\ billed <= billed' /\ meter' <= billed' /\ obj' = obj
  BY <1>1, HeldObject DEF KeyInv, KeyTypes, CountedOnce
<1>6. KeyTypes' /\ HoldsObject'
  BY <1>1, <1>3, <1>5, ShapeKept
<1>7. \A q \in Procs : Saving(q)' <=> Saving(q)
  BY <1>1, <1>4 DEF Saving
<1>8. AloneSaves'
  BY <1>1, <1>7 DEF KeyInv, KeyTypes, AloneSaves
<1>9. SnapshotCurrent'
  BY <1>1, <1>2, <1>3, <1>4 DEF KeyInv, KeyTypes, SnapshotCurrent
<1>10. PersistedUnlessRaced'
  BY <1>1, <1>7 DEF KeyInv, PersistedUnlessRaced, Current
<1>11. AwaitsCount(p)' => AwaitsCount(p)
  BY <1>1, <1>4 DEF AwaitsCount
<1>12. Pending' \subseteq Pending
  BY <1>1, <1>11, NoMorePending DEF KeyInv
<1>13. CountedOnce'
  BY <1>1, <1>5, <1>6, <1>12, CountsKept, MemUnchanged
<1>14. CopiesCounted'
  <2>1. PICK H \in Nat, n \in Nat, b \in Nat, u \in Nat :
          H = Cardinality(Handlers) /\ n = Cardinality(Pending) /\ b = billed /\ u = r.used
    BY PendingCount, KeyRecords DEF KeyInv, KeyTypes
  <2>2. u + n <= b + H
    BY <1>1, <1>2, <2>1, HeldObject DEF KeyInv, CountedOnce
  <2>3. u <= b + H
    BY <2>2
  <2> QED BY <1>1, <1>3, <2>1, <2>3 DEF KeyInv, CopiesCounted
<1> QED BY <1>6, <1>8, <1>9, <1>10, <1>13, <1>14 DEF KeyInv

(* A write to Redis that ends a save or a delete. *)
LEMMA WriteEnds ==
  ASSUME KeyInv, NEW p \in Procs, Saving(p), NEW l \in ReturnPoints, Goto(p, l),
         alone' = {}, UNCHANGED <<mem, cur, dto, then, meter, billed>>,
         redis' \in KeyRecord \cup {Absent}, redis'.used <= billed + Cardinality(Handlers),
         ~raced' => p \in alone /\ redis' = Current,
         obj' \in [Procs -> Holders], \A q \in Procs \ {p} : obj'[q] = obj[q],
         l # "idle" => obj'[p] \in Objs,
         l = "tail" => AwaitsCount(p)
  PROVE  KeyInv'
<1>1. /\ l \in Points /\ mem' \in [Objs -> KeyRecord] /\ cur' \in Holders
      /\ dto' \in [Procs -> KeyRecord] /\ then' \in [Procs -> ReturnPoints]
      /\ meter' \in Nat /\ billed' \in Nat /\ alone' \subseteq Procs
      /\ billed <= billed' /\ meter' <= billed'
  BY DEF KeyInv, KeyTypes, CountedOnce, Points
<1>2. KeyTypes' /\ HoldsObject'
  <2>1. l # "delete"
    BY DEF ReturnPoints
  <2> QED BY <1>1, <2>1, ShapeKept
<1>3. /\ pc'[p] = l /\ \A q \in Procs \ {p} : pc'[q] = pc[q]
  BY <1>1, OthersStay DEF KeyInv
<1>4. AloneSaves' /\ SnapshotCurrent'
  BY DEF AloneSaves, SnapshotCurrent
<1>5. PersistedUnlessRaced'
  BY DEF PersistedUnlessRaced, Current
<1>6. AwaitsCount(p)' => AwaitsCount(p)
  BY <1>3 DEF AwaitsCount, ReturnPoints
<1>7. Pending' \subseteq Pending
  BY <1>1, <1>6, NoMorePending DEF KeyInv
<1>8. CountedOnce'
  BY <1>1, <1>2, <1>7, CountsKept, MemUnchanged
<1>9. CopiesCounted'
  BY DEF KeyInv, CopiesCounted
<1> QED BY <1>2, <1>4, <1>5, <1>8, <1>9 DEF KeyInv

LEMMA saveCBKeyKeeps ==
  ASSUME KeyInv, NEW p \in Procs, saveCBKey(p)
  PROVE  KeyInv'
<1>1. /\ pc[p] = "save" /\ Saving(p) /\ alone' = {}
      /\ UNCHANGED <<mem, cur, dto, then, meter, billed>> /\ Goto(p, then[p])
      /\ obj' = [obj EXCEPT ![p] = IF then[p] = "idle" THEN NoObj ELSE obj[p]]
  BY DEF saveCBKey, AfterSave, Saving
<1>2. PICK l \in ReturnPoints : l = then[p]
  BY DEF KeyInv, KeyTypes
<1>3. obj[p] \in Objs
  BY <1>1, HeldObject
<1>4. /\ obj' \in [Procs -> Holders] /\ \A q \in Procs \ {p} : obj'[q] = obj[q]
      /\ l # "idle" => obj'[p] \in Objs
  <2>1. PICK o \in Holders : o = (IF l = "idle" THEN NoObj ELSE obj[p]) /\ (l # "idle" => o \in Objs)
    BY <1>3 DEF Holders
  <2>2. obj' = [obj EXCEPT ![p] = o]
    BY <1>1, <1>2, <2>1
  <2> QED BY <2>1, <2>2 DEF KeyInv, KeyTypes
<1>5. l = "tail" => AwaitsCount(p)
  BY <1>1, <1>2 DEF AwaitsCount
<1>6. CASE redis' = dto[p] /\ raced' = (p \notin alone \/ obj[p] # cur)
  <2>1. redis' \in KeyRecord \cup {Absent} /\ redis'.used <= billed + Cardinality(Handlers)
    BY <1>6 DEF KeyInv, KeyTypes, CopiesCounted
  <2>2. ~raced' => p \in alone /\ obj[p] = cur
    BY <1>6, Zenon
  <2>3. p \in alone => redis' = mem[obj[p]]
    BY <1>1, <1>6 DEF KeyInv, SnapshotCurrent
  <2>4. ~raced' => p \in alone /\ redis' = Current
    BY <1>3, <2>2, <2>3, KeyAssumption DEF Current
  <2> QED BY <1>1, <1>2, <1>4, <1>5, <2>1, <2>4, WriteEnds
<1>7. CASE UNCHANGED redis /\ raced' = TRUE
  <2>1. redis' \in KeyRecord \cup {Absent} /\ redis'.used <= billed + Cardinality(Handlers)
    BY <1>7 DEF KeyInv, KeyTypes, CopiesCounted
  <2> QED BY <1>1, <1>2, <1>4, <1>5, <1>7, <2>1, WriteEnds
<1> QED BY <1>6, <1>7 DEF saveCBKey

LEMMA DeleteCBKeyKeeps ==
  ASSUME KeyInv, DeleteCBKey
  PROVE  KeyInv'
<1>1. /\ Admin \in Procs /\ pc[Admin] = "delete" /\ Saving(Admin) /\ alone' = {}
      /\ UNCHANGED <<mem, cur, dto, then, meter, billed>> /\ Goto(Admin, "idle")
      /\ obj' = [obj EXCEPT ![Admin] = NoObj] /\ "idle" \in ReturnPoints
  BY DEF DeleteCBKey, Done, Saving, Procs, ReturnPoints
<1>2. obj' \in [Procs -> Holders] /\ \A q \in Procs \ {Admin} : obj'[q] = obj[q]
  BY <1>1 DEF KeyInv, KeyTypes, Holders
<1>3. Current = Absent
  BY <1>1 DEF KeyInv, HoldsObject, Current
<1>4. CASE redis' = Absent /\ raced' = (Admin \notin alone)
  <2>1. redis' \in KeyRecord \cup {Absent} /\ redis'.used <= billed + Cardinality(Handlers)
    BY <1>4, KeyRecords, PendingCount DEF KeyInv, KeyTypes
  <2>2. ~raced' => Admin \in alone
    BY <1>4, Zenon
  <2> QED BY <1>1, <1>2, <1>3, <1>4, <2>1, <2>2, WriteEnds
<1>5. CASE UNCHANGED redis /\ raced' = TRUE
  <2>1. redis' \in KeyRecord \cup {Absent} /\ redis'.used <= billed + Cardinality(Handlers)
    BY <1>5 DEF KeyInv, KeyTypes, CopiesCounted
  <2> QED BY <1>1, <1>2, <1>5, <2>1, WriteEnds
<1> QED BY <1>4, <1>5 DEF DeleteCBKey

(* The object of the pool is taken up, and nothing saved. *)
LEMMA PickedUnsaved ==
  ASSUME KeyInv, NEW p \in Procs, NEW l \in {"sent", "scan", "meter"}, Goto(p, l),
         pc[p] = "idle", cur \in Objs, obj' = [obj EXCEPT ![p] = cur],
         UNCHANGED <<key, dto, then, saves, meter, billed>>
  PROVE  KeyInv'
<1>1. /\ l \in Points \ {"toDTO", "save", "delete"} /\ l \notin {"stream", "tail"}
      /\ ~Saving(p)
  BY DEF Points, ReturnPoints, Saving
<1>2. /\ obj' \in [Procs -> Holders] /\ \A q \in Procs \ {p} : obj'[q] = obj[q]
      /\ obj'[p] \in Objs
  BY DEF KeyInv, KeyTypes, Holders
<1>3. meter' \in Nat /\ meter' <= billed
  BY DEF KeyInv, KeyTypes, CountedOnce
<1> QED BY <1>1, <1>2, <1>3, GoesOn

LEMMA PoolObject == KeyInv /\ cur # NoObj => cur \in Objs
  BY DEF KeyInv, KeyTypes, Holders

LEMMA PickKeeps ==
  ASSUME KeyInv, NEW p \in Procs, Pick(p)
  PROVE  KeyInv'
<1>1. /\ pc[p] = "idle" /\ cur \in Objs /\ obj' = [obj EXCEPT ![p] = cur]
      /\ UNCHANGED <<mem, cur, redis, key, meter, billed>>
  BY PoolObject DEF Pick, Free, key
<1>2. CASE Goto(p, "sent") /\ UNCHANGED <<then, saves, dto>>
  BY <1>1, <1>2, PickedUnsaved
<1>3. CASE Persist(p, "sent")
  <2>1. "sent" \in ReturnPoints /\ "sent" # "tail"
    BY DEF ReturnPoints
  <2> QED BY <1>1, <1>3, <2>1, PickedSaved, MemUnchanged
<1> QED BY <1>2, <1>3 DEF Pick

LEMMA RefreshAndRetryKeeps ==
  ASSUME KeyInv, NEW p \in Procs, RefreshAndRetry(p)
  PROVE  KeyInv'
<1>1. /\ pc[p] = "sent" /\ ~Saving(p) /\ UNCHANGED <<mem, cur, redis, key, obj, meter, billed>>
  BY DEF RefreshAndRetry, Saving, key
<1>2. /\ obj' \in [Procs -> Holders] /\ obj'[p] \in Objs
      /\ \A q \in Procs \ {p} : obj'[q] = obj[q]
      /\ cur' \in Holders /\ meter' \in Nat /\ meter' <= billed
  BY <1>1, HeldObject DEF KeyInv, KeyTypes, CountedOnce
<1>3. /\ "resent" \in ReturnPoints /\ "resent" \notin {"tail", "stream"}
      /\ "resent" \in Points \ {"toDTO", "save", "delete"}
  BY DEF ReturnPoints, Points
<1>4. CASE Persist(p, "resent")
  BY <1>1, <1>2, <1>3, <1>4, PersistStep, MemUnchanged
<1>5. CASE Goto(p, "resent") /\ UNCHANGED <<then, saves, dto>>
  BY <1>1, <1>2, <1>3, <1>5, GoesOn
<1> QED BY <1>4, <1>5 DEF RefreshAndRetry

(* A verdict on the object held, then a save. *)
LEMMA VerdictKeeps ==
  ASSUME KeyInv, NEW p \in Procs, pc[p] \notin {"idle", "delete"},
         NEW s \in {"enabled", "cooldown", "permanent"}, SetStatus(p, s),
         NEW l \in {"idle", "tail"}, Persist(p, l), l = "tail" => AwaitsCount(p),
         UNCHANGED <<cur, redis, obj, meter, billed>>
  PROVE  KeyInv'
<1>1. obj[p] \in Objs /\ mem[obj[p]] \in KeyRecord /\ l \in ReturnPoints
  BY HeldObject DEF ReturnPoints
<1>2. PICK k \in KeyRecord : k = mem[obj[p]]
  BY <1>1
<1>3. [k EXCEPT !.status = s] \in KeyRecord /\ [k EXCEPT !.status = s].used = k.used
  BY DEF KeyRecord
<1>4. PICK r \in KeyRecord : r = [k EXCEPT !.status = s] /\ r.used = k.used
  BY <1>3
<1>5. mem' = [mem EXCEPT ![obj[p]] = r]
  BY <1>1, <1>2, <1>4 DEF SetStatus
<1>6. r.used <= mem[obj[p]].used
  BY <1>2, <1>4, KeyRecords
<1> QED BY <1>1, <1>5, <1>6, HeldChanges

LEMMA VerdictsKeep ==
  ASSUME KeyInv, NEW p \in Procs, permanentDisable(p) \/ cooldownDisable(p) \/ StreamError(p)
  PROVE  KeyInv'
<1>1. CASE permanentDisable(p)
  BY <1>1, VerdictKeeps DEF permanentDisable, Sent
<1>2. CASE cooldownDisable(p)
  BY <1>2, VerdictKeeps DEF cooldownDisable, Sent
<1>3. CASE StreamError(p)
  <2>1. AwaitsCount(p) /\ pc[p] \notin {"idle", "delete"}
    BY <1>3 DEF StreamError, AwaitsCount
  <2> QED BY <1>3, <2>1, VerdictKeeps DEF StreamError
<1> QED BY <1>1, <1>2, <1>3

LEMMA TurnAwaysKeep ==
  ASSUME KeyInv, NEW p \in Procs, NoVerdict(p) \/ EndStream(p)
  PROVE  KeyInv'
<1>1. Done(p) /\ ~Saving(p) /\ UNCHANGED <<key, saves, meter, billed>>
  BY DEF NoVerdict, EndStream, Sent, Saving, hist
<1> QED BY <1>1, TurnsAway

(* An answer is billed before it may be counted. *)
LEMMA AnswerKeeps ==
  ASSUME KeyInv, NEW p \in Handlers, Answer(p)
  PROVE  KeyInv'
<1>1. /\ p \in Procs /\ pc[p] \in {"sent", "resent"} /\ ~Saving(p) /\ Goto(p, "stream")
      /\ UNCHANGED <<key, mem, cur, redis, obj, dto, then, meter, saves, alone, raced>>
      /\ billed' = billed + 1 /\ "stream" \in Points \ {"toDTO", "save", "delete"}
  BY DEF Answer, Sent, Saving, Procs, Points, key, hist, saves
<1>2. AloneSaves' /\ SnapshotCurrent' /\ PersistedUnlessRaced'
  BY <1>1, NoSaveBegins
<1>3. PICK b \in Nat, c \in Nat : b = billed /\ c = billed' /\ c = b + 1
  BY <1>1 DEF KeyInv, KeyTypes
<1>4. /\ mem' \in [Objs -> KeyRecord] /\ cur' \in Holders /\ redis' \in KeyRecord \cup {Absent}
      /\ obj' \in [Procs -> Holders] /\ obj'[p] \in Objs
      /\ dto' \in [Procs -> KeyRecord] /\ then' \in [Procs -> ReturnPoints]
      /\ meter' \in Nat /\ billed' \in Nat /\ alone' \subseteq Procs /\ billed <= billed'
  BY <1>1, <1>3, HeldObject DEF KeyInv, KeyTypes
<1>5. KeyTypes' /\ HoldsObject'
  BY <1>1, <1>4, ShapeKept
<1>6. CopiesCounted'
  BY <1>1, <1>4, CopiesKept
<1>7. Pending' = Pending \cup {p} /\ p \notin Pending
  <2>1. /\ pc'[p] = "stream" /\ \A q \in Procs \ {p} : pc'[q] = pc[q]
    BY <1>1, OthersStay DEF KeyInv
  <2>2. AwaitsCount(p)' /\ ~AwaitsCount(p)
    BY <1>1, <2>1 DEF AwaitsCount
  <2>3. ASSUME NEW q \in Handlers, q # p PROVE AwaitsCount(q)' <=> AwaitsCount(q)
    BY <1>1, <2>1, <2>3 DEF AwaitsCount, Procs
  <2> QED BY <2>2, <2>3 DEF Pending
<1>8. PICK H \in Nat, n \in Nat, m \in Nat :
        /\ H = Cardinality(Handlers) /\ n = Cardinality(Pending) /\ m = Cardinality(Pending')
        /\ m = n + 1
  <2>1. Cardinality(Pending') = Cardinality(Pending) + 1
    BY <1>7, PendingCount, FS_AddElement
  <2> QED BY <2>1, PendingCount, PendingCountNext
<1>9. ASSUME NEW o \in Objs PROVE mem'[o].used + m <= c + H
  <2>1. PICK u \in Nat : u = mem[o].used
    BY KeyRecords DEF KeyInv, KeyTypes
  <2>2. u + n <= b + H
    BY <1>3, <1>8, <2>1 DEF KeyInv, CountedOnce
  <2>3. u + m <= c + H
    BY <1>3, <1>8, <2>2
  <2> QED BY <1>1, <2>1, <2>3
<1>10. CountedOnce'
  <2>1. meter' <= c
    BY <1>1, <1>3 DEF KeyInv, KeyTypes, CountedOnce
  <2> QED BY <1>3, <1>8, <1>9, <2>1 DEF CountedOnce
<1> QED BY <1>2, <1>5, <1>6, <1>10 DEF KeyInv

(* An answer that is counted is not pending any more. *)
LEMMA AddCreditsKeeps ==
  ASSUME KeyInv, NEW p \in Handlers, AddCredits(p)
  PROVE  KeyInv'
<1>1. /\ p \in Procs /\ pc[p] \in {"stream", "tail"} /\ Persist(p, "idle")
      /\ UNCHANGED <<cur, redis, obj, meter, billed>>
  BY DEF AddCredits, Procs
<1>2. PICK o \in Objs, k \in KeyRecord, u \in Nat : o = obj[p] /\ k = mem[o] /\ u = k.used
  BY <1>1, HeldObject, KeyRecords
<1>3. PICK s \in {"enabled", "cooldown", "permanent"} :
        s = (IF u + 1 >= Limit THEN "permanent" ELSE k.status)
  BY DEF KeyRecord
<1>4. PICK r \in KeyRecord : r = [status |-> s, used |-> u + 1] /\ r.used = u + 1
  <2>1. [status |-> s, used |-> u + 1] \in KeyRecord
    BY DEF KeyRecord
  <2> QED BY <2>1
<1>5. mem' = [mem EXCEPT ![o] = r]
  BY <1>2, <1>3, <1>4 DEF AddCredits
<1>6. /\ mem' \in [Objs -> KeyRecord] /\ mem'[o] = r
      /\ \A x \in Objs \ {o} : mem'[x] = mem[x]
  BY <1>5 DEF KeyInv, KeyTypes
<1>7. /\ Goto(p, "toDTO") /\ BeginSave(p) /\ UNCHANGED dto /\ "toDTO" \in Points
      /\ then' = [then EXCEPT ![p] = "idle"]
  BY <1>1 DEF Persist, Points
<1>8. /\ then' \in [Procs -> ReturnPoints] /\ then'[p] = "idle"
      /\ \A q \in Procs \ {p} : then'[q] = then[q]
  BY <1>1, <1>7 DEF KeyInv, KeyTypes, ReturnPoints
<1>9. AloneSaves' /\ SnapshotCurrent' /\ PersistedUnlessRaced' /\ alone' \subseteq Procs
  BY <1>1, <1>7, SaveBegins
<1>10. /\ redis' \in KeyRecord \cup {Absent} /\ dto' \in [Procs -> KeyRecord]
       /\ obj' \in [Procs -> Holders] /\ obj'[p] \in Objs /\ cur' \in Holders /\ obj' = obj
       /\ meter' \in Nat /\ billed' \in Nat /\ billed <= billed' /\ meter' <= billed'
  BY <1>1, <1>2, <1>7 DEF KeyInv, KeyTypes, CountedOnce
<1>11. KeyTypes' /\ HoldsObject'
  BY <1>1, <1>6, <1>7, <1>8, <1>9, <1>10, ShapeKept
<1>12. Pending' = Pending \ {p} /\ p \in Pending
  <2>1. /\ pc'[p] = "toDTO" /\ \A q \in Procs \ {p} : pc'[q] = pc[q]
    BY <1>1, <1>7, OthersStay DEF KeyInv
  <2>2. ~AwaitsCount(p)' /\ AwaitsCount(p)
    BY <1>1, <1>8, <2>1 DEF AwaitsCount
  <2>3. ASSUME NEW q \in Handlers, q # p PROVE AwaitsCount(q)' <=> AwaitsCount(q)
    BY <1>8, <2>1, <2>3 DEF AwaitsCount, Procs
  <2> QED BY <2>2, <2>3 DEF Pending
<1>13. PICK H \in Nat, n \in Nat, m \in Nat, b \in Nat :
        /\ H = Cardinality(Handlers) /\ n = Cardinality(Pending) /\ m = Cardinality(Pending')
        /\ m = n - 1 /\ b = billed
  <2>1. Cardinality(Pending') = Cardinality(Pending) - 1
    BY <1>12, PendingCount, FS_RemoveElement
  <2> QED BY <2>1, PendingCount, PendingCountNext DEF KeyInv, KeyTypes
<1>14. ASSUME NEW x \in Objs PROVE mem'[x].used + m <= b + H
  <2>1. PICK v \in Nat : v = mem[x].used
    BY KeyRecords DEF KeyInv, KeyTypes
  <2>2. v + n <= b + H
    BY <1>13, <2>1 DEF KeyInv, CountedOnce
  <2>3. CASE x = o
    <3>1. mem'[x].used = v + 1
      BY <1>2, <1>4, <1>6, <2>1, <2>3
    <3>2. (v + 1) + m <= b + H
      BY <1>13, <2>2
    <3> QED BY <3>1, <3>2
  <2>4. CASE x # o
    <3>1. mem'[x].used = v
      BY <1>6, <2>1, <2>4
    <3>2. v + m <= b + H
      BY <1>13, <2>2
    <3> QED BY <3>1, <3>2
  <2> QED BY <2>3, <2>4
<1>15. CountedOnce'
  BY <1>1, <1>10, <1>13, <1>14 DEF CountedOnce
<1>16. CopiesCounted'
  BY <1>1, <1>7, <1>10, CopiesKept
<1> QED BY <1>9, <1>11, <1>15, <1>16 DEF KeyInv

LEMMA WorkersKeep ==
  ASSUME KeyInv, Worker
  PROVE  KeyInv'
<1>1. /\ (Reenabler \in Actors => Reenabler \in Procs)
      /\ (Syncer \in Actors => Syncer \in Procs)
      /\ (Refresher \in Actors => Refresher \in Procs)
  BY DEF Procs
<1>2. CASE ScanCooldowns
  <2>1. /\ Reenabler \in Procs /\ pc[Reenabler] = "idle" /\ cur \in Objs
        /\ UNCHANGED <<key, dto, then, saves, meter, billed>>
    BY <1>1, <1>2, PoolObject DEF ScanCooldowns, Free, hist
  <2> QED BY <1>2, <2>1, PickedUnsaved DEF ScanCooldowns
<1>3. CASE ReenableCooldowns
  <2>1. /\ Reenabler \in Procs /\ pc[Reenabler] = "scan" /\ ~Saving(Reenabler)
        /\ UNCHANGED <<cur, redis, meter, billed>>
    BY <1>1, <1>3 DEF ReenableCooldowns, Saving
  <2>2. CASE SetStatus(Reenabler, "enabled") /\ Persist(Reenabler, "idle") /\ UNCHANGED obj
    BY <2>1, <2>2, VerdictKeeps
  <2>3. CASE Done(Reenabler) /\ UNCHANGED <<mem, hist>>
    <3>1. UNCHANGED <<key, saves, meter, billed>>
      BY <2>1, <2>3 DEF key, hist
    <3> QED BY <2>1, <2>3, <3>1, TurnsAway
  <2> QED BY <1>3, <2>2, <2>3 DEF ReenableCooldowns
<1>4. CASE CooldownGoesOn
  <2>1. /\ Reenabler \in Procs /\ ~Saving(Reenabler) /\ Done(Reenabler)
        /\ UNCHANGED <<key, saves, meter, billed>>
    BY <1>1, <1>4 DEF CooldownGoesOn, Saving, hist
  <2> QED BY <2>1, TurnsAway
<1>5. CASE EnsureValid
  <2>1. /\ Syncer \in Procs /\ pc[Syncer] = "idle" /\ cur \in Objs
        /\ obj' = [obj EXCEPT ![Syncer] = cur]
        /\ UNCHANGED <<mem, cur, redis, key, meter, billed>>
    BY <1>1, <1>5, PoolObject DEF EnsureValid, Free, key
  <2>2. CASE Goto(Syncer, "meter") /\ UNCHANGED <<then, saves, dto>>
    BY <2>1, <2>2, PickedUnsaved
  <2>3. CASE Persist(Syncer, "meter")
    <3>1. "meter" \in ReturnPoints /\ "meter" # "tail"
      BY DEF ReturnPoints
    <3> QED BY <2>1, <2>3, <3>1, PickedSaved, MemUnchanged
  <2> QED BY <1>5, <2>2, <2>3 DEF EnsureValid
<1>6. CASE FetchMeter
  <2>1. /\ Syncer \in Procs /\ pc[Syncer] = "meter" /\ ~Saving(Syncer) /\ Goto(Syncer, "fetched")
        /\ UNCHANGED <<key, obj, dto, then, saves, billed>>
        /\ "fetched" \in Points \ {"toDTO", "save", "delete"}
    BY <1>1, <1>6 DEF FetchMeter, Saving, hist, Points
  <2>2. /\ obj' \in [Procs -> Holders] /\ obj'[Syncer] \in Objs /\ obj' = obj
        /\ meter' \in Nat /\ meter' <= billed
    BY <1>6, <2>1, HeldObject DEF FetchMeter, KeyInv, KeyTypes
  <2> QED BY <2>1, <2>2, GoesOn
<1>7. CASE SyncCredits
  <2>1. /\ Syncer \in Procs /\ pc[Syncer] = "fetched" /\ Persist(Syncer, "idle")
        /\ UNCHANGED <<cur, redis, obj, meter, billed>> /\ "idle" \in ReturnPoints
    BY <1>1, <1>7 DEF SyncCredits, ReturnPoints
  <2>2. PICK k \in KeyRecord : k = mem[obj[Syncer]]
    BY <2>1, HeldObject
  <2>3. PICK s \in {"enabled", "cooldown", "permanent"} :
          s = (IF meter >= Limit THEN "permanent" ELSE k.status)
    BY DEF KeyRecord
  <2>4. PICK r \in KeyRecord : r = [status |-> s, used |-> meter] /\ r.used = meter
    <3>1. [status |-> s, used |-> meter] \in KeyRecord
      BY DEF KeyRecord, KeyInv, KeyTypes
    <3> QED BY <3>1
  <2>5. mem' = [mem EXCEPT ![obj[Syncer]] = r]
    BY <1>7, <2>2, <2>3, <2>4 DEF SyncCredits
  <2>6. r.used <= billed
    BY <2>4 DEF KeyInv, CountedOnce
  <2> QED BY <2>1, <2>5, <2>6, HeldChanges
<1>8. CASE SyncFails
  <2>1. /\ Syncer \in Procs /\ ~Saving(Syncer) /\ Done(Syncer)
        /\ UNCHANGED <<key, saves, meter, billed>>
    BY <1>1, <1>8 DEF SyncFails, Saving, hist
  <2> QED BY <2>1, TurnsAway
<1>9. CASE PreWarm
  <2>1. /\ Refresher \in Procs /\ cur \in Objs /\ obj' = [obj EXCEPT ![Refresher] = cur]
        /\ Persist(Refresher, "idle") /\ "idle" \in ReturnPoints
        /\ UNCHANGED <<mem, cur, redis, meter, billed>>
    BY <1>1, <1>9, PoolObject DEF PreWarm, key, ReturnPoints
  <2> QED BY <2>1, PickedSaved, MemUnchanged
<1> QED BY <1>2, <1>3, <1>4, <1>5, <1>6, <1>7, <1>8, <1>9 DEF Worker

LEMMA AddKeyKeeps ==
  ASSUME KeyInv, AddKey
  PROVE  KeyInv'
<1>1. /\ Admin \in Procs /\ Persist(Admin, "idle") /\ "idle" \in ReturnPoints
      /\ UNCHANGED <<redis, meter, billed>>
  BY DEF AddKey, Procs, ReturnPoints
<1>2. PICK o \in Objs : /\ mem' = [mem EXCEPT ![o] = Fresh] /\ cur' = o
                        /\ obj' = [obj EXCEPT ![Admin] = o]
  BY DEF AddKey
<1>3. /\ mem' \in [Objs -> KeyRecord] /\ mem'[o] = Fresh
      /\ \A x \in Objs \ {o} : mem'[x] = mem[x]
  BY <1>2, KeyRecords DEF KeyInv, KeyTypes
<1>4. ASSUME NEW x \in Objs PROVE mem'[x].used <= mem[x].used \/ mem'[x].used <= billed
  <2>1. mem[x].used \in Nat /\ billed \in Nat
    BY KeyRecords DEF KeyInv, KeyTypes
  <2>2. mem'[x].used = 0 \/ mem'[x].used = mem[x].used
    BY <1>3, KeyRecords
  <2> QED BY <2>1, <2>2
<1>5. /\ obj' \in [Procs -> Holders] /\ obj'[Admin] \in Objs /\ cur' \in Holders
      /\ \A q \in Procs \ {Admin} : obj'[q] = obj[q]
  BY <1>1, <1>2 DEF KeyInv, KeyTypes, Holders
<1> QED BY <1>1, <1>3, <1>4, <1>5, PersistStep

LEMMA ReimportOAuthKeeps ==
  ASSUME KeyInv, ReimportOAuth
  PROVE  KeyInv'
<1>1. /\ Admin \in Procs /\ Persist(Admin, "idle") /\ "idle" \in ReturnPoints
      /\ UNCHANGED <<cur, redis, meter, billed>> /\ cur \in Objs
      /\ obj' = [obj EXCEPT ![Admin] = cur]
  BY PoolObject DEF ReimportOAuth, Procs, ReturnPoints
<1>2. PICK k \in KeyRecord : k = mem[cur]
  BY <1>1 DEF KeyInv, KeyTypes
<1>3. [k EXCEPT !.status = "enabled"] \in KeyRecord /\ [k EXCEPT !.status = "enabled"].used = k.used
  BY DEF KeyRecord
<1>4. PICK r \in KeyRecord : r = [k EXCEPT !.status = "enabled"] /\ r.used = k.used
  BY <1>3
<1>5. mem' = [mem EXCEPT ![cur] = r]
  BY <1>1, <1>2, <1>4 DEF ReimportOAuth
<1>6. /\ mem' \in [Objs -> KeyRecord] /\ mem'[cur] = r
      /\ \A x \in Objs \ {cur} : mem'[x] = mem[x]
  BY <1>1, <1>5 DEF KeyInv, KeyTypes
<1>7. ASSUME NEW x \in Objs PROVE mem'[x].used <= mem[x].used
  <2>1. mem[x].used \in Nat
    BY KeyRecords DEF KeyInv, KeyTypes
  <2>2. mem'[x].used = mem[x].used
    BY <1>2, <1>4, <1>6
  <2> QED BY <2>1, <2>2
<1> QED BY <1>1, <1>6, <1>7, PickedSaved

LEMMA DeleteKeyKeeps ==
  ASSUME KeyInv, DeleteKey
  PROVE  KeyInv'
<1>1. /\ Admin \in Procs /\ Goto(Admin, "delete") /\ BeginSave(Admin) /\ "delete" \in Points
      /\ cur' = NoObj /\ pc[Admin] = "idle"
      /\ UNCHANGED <<mem, redis, obj, dto, then, meter, billed>>
  BY DEF DeleteKey, Free, Procs, Points
<1>2. AloneSaves' /\ SnapshotCurrent' /\ PersistedUnlessRaced' /\ alone' \subseteq Procs
  BY <1>1, SaveBegins
<1>3. /\ mem' \in [Objs -> KeyRecord] /\ cur' \in Holders /\ redis' \in KeyRecord \cup {Absent}
      /\ obj' \in [Procs -> Holders] /\ dto' \in [Procs -> KeyRecord] /\ obj' = obj
      /\ then' \in [Procs -> ReturnPoints] /\ meter' \in Nat /\ billed' \in Nat
      /\ billed <= billed' /\ meter' <= billed'
  BY <1>1 DEF KeyInv, KeyTypes, CountedOnce, Holders
<1>4. KeyTypes' /\ HoldsObject'
  BY <1>1, <1>2, <1>3, ShapeKept
<1>5. AwaitsCount(Admin)' => AwaitsCount(Admin)
  <2>1. pc'[Admin] = "delete"
    BY <1>1, OthersStay DEF KeyInv
  <2> QED BY <2>1 DEF AwaitsCount
<1>6. Pending' \subseteq Pending
  BY <1>1, <1>5, NoMorePending DEF KeyInv
<1>7. CountedOnce'
  BY <1>1, <1>3, <1>4, <1>6, CountsKept, MemUnchanged
<1>8. CopiesCounted'
  BY <1>1, <1>3, CopiesKept
<1> QED BY <1>2, <1>4, <1>7, <1>8 DEF KeyInv

LEMMA CleanupDisabledKeeps ==
  ASSUME KeyInv, CleanupDisabled
  PROVE  KeyInv'
<1>1. /\ cur' = NoObj /\ alone' = {} /\ pc[Admin] = "idle" /\ Admin \in Procs
      /\ UNCHANGED <<mem, pc, obj, dto, then, meter, billed>>
  BY DEF CleanupDisabled, Free, Procs, proc
<1>2. redis' = Absent \/ redis' = redis
  BY DEF CleanupDisabled
<1>3. ~raced' => redis' = Absent
  BY DEF CleanupDisabled
<1>4. KeyTypes' /\ HoldsObject'
  BY <1>1, <1>2 DEF KeyInv, KeyTypes, HoldsObject, Holders
<1>5. AloneSaves' /\ SnapshotCurrent'
  BY <1>1 DEF AloneSaves, SnapshotCurrent
<1>6. PersistedUnlessRaced'
  BY <1>1, <1>3 DEF PersistedUnlessRaced, Current
<1>7. Pending' \subseteq Pending
  BY <1>1 DEF Pending, AwaitsCount
<1>8. billed <= billed' /\ meter' <= billed'
  BY <1>1 DEF KeyInv, KeyTypes, CountedOnce
<1>9. CountedOnce'
  BY <1>1, <1>4, <1>7, <1>8, CountsKept, MemUnchanged
<1>10. CopiesCounted'
  <2>1. redis'.used <= billed + Cardinality(Handlers)
    <3>1. CASE redis' = Absent
      BY <3>1, KeyRecords, PendingCount DEF KeyInv, KeyTypes
    <3>2. CASE redis' = redis
      BY <3>2 DEF KeyInv, CopiesCounted
    <3> QED BY <1>2, <3>1, <3>2
  <2> QED BY <1>1, <2>1 DEF KeyInv, CopiesCounted
<1> QED BY <1>4, <1>5, <1>6, <1>9, <1>10 DEF KeyInv

(* A restart brings back what Redis has, and ends every save. *)
LEMMA RestartKeeps ==
  ASSUME KeyInv, Restart
  PROVE  KeyInv'
<1>1. /\ pc' = [p \in Procs |-> "idle"] /\ obj' = [p \in Procs |-> NoObj] /\ alone' = {}
      /\ UNCHANGED <<redis, dto, then, meter, billed>>
  BY DEF Restart
<1>2. \/ \E o \in Objs : redis # Absent /\ cur' = o /\ mem' = [mem EXCEPT ![o] = redis]
      \/ cur' = NoObj /\ UNCHANGED mem /\ (~raced' => redis = Absent)
  <2>1. CASE redis # Absent /\ \E o \in Objs : cur' = o /\ mem' = [mem EXCEPT ![o] = redis]
    BY <2>1
  <2>2. CASE cur' = NoObj /\ raced' = (redis # Absent) /\ UNCHANGED mem
    <3>1. ~raced' => redis = Absent
      BY <2>2, Zenon
    <3> QED BY <2>2, <3>1
  <2> QED BY <2>1, <2>2 DEF Restart
<1>3. /\ mem' \in [Objs -> KeyRecord] /\ cur' \in Holders
      /\ \A o \in Objs : mem'[o] = mem[o] \/ (mem'[o] = redis /\ redis \in KeyRecord)
      /\ ~raced' => redis = (IF cur' = NoObj THEN Absent ELSE mem'[cur'])
  <2>1. CASE cur' = NoObj /\ UNCHANGED mem /\ (~raced' => redis = Absent)
    BY <2>1 DEF KeyInv, KeyTypes, Holders
  <2>2. CASE \E o \in Objs : redis # Absent /\ cur' = o /\ mem' = [mem EXCEPT ![o] = redis]
    <3>1. PICK o \in Objs : redis # Absent /\ cur' = o /\ mem' = [mem EXCEPT ![o] = redis]
      BY <2>2
    <3>2. redis \in KeyRecord
      BY <3>1 DEF KeyInv, KeyTypes
    <3>3. mem' \in [Objs -> KeyRecord] /\ mem'[o] = redis /\ \A x \in Objs \ {o} : mem'[x] = mem[x]
      BY <3>1, <3>2 DEF KeyInv, KeyTypes
    <3> QED BY <3>1, <3>2, <3>3, KeyAssumption DEF Holders
  <2> QED BY <1>2, <2>1, <2>2
<1>4. KeyTypes'
  BY <1>1, <1>3 DEF KeyInv, KeyTypes, Points, ReturnPoints, Holders
<1>5. HoldsObject' /\ AloneSaves' /\ SnapshotCurrent'
  BY <1>1 DEF HoldsObject, AloneSaves, SnapshotCurrent
<1>6. PersistedUnlessRaced'
  BY <1>1, <1>3 DEF PersistedUnlessRaced, Current
<1>7. Pending' = {}
  BY <1>1 DEF Pending, AwaitsCount, Procs
<1>8. PICK H \in Nat, n \in Nat, b \in Nat :
        H = Cardinality(Handlers) /\ n = Cardinality(Pending) /\ b = billed
  BY PendingCount DEF KeyInv, KeyTypes
<1>9. ASSUME NEW o \in Objs PROVE mem'[o].used + Cardinality(Pending') <= b + H
  <2>1. Cardinality(Pending') = 0
    BY <1>7, FS_EmptySet, Zenon
  <2>2. PICK u \in Nat, v \in Nat, w \in Nat :
          u = mem[o].used /\ v = redis.used /\ w = mem'[o].used
    BY <1>3, KeyRecords DEF KeyInv, KeyTypes
  <2>3. u + n <= b + H /\ v <= b + H
    BY <1>8, <2>2 DEF KeyInv, CountedOnce, CopiesCounted
  <2>4. w = u \/ w = v
    BY <1>3, <2>2
  <2>5. w + 0 <= b + H
    BY <2>3, <2>4
  <2> QED BY <2>1, <2>2, <2>5
<1>10. CountedOnce'
  BY <1>1, <1>8, <1>9 DEF KeyInv, CountedOnce
<1>11. CopiesCounted'
  BY <1>1 DEF KeyInv, CopiesCounted
<1> QED BY <1>4, <1>5, <1>6, <1>10, <1>11 DEF KeyInv

-----------------------------------------------------------------------------
LEMMA KeyStep == KeyInv /\ [Next]_vars => KeyInv'
<1> SUFFICES ASSUME KeyInv, [Next]_vars PROVE KeyInv'
  OBVIOUS
<1>1. CASE UNCHANGED vars
  <2>1. UNCHANGED <<mem, cur, redis, pc, obj, dto, then, meter, billed, alone, raced>>
    BY <1>1 DEF vars, key, proc, hist, saves
  <2> QED BY <2>1 DEF KeyInv, KeyTypes, HoldsObject, AloneSaves, SnapshotCurrent, Saving,
                      PersistedUnlessRaced, Current, CountedOnce, CopiesCounted, Pending, AwaitsCount
<1>2. ASSUME NEW p \in Handlers, Pick(p) \/ Handler(p) PROVE KeyInv'
  <2>1. p \in Procs
    BY DEF Procs
  <2> QED BY <1>2, <2>1, PickKeeps, RefreshAndRetryKeeps, VerdictsKeep, TurnAwaysKeep, AnswerKeeps,
             AddCreditsKeeps DEF Handler
<1>3. ASSUME NEW p \in Procs, toDTO(p) \/ saveCBKey(p) PROVE KeyInv'
  BY <1>3, toDTOKeeps, saveCBKeyKeeps
<1>4. CASE Operator
  BY <1>4, AddKeyKeeps, ReimportOAuthKeeps, DeleteKeyKeeps, DeleteCBKeyKeeps, CleanupDisabledKeeps
     DEF Operator, HandleImportCBKey, HandleImportCBKeyBulk, HandleImportCBOAuth,
         HandleImportCBOAuthBulk, HandleDeleteCBKey, HandleCleanupDisabled
<1> QED BY <1>1, <1>2, <1>3, <1>4, WorkersKeep, RestartKeeps DEF Next

LEMMA KeyStarts == Init => KeyInv
<1> SUFFICES ASSUME Init PROVE KeyInv
  OBVIOUS
<1>1. KeyTypes
  BY KeyRecords DEF Init, KeyTypes, Points, ReturnPoints, Holders
<1>2. HoldsObject /\ AloneSaves /\ SnapshotCurrent
  BY DEF Init, HoldsObject, AloneSaves, SnapshotCurrent
<1>3. PersistedUnlessRaced
  BY KeyAssumption DEF Init, PersistedUnlessRaced, Current
<1>4. PICK H \in Nat : H = Cardinality(Handlers)
  BY PendingCount
<1>5. CountedOnce
  <2>1. Pending = {}
    BY DEF Init, Pending, AwaitsCount, Procs
  <2>2. Cardinality(Pending) = 0
    BY <2>1, FS_EmptySet, Zenon
  <2>3. \A o \in Objs : mem[o].used = 0
    BY KeyRecords DEF Init
  <2> QED BY <1>4, <2>2, <2>3 DEF Init, CountedOnce
<1>6. CopiesCounted
  <2>1. redis.used = 0 /\ \A p \in Procs : dto[p].used = 0
    BY KeyRecords DEF Init
  <2> QED BY <1>4, <2>1 DEF Init, CopiesCounted
<1> QED BY <1>1, <1>2, <1>3, <1>5, <1>6 DEF KeyInv

LEMMA KeyInvHolds == Spec => []KeyInv
  BY KeyStarts, KeyStep, PTL DEF Spec

(* When nobody saves and the last write was neither crossed nor lost nor   *)
(* made through a deleted object, Redis has the key as it is in memory     *)
(* (codebuddy.go, toDTO and saveCBKey after every change, DeleteKey,       *)
(* CleanupDisabled and LoadFromRedis).                                     *)
THEOREM PersistedUnlessRacedHolds == Spec => []PersistedUnlessRaced
<1>1. KeyInv => PersistedUnlessRaced
  BY DEF KeyInv
<1> QED BY <1>1, KeyInvHolds, PTL

(* The local count exceeds what the upstream charged by at most one answer *)
(* for each handler, however syncs, restarts and late saves interleave     *)
(* (codebuddy.go, AddCredits and syncCreditsLocked).                       *)
THEOREM OvercountBoundHolds == Spec => []OvercountBound
<1>1. ASSUME KeyInv, cur # NoObj PROVE mem[cur].used <= billed + Cardinality(Handlers)
  <2>1. cur \in Objs
    BY <1>1, PoolObject
  <2>2. PICK u \in Nat, n \in Nat, H \in Nat, b \in Nat :
          /\ u = mem[cur].used /\ n = Cardinality(Pending) /\ H = Cardinality(Handlers)
          /\ b = billed
    BY <1>1, <2>1, KeyRecords, PendingCount DEF KeyInv, KeyTypes
  <2>3. u + n <= b + H
    BY <1>1, <2>1, <2>2 DEF KeyInv, CountedOnce
  <2>4. u <= b + H
    BY <2>3
  <2> QED BY <2>2, <2>4
<1>2. KeyInv => OvercountBound
  BY <1>1 DEF OvercountBound
<1> QED BY <1>2, KeyInvHolds, PTL
=============================================================================
