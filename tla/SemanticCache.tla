--------------------------- MODULE SemanticCache ---------------------------
(***************************************************************************)
(* The response cache: internal/cache/semantic.go, Store.  Entries expire  *)
(* after a time and are bounded in number; the order of insertion is kept  *)
(* in a slice beside the map, and an entry that Get finds expired leaves   *)
(* the map but not the slice.  Each method holds the lock throughout.      *)
(* A body is left out; statistics are too.                                 *)
(***************************************************************************)
EXTENDS Naturals, Sequences, SequencesExt, FiniteSets

CONSTANTS
  CacheKeys,     \* keys: hashes of model, messages and temperature
  MaxItems,      \* Store.max
  TTL,           \* Store.ttl
  MaxClock,      \* bound: time
  MaxInserts     \* bound: insertions

ASSUME CacheAssumption ==
  /\ IsFiniteSet(CacheKeys)
  /\ MaxItems \in Nat \ {0} /\ TTL \in Nat /\ MaxClock \in Nat /\ MaxInserts \in Nat

VARIABLES
  items,      \* Store.items: when the entry expires, or NoItem
  order,      \* Store.order
  cacheOn,    \* Store.enabled
  clock,
  inserted    \* history: the keys in the order in which they came into items

cacheVars == <<items, order, cacheOn, clock, inserted>>

NoItem == MaxClock + TTL + 1
Cached == {k \in CacheKeys : items[k] # NoItem}

CacheInit ==
  /\ items = [k \in CacheKeys |-> NoItem]
  /\ order = <<>>
  /\ cacheOn = TRUE
  /\ clock = 0
  /\ inserted = <<>>

SetEnabled(on) ==
  /\ cacheOn # on
  /\ cacheOn' = on
  /\ UNCHANGED <<items, order, clock, inserted>>

\* An expired entry is removed when it is looked up; a hit changes nothing.
Get(k) ==
  /\ cacheOn
  /\ k \in Cached /\ clock > items[k]
  /\ items' = [items EXCEPT ![k] = NoItem]
  /\ UNCHANGED <<order, cacheOn, clock, inserted>>

\* Mutant of Drops: one entry too many is left.
Drops_OffByOne(cached, ord) ==
  Min({n \in 0 .. Len(ord) : Cardinality(cached \ ToSet(SubSeq(ord, 1, n))) <= MaxItems + 1})

\* How many slots are dropped until the map is small enough.
Drops(cached, ord) ==
  Min({n \in 0 .. Len(ord) : Cardinality(cached \ ToSet(SubSeq(ord, 1, n))) <= MaxItems})

\* Mutant of NewSlot: an entry that is put again moves to the end.
NewSlot_Moves(k) == Append(SelectSeq(order, LAMBDA j : j # k), k)

\* An entry that is in the map keeps its slot.
NewSlot(k) == IF k \in Cached THEN order ELSE Append(order, k)

Put(k) ==
  /\ cacheOn
  /\ k \in Cached \/ Len(inserted) < MaxInserts
  /\ LET slots == NewSlot(k)
         n == Drops(Cached \cup {k}, slots)
     IN  /\ order' = SubSeq(slots, n + 1, Len(slots))
         /\ items' = [j \in CacheKeys |->
                        IF j \in ToSet(SubSeq(slots, 1, n)) THEN NoItem
                        ELSE IF j = k THEN clock + TTL ELSE items[j]]
  /\ inserted' = IF k \in Cached THEN inserted ELSE Append(inserted, k)
  /\ UNCHANGED <<cacheOn, clock>>

CacheTick ==
  /\ clock < MaxClock
  /\ clock' = clock + 1
  /\ UNCHANGED <<items, order, cacheOn, inserted>>

CacheNext ==
  \/ \E on \in BOOLEAN : SetEnabled(on)
  \/ \E k \in CacheKeys : Get(k) \/ Put(k)
  \/ CacheTick

CacheSpec == CacheInit /\ [][CacheNext]_cacheVars

-----------------------------------------------------------------------------
(* Properties                                                              *)

CacheTypeOK ==
  /\ items \in [CacheKeys -> 0 .. NoItem]
  /\ order \in Seq(CacheKeys)
  /\ clock \in 0 .. MaxClock

\* The map never has more than max entries, also after entries expired and
\* came back: the loop of Put can only delete keys that have a slot, so each
\* entry needs one.
CacheBounded == Cardinality(Cached) <= MaxItems /\ Cached \subseteq ToSet(order)

LastInsert(k) == SelectLastInSeq(inserted, LAMBDA j : j = k)

\* Put evicts the entry that came first ("simple max-N eviction of oldest"),
\* unless that entry expired before and was put again: then its first slot,
\* which Get left in order, makes Put evict it before older ones.
EvictsOldestStep ==
  \A k \in Cached :
    (items'[k] = NoItem /\ order' # order) =>
      \/ \A j \in Cached : items'[j] # NoItem => LastInsert(j) >= LastInsert(k)
      \/ Cardinality({n \in 1 .. Len(order) : order[n] = k}) > 1
EvictsOldest == [][EvictsOldestStep]_cacheVars
=============================================================================
