--------------------------- MODULE CustomRegistry ---------------------------
(***************************************************************************)
(* The custom models and aliases: internal/proxy/custom.go,                *)
(* CustomRegistry, with its handlers (internal/handlers/custom.go) and its *)
(* two hashes in Redis (internal/db/db.go).                                *)
(*                                                                         *)
(* A change is written to Redis first and to the map after that, under the *)
(* lock only there, so two operators' calls may write Redis in one order   *)
(* and the map in the other.  A command that times out may have been done. *)
(* A custom model is its upstream, an alias its target.                    *)
(***************************************************************************)
EXTENDS Naturals, FiniteSets

CONSTANTS
  ModelIds,           \* ids of custom models
  AliasNames,         \* names of aliases
  CustomUpstreams,    \* upstreams of custom models
  None,               \* no entry
  RegistryCallers     \* calls of operators that may run at the same time

Names == ModelIds \cup AliasNames
Slots == {<<"models", n>> : n \in ModelIds} \cup {<<"aliases", n>> : n \in AliasNames}
ASSUME RegistryAssumption == None \notin Names \cup CustomUpstreams

VARIABLES
  reg,        \* CustomRegistry.models and aliases
  stored,     \* custom_models and custom_aliases in Redis
  change,     \* each call: its next step, its entry, the value it sets, and
              \* whether no other call on the entry ran beside it (history)
  unsure      \* history: entries whose last change crossed another or timed
              \* out, or that the last start could not load

registryVars == <<reg, stored, change, unsure>>

NoChange == [step |-> "idle", slot |-> <<"models", None>>, value |-> None, alone |-> TRUE]

RegistryInit ==
  /\ reg = [s \in Slots |-> None]
  /\ stored = reg
  /\ change = [c \in RegistryCallers |-> NoChange]
  /\ unsure = {}

-----------------------------------------------------------------------------
\* One hop through the aliases, then the custom model of that name; without
\* one the caller routes by the prefix of the name.
Resolve(tables, name) ==
  LET At(table, n) == IF <<table, n>> \in Slots THEN tables[<<table, n>>] ELSE None
      target == At("aliases", name)
      model == IF target = None THEN name ELSE target
  IN  [model |-> model, upstream |-> At("models", model)]

Changing(s) == {c \in RegistryCallers : change[c].step # "idle" /\ change[c].slot = s}

ChangeEntry(c, s, value) ==
  /\ change[c] = NoChange
  /\ change' = [d \in RegistryCallers |->
                  IF d = c THEN [step |-> "save", slot |-> s, value |-> value,
                                 alone |-> Changing(s) = {}]
                  ELSE IF d \in Changing(s) THEN [change[d] EXCEPT !.alone = FALSE]
                  ELSE change[d]]
  /\ unsure' = IF Changing(s) = {} THEN unsure ELSE unsure \cup {s}
  /\ UNCHANGED <<reg, stored>>

HandleAddCustomModel(c, id, upstream) == ChangeEntry(c, <<"models", id>>, upstream)
HandleDeleteCustomModel(c, id) == ChangeEntry(c, <<"models", id>>, None)
HandleAddAlias(c, alias, target) == alias # target /\ ChangeEntry(c, <<"aliases", alias>>, target)
HandleDeleteAlias(c, alias) == ChangeEntry(c, <<"aliases", alias>>, None)

\* HSET or HDEL in Redis.
StoredBy(c) == [stored EXCEPT ![change[c].slot] = change[c].value]

SaveEntry(c, table) ==
  /\ change[c].step = "save" /\ change[c].slot[1] = table
  /\ stored' = StoredBy(c)
  /\ change' = [change EXCEPT ![c].step = "apply"]
  /\ UNCHANGED <<reg, unsure>>

SaveCustomModel(c) == change[c].value # None /\ SaveEntry(c, "models")
DeleteCustomModel(c) == change[c].value = None /\ SaveEntry(c, "models")
SaveCustomAlias(c) == change[c].value # None /\ SaveEntry(c, "aliases")
DeleteCustomAlias(c) == change[c].value = None /\ SaveEntry(c, "aliases")

\* No answer from Redis: an error to the operator, the map stays.  The command
\* was done by then or never is.
SaveTimesOut(c) ==
  /\ change[c].step = "save"
  /\ stored' \in {stored, StoredBy(c)}
  /\ unsure' = unsure \cup {change[c].slot}
  /\ change' = [change EXCEPT ![c] = NoChange]
  /\ UNCHANGED reg

\* Mutant of Applied: the map is not changed.
Applied_Misses(c) == reg

Applied(c) == [reg EXCEPT ![change[c].slot] = change[c].value]

\* The map, under the lock; a call that nobody crossed settles the entry.
ApplyEntry(c, table) ==
  /\ change[c].step = "apply" /\ change[c].slot[1] = table
  /\ reg' = Applied(c)
  /\ unsure' = IF change[c].alone THEN unsure \ {change[c].slot} ELSE unsure
  /\ change' = [change EXCEPT ![c] = NoChange]
  /\ UNCHANGED stored

AddModel(c) == change[c].value # None /\ ApplyEntry(c, "models")
DeleteModel(c) == change[c].value = None /\ ApplyEntry(c, "models")
AddAlias(c) == change[c].value # None /\ ApplyEntry(c, "aliases")
DeleteAlias(c) == change[c].value = None /\ ApplyEntry(c, "aliases")

\* The process starts anew: both hashes, or none if one cannot be read.
LoadRegistry ==
  /\ change' = [c \in RegistryCallers |-> NoChange]
  /\ stored' = stored
  /\ \/ reg' = stored /\ unsure' = {}
     \/ /\ reg' = [s \in Slots |-> None]
        /\ unsure' = {s \in Slots : stored[s] # None}

RegistryStep(c) ==
  \/ SaveCustomModel(c) \/ DeleteCustomModel(c) \/ SaveCustomAlias(c) \/ DeleteCustomAlias(c)
  \/ SaveTimesOut(c)
  \/ AddModel(c) \/ DeleteModel(c) \/ AddAlias(c) \/ DeleteAlias(c)

RegistryNext ==
  \/ \E c \in RegistryCallers :
       \/ RegistryStep(c)
       \/ \E id \in ModelIds :
            \/ \E u \in CustomUpstreams : HandleAddCustomModel(c, id, u)
            \/ HandleDeleteCustomModel(c, id)
       \/ \E alias \in AliasNames :
            \/ \E target \in Names : HandleAddAlias(c, alias, target)
            \/ HandleDeleteAlias(c, alias)
  \/ LoadRegistry

RegistrySpec == RegistryInit /\ [][RegistryNext]_registryVars

-----------------------------------------------------------------------------
(* Properties                                                              *)

RegistryTypeOK ==
  /\ reg \in [Slots -> Names \cup CustomUpstreams \cup {None}]
  /\ stored \in [Slots -> Names \cup CustomUpstreams \cup {None}]
  /\ \A s \in Slots : reg[s] # None => reg[s] \in IF s[1] = "models" THEN CustomUpstreams ELSE Names \ {s[2]}

\* A restart does not change where a name is routed: Resolve gives the same
\* from memory as from what Redis has, when no call on the entries it reads is
\* under way and their last changes did not cross or time out (AddModel,
\* DeleteModel, AddAlias and DeleteAlias write Redis, then the map).
RoutedAsStored ==
  \A n \in Names :
    LET read == {<<"aliases", n>>, <<"models", Resolve(reg, n).model>>,
                 <<"models", Resolve(stored, n).model>>}
    IN  (\A s \in read : s \notin unsure /\ Changing(s) = {}) =>
          Resolve(reg, n) = Resolve(stored, n)
=============================================================================
