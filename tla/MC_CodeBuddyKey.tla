-------------------------- MODULE MC_CodeBuddyKey --------------------------
(* Instances of CodeBuddyKey for TLC: handlers and objects are each        *)
(* interchangeable, and a state is told by the values somebody can still   *)
(* read: objects in the pool or held by a goroutine, snapshots about to be *)
(* written, the return points of saves, the answer a sync has yet to apply.*)
EXTENDS CodeBuddyKey, TLC

Symm == Permutations(Handlers) \cup Permutations(Objs)

Live(o) == o = cur \/ \E p \in Procs : obj[p] = o

View ==
  <<cred, [o \in Objs |-> IF Live(o) THEN mem[o] ELSE Fresh], cur, redis,
    pc, obj,
    [p \in Procs |-> IF pc[p] = "save" THEN dto[p] ELSE Fresh],
    [p \in Procs |-> IF pc[p] \in {"toDTO", "save"} THEN then[p] ELSE "idle"],
    IF Syncer \in Actors /\ pc[Syncer] = "fetched" THEN meter ELSE 0,
    billed, crashes, saves>>
=============================================================================
