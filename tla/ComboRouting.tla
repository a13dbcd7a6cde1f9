---------------------------- MODULE ComboRouting ----------------------------
(***************************************************************************)
(* Combo traffic over the breakers of the upstreams: ComboRegistry.Resolve *)
(* with the state of each circuit, the gate and the record of the handler  *)
(* the chosen model is dispatched to (CircuitBreaker), and the counters of *)
(* the least_used strategy, which are per model and shared by all combos.  *)
(* Requests name a combo without a retry chain (streams, or a strategy     *)
(* that has none); the operator may edit it between any two steps, so two  *)
(* requests may hold different combos.                                     *)
(*                                                                         *)
(* usageCount and bumpUsage take usageMu one at a time, so a least_used    *)
(* choice is a scan of several steps and a bump.                           *)
(***************************************************************************)
EXTENDS CircuitBreaker, ComboRegistry, FiniteSets

CONSTANTS
  Requests,   \* request goroutines
  Combos,     \* what the combo they name may be
  Edits,      \* the edits of it the operator makes: <<before, after>>
  Outages,    \* upstreams that may fail in this instance
  MaxUsage    \* bound: uses counted per model

ASSUME RoutingAssumption ==
  /\ IsFiniteSet(Requests)
  /\ \A c \in Combos : c.models \in Seq(Models) /\ c.models # <<>>
  /\ Outages \subseteq Upstreams /\ MaxUsage \in Nat

VARIABLES
  combo,    \* the combo they name, as it is registered now
  h,        \* the breaker of each upstream
  up,       \* environment: the upstreams that answer
  usageN,   \* uses of each model, counted by least_used
  pc,       \* "idle", "scan", "gate", "upstream" or "rejected"
  list,     \* least_used: the healthy models still to look at
  best,     \* the choice, or the best choice so far
  bestN,    \* its use count when it was looked at
  unseen,   \* history: the models this scan does not look at
  missed    \* history: the uses counted by scans that did not look at a model

vars == <<combo, h, up, usageN, pc, list, best, bestN, unseen, missed>>
scan == <<list, best, bestN, unseen>>

Init ==
  /\ combo \in Combos
  /\ h = [u \in Upstreams |-> NewUpstreamHealth]
  /\ up = Upstreams
  /\ usageN = [m \in Models |-> 0]
  /\ pc = [r \in Requests |-> "idle"]
  /\ list = [r \in Requests |-> <<>>]
  /\ best = [r \in Requests |-> NoModel]
  /\ bestN = [r \in Requests |-> 0]
  /\ unseen = [r \in Requests |-> {}]
  /\ missed = [m \in Models |-> 0]

OpenNow == {u \in Upstreams : h[u].state = "open"}

-----------------------------------------------------------------------------
(* Resolve for every strategy but least_used. *)
Choose(r) ==
  /\ pc[r] = "idle"
  /\ combo.strategy # "least_used"
  /\ \E m \in Resolve(combo, OpenNow) : best' = [best EXCEPT ![r] = m]
  /\ pc' = [pc EXCEPT ![r] = "gate"]
  /\ UNCHANGED <<combo, h, up, usageN, list, bestN, unseen, missed>>

(* least_used: start with the first healthy model; if there is none, the   *)
(* head of the combo is taken and not counted.                             *)
StartScan(r) ==
  /\ pc[r] = "idle"
  /\ combo.strategy = "least_used"
  /\ LET s == Healthy(combo, OpenNow)
         m == IF s = <<>> THEN Head(combo.models) ELSE Head(s)
     IN  /\ best' = [best EXCEPT ![r] = m]
         /\ bestN' = [bestN EXCEPT ![r] = IF s = <<>> THEN 0 ELSE usageN[m]]
         /\ list' = [list EXCEPT ![r] = IF s = <<>> THEN <<>> ELSE Tail(s)]
         /\ unseen' = [unseen EXCEPT ![r] = IF s = <<>> THEN {} ELSE Models \ Range(s)]
         /\ pc' = [pc EXCEPT ![r] = IF s = <<>> THEN "gate" ELSE "scan"]
  /\ UNCHANGED <<combo, h, up, usageN, missed>>

(* Mutant of Scan: the most used model is preferred. *)
Scan_MostUsed(r) ==
  /\ pc[r] = "scan"
  /\ list[r] # <<>>
  /\ LET m == Head(list[r])
     IN  IF usageN[m] > bestN[r]
         THEN /\ best' = [best EXCEPT ![r] = m]
              /\ bestN' = [bestN EXCEPT ![r] = usageN[m]]
         ELSE UNCHANGED <<best, bestN>>
  /\ list' = [list EXCEPT ![r] = Tail(@)]
  /\ UNCHANGED <<combo, h, up, usageN, pc, unseen, missed>>

(* The next model of the list, if it was used less. *)
Scan(r) ==
  /\ pc[r] = "scan"
  /\ list[r] # <<>>
  /\ LET m == Head(list[r])
     IN  IF usageN[m] < bestN[r]
         THEN /\ best' = [best EXCEPT ![r] = m]
              /\ bestN' = [bestN EXCEPT ![r] = usageN[m]]
         ELSE UNCHANGED <<best, bestN>>
  /\ list' = [list EXCEPT ![r] = Tail(@)]
  /\ UNCHANGED <<combo, h, up, usageN, pc, unseen, missed>>

bumpUsage(r) ==
  /\ pc[r] = "scan"
  /\ list[r] = <<>>
  /\ usageN[best[r]] < MaxUsage
  /\ usageN' = [usageN EXCEPT ![best[r]] = @ + 1]
  /\ missed' = [m \in Models |-> IF m \in unseen[r] THEN missed[m] + 1 ELSE missed[m]]
  /\ bestN' = [bestN EXCEPT ![r] = 0]
  /\ unseen' = [unseen EXCEPT ![r] = {}]
  /\ pc' = [pc EXCEPT ![r] = "gate"]
  /\ UNCHANGED <<combo, h, up, list, best>>

-----------------------------------------------------------------------------
U(r) == Upstream(best[r])
Used == {Upstream(m) : m \in Range(combo.models)}

(* The handler's gate. *)
Gate(r) ==
  /\ pc[r] = "gate"
  /\ h' = [h EXCEPT ![U(r)] = AfterCanRequest(@)]
  /\ pc' = [pc EXCEPT ![r] = IF CanRequest(h[U(r)]) THEN "upstream"
                                                    ELSE "rejected"]
  /\ UNCHANGED <<combo, up, usageN, scan, missed>>

(* The upstream answers or fails, as it can now; a refusal by the gate is  *)
(* recorded as an error too.                                               *)
Record(r) ==
  /\ pc[r] \in {"upstream", "rejected"}
  /\ h' = [h EXCEPT ![U(r)] =
             IF pc[r] = "upstream" /\ U(r) \in up THEN RecordSuccess(@)
                                                  ELSE RecordError(@)]
  /\ pc' = [pc EXCEPT ![r] = "idle"]
  /\ best' = [best EXCEPT ![r] = NoModel]
  /\ UNCHANGED <<combo, up, usageN, list, bestN, unseen, missed>>

(* The active checks, for upstreams with a usable credential. *)
ActiveCheck(u) ==
  /\ h' = [h EXCEPT ![u] = IF u \in up THEN CheckPassed(@) ELSE CheckFailed(@)]
  /\ UNCHANGED <<combo, up, usageN, pc, scan, missed>>

Tick(u) ==
  /\ h' = [h EXCEPT ![u] = Elapse(@)]
  /\ UNCHANGED <<combo, up, usageN, pc, scan, missed>>

OutageChanges ==
  /\ \E u \in Outages : up' = IF u \in up THEN up \ {u} ELSE up \cup {u}
  /\ UNCHANGED <<combo, h, usageN, pc, scan, missed>>

(* The operator registers another combo under the name. *)
Reload ==
  /\ combo' \in Combos
  /\ <<combo, combo'>> \in Edits
  /\ UNCHANGED <<h, up, usageN, pc, scan, missed>>

Proceed(r) ==
  Choose(r) \/ StartScan(r) \/ Scan(r) \/ bumpUsage(r) \/ Gate(r) \/ Record(r)

Next ==
  \/ \E r \in Requests : Proceed(r)
  \/ \E u \in Upstreams : ActiveCheck(u) \/ Tick(u)
  \/ OutageChanges
  \/ Reload

Spec == Init /\ [][Next]_vars

(* Clients keep sending requests, time passes, the check loops tick, and a *)
(* model the strategy comes back to is chosen again and again (the counter *)
(* of round_robin goes on while its combo stays as it is; auto has one     *)
(* choice at a time).                                                      *)
FairSpec ==
  /\ Spec
  /\ \A r \in Requests : WF_vars(Proceed(r))
  /\ \A m \in Models :
       SF_vars(\E r \in Requests : Choose(r) /\ best'[r] = m)
  /\ \A u \in Upstreams : WF_vars(ActiveCheck(u)) /\ WF_vars(Tick(u))

-----------------------------------------------------------------------------
(* combo.go:456, "they re-enter automatically once the upstream recovers": *)
(* an upstream of the combo that answers for good is not shut out, its     *)
(* circuit leaves OPEN (Resolve, CanRequest, and the checks, which do not  *)
(* move an OPEN circuit).                                                  *)
UpstreamsReenter ==
  \A u \in Upstreams :
    <>[](u \in up /\ u \in Used) => []<>(h[u].state # "open")

(* The same of the upstreams of a round_robin combo, whatever it was       *)
(* before: the rotation sends requests to an OPEN upstream too, so one     *)
(* that answers for good comes back (Resolve, CanRequest).                 *)
RotationReenters ==
  \A u \in Upstreams :
    <>[](u \in up /\ u \in Used /\ combo.strategy = "round_robin")
      => []<>(h[u].state # "open")

(* least_used spreads requests: however the scans and bumps of concurrent  *)
(* requests interleave, whatever circuits open and combos are edited, a    *)
(* model is used at most as often as any other, plus the requests in       *)
(* flight, plus what was counted by scans the other was not in, because    *)
(* its circuit was OPEN or it was not in the combo (resolveSmart,          *)
(* usageCount, bumpUsage).                                                 *)
UsageSpread ==
  \A m, n \in Models : usageN[m] <= usageN[n] + missed[n] + Cardinality(Requests)
=============================================================================
