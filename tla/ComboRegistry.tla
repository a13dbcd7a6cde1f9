--------------------------- MODULE ComboRegistry ---------------------------
(***************************************************************************)
(* How a combo chooses a model: internal/proxy/combo.go, Resolve and what  *)
(* it calls, as operators of the combo and of the set of upstreams whose   *)
(* circuit is OPEN (open).  Counters, latencies and prices are not         *)
(* arguments: an operator returns every model some values of them lead to. *)
(***************************************************************************)
EXTENDS Naturals, Sequences, Functions

CONSTANTS
  Models,   \* model names a combo may list
  Kind      \* the prefix of each: "grok", "cb", "@cf" or "cf"

ASSUME KindAssumption == Kind \in [Models -> {"grok", "cb", "@cf", "cf"}]

Upstreams == {"grok", "codebuddy", "cloudflare"}
NoModel == "combo/name"    \* the combo's own name, routed as a model

(* Where dispatch sends a model: IsCFModel, IsGrokModel, or CodeBuddy. *)
Upstream(m) ==
  IF m = NoModel THEN "codebuddy"
  ELSE CASE Kind[m] \in {"@cf", "cf"} -> "cloudflare"
         [] Kind[m] = "grok" -> "grok"
         [] Kind[m] = "cb" -> "codebuddy"

(* The registry looks at the "@cf/" names only, so the circuit of a model  *)
(* named by a "cf/" alias is never seen open.                              *)
upstreamOpen(m, open) == Kind[m] # "cf" /\ Upstream(m) \in open

(* The models of the combo, in order, without those whose circuit is OPEN: *)
(* healthy after k of them.                                                *)
Healthy(c, open) ==
  LET healthy[k \in 0 .. Len(c.models)] ==
        IF k = 0 THEN <<>>
        ELSE IF upstreamOpen(c.models[k], open) THEN healthy[k - 1]
        ELSE Append(healthy[k - 1], c.models[k])
  IN  healthy[Len(c.models)]

(* auto: first the models that are not on Cloudflare; among those that are *)
(* the price decides.                                                      *)
AutoPicks(s) ==
  LET tier1 == SelectSeq(s, LAMBDA m : Kind[m] \notin {"@cf", "cf"})
  IN  IF tier1 # <<>> THEN {Head(tier1)} ELSE Range(s)

(* OPEN upstreams are skipped, unless all are. *)
resolveSmart(c, open) ==
  LET s == Healthy(c, open)
  IN  CASE s = <<>> -> {Head(c.models)}
        [] s # <<>> /\ c.strategy \in {"fill_first", "priority"} -> {Head(s)}
        [] s # <<>> /\ c.strategy = "auto" -> AutoPicks(s)
        [] OTHER -> Range(s)

(* Mutant of Resolve: round_robin skips OPEN upstreams too. *)
Resolve_AllSmart(c, open) == resolveSmart(c, open)

(* The models Resolve may choose.  AddCombo also accepts throughput,       *)
(* success_rate and cost_latency_balanced, which end in the last arm.      *)
Resolve(c, open) ==
  CASE c.strategy = "round_robin" -> Range(c.models)
    [] c.strategy \in {"latency", "cost", "fill_first", "least_used",
                       "random", "auto", "priority"} -> resolveSmart(c, open)
    [] OTHER -> {Head(c.models)}
=============================================================================
