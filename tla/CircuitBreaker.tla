--------------------------- MODULE CircuitBreaker ---------------------------
(***************************************************************************)
(* The circuit breaker of one upstream: internal/upstream/health.go,       *)
(* UpstreamHealth.  Every operation below runs under UpstreamHealth.mu, so *)
(* it is an operator from a breaker record to a breaker record; the        *)
(* modules that hold breakers (UpstreamHealth, ComboRouting) say who calls *)
(* which operation and when.                                               *)
(*                                                                         *)
(* openedAt is kept as the time elapsed since it was set (openFor), capped *)
(* at CB_OPEN_DURATION because CanRequest only asks whether that much has  *)
(* passed.  consecutiveErrs is capped at ErrCap for the same reason: the   *)
(* code only compares it with CB_OPEN_THRESHOLD.  gauge is the value of    *)
(* the Prometheus series foxrouters_circuit_state of this upstream, which  *)
(* does not exist until the first setCircuitState ("unset").               *)
(***************************************************************************)
EXTENDS Naturals

CONSTANTS
  CB_OPEN_THRESHOLD,     \* consecutive errors that open the circuit (5)
  CB_OPEN_DURATION,      \* time units the circuit stays open (60s)
  CB_HALF_OPEN_PROBES,   \* requests counted as probes in half-open (1)
  ErrCap                 \* where the model stops counting errors

ASSUME BreakerAssumption ==
  /\ CB_OPEN_THRESHOLD \in Nat \ {0}
  /\ CB_OPEN_DURATION \in Nat \ {0}
  /\ CB_HALF_OPEN_PROBES \in Nat \ {0}
  /\ ErrCap \in Nat
  /\ ErrCap >= CB_OPEN_THRESHOLD

CircuitState == {"closed", "open", "half-open"}

Breaker == [state           : CircuitState,
            consecutiveErrs : 0..ErrCap,
            openFor         : 0..CB_OPEN_DURATION,
            halfOpenProbes  : 0..CB_HALF_OPEN_PROBES,
            gauge           : CircuitState \cup {"unset"}]

NewUpstreamHealth ==
  [state |-> "closed", consecutiveErrs |-> 0, openFor |-> 0,
   halfOpenProbes |-> 0, gauge |-> "unset"]

-----------------------------------------------------------------------------
(* consecutiveErrs++, and the circuit opens if it was closed and the count *)
(* reached the threshold.  An error never moves a half-open circuit.       *)
CountError(h) ==
  [h EXCEPT !.consecutiveErrs = IF @ < ErrCap THEN @ + 1 ELSE @]

Trips(h) ==
  h.consecutiveErrs >= CB_OPEN_THRESHOLD /\ h.state = "closed"

Open(h) == [h EXCEPT !.state = "open", !.openFor = 0]

setCircuitState(h) == [h EXCEPT !.gauge = h.state]

(* RecordRequest(latency, err) with err # nil. *)
RecordError(h) ==
  LET e == CountError(h)
  IN  IF Trips(e) THEN setCircuitState(Open(e)) ELSE e

(* RecordRequest(latency, nil). *)
RecordSuccess(h) ==
  CASE h.state = "half-open" ->
         setCircuitState([h EXCEPT !.state = "closed",
                                   !.consecutiveErrs = 0,
                                   !.halfOpenProbes = 0])
    [] h.state = "closed" -> [h EXCEPT !.consecutiveErrs = 0]
    [] h.state = "open" -> h

(* The tail of checkGrok, checkCB and checkCF when the probe failed (and   *)
(* the "no accounts" branch of the first two): the same count and the same *)
(* opening as RecordRequest, without the gauge.                            *)
CheckFailed(h) ==
  LET e == CountError(h)
  IN  IF Trips(e) THEN Open(e) ELSE e

(* Mutants of CheckPassed: the streak is left standing; an OPEN circuit is *)
(* closed at once; a half-open one is left to the requests.                *)
CheckPassed_KeepsStreak(h) ==
  CASE h.state = "half-open" -> [h EXCEPT !.state = "closed"]
    [] h.state = "closed" -> [h EXCEPT !.consecutiveErrs = 0]
    [] h.state = "open" -> h

CheckPassed_ClosesOpen(h) ==
  [h EXCEPT !.state = "closed", !.consecutiveErrs = 0]

CheckPassed_IgnoresHalfOpen(h) ==
  IF h.state = "closed" THEN [h EXCEPT !.consecutiveErrs = 0] ELSE h

(* The tail of the three checks when the probe succeeded: no gauge, and    *)
(* halfOpenProbes is left as it is.                                        *)
CheckPassed(h) ==
  CASE h.state = "half-open" -> [h EXCEPT !.state = "closed",
                                          !.consecutiveErrs = 0]
    [] h.state = "closed" -> [h EXCEPT !.consecutiveErrs = 0]
    [] h.state = "open" -> h

-----------------------------------------------------------------------------
(* Mutant of CanRequest: one probe too many. *)
CanRequest_OffByOne(h) ==
  \/ h.state = "closed"
  \/ h.state = "open" /\ h.openFor >= CB_OPEN_DURATION
  \/ h.state = "half-open" /\ h.halfOpenProbes <= CB_HALF_OPEN_PROBES

(* CanRequest: what it answers, and what it leaves behind.  The request    *)
(* that moves the circuit to half-open is let through without being        *)
(* counted as a probe.                                                     *)
CanRequest(h) ==
  \/ h.state = "closed"
  \/ h.state = "open" /\ h.openFor >= CB_OPEN_DURATION
  \/ h.state = "half-open" /\ h.halfOpenProbes < CB_HALF_OPEN_PROBES

AfterCanRequest(h) ==
  CASE h.state = "open" /\ h.openFor >= CB_OPEN_DURATION ->
         setCircuitState([h EXCEPT !.state = "half-open",
                                   !.halfOpenProbes = 0])
    [] h.state = "half-open" /\ h.halfOpenProbes < CB_HALF_OPEN_PROBES ->
         [h EXCEPT !.halfOpenProbes = @ + 1]
    [] OTHER -> h

(* One unit of time passes. *)
Elapse(h) ==
  IF h.state = "open" /\ h.openFor < CB_OPEN_DURATION
  THEN [h EXCEPT !.openFor = @ + 1]
  ELSE h
=============================================================================
