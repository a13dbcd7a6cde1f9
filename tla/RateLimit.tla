----------------------------- MODULE RateLimit -----------------------------
(***************************************************************************)
(* The rate limit of one client: internal/ratelimit/ratelimit.go, Limiter  *)
(* and Middleware.  A token bucket is filled by elapsed time at each       *)
(* request, and dropped by the cleanup goroutine when it is idle; the      *)
(* limits come from the key (auth.Manager.LookupKey) and change with it.   *)
(*                                                                         *)
(* Time is counted in ticks.  A request costs Window units and a tick      *)
(* brings rpm units, which keeps the code's fractions whole.               *)
(***************************************************************************)
EXTENDS Naturals, Sequences

CONSTANTS
  Overrides,     \* what LookupKey may return: NoOverride, or a record of rpm and burst
  GlobalRPM,     \* Limiter.limit
  GlobalBurst,   \* Limiter.burst
  Window,        \* Limiter.window, in ticks
  IdleTime,      \* idle time after which cleanup drops a bucket, in ticks
  MaxRateTime    \* bound: time

NoOverride == [ok |-> FALSE, rpm |-> 0, burst |-> 0]
Override(rpm, burst) == [ok |-> TRUE, rpm |-> rpm, burst |-> burst]

ASSUME RateAssumption ==
  /\ \A l \in Overrides : l.rpm \in Nat /\ l.burst \in Nat
  /\ GlobalRPM \in Nat \ {0} /\ GlobalBurst \in Nat \ {0}
  /\ Window \in Nat \ {0} /\ IdleTime \in Nat /\ MaxRateTime \in Nat

VARIABLES
  override,     \* the client's limits
  bucket,       \* its clientBucket, or NoBucket
  rateNow,      \* time
  admits        \* history: when requests were admitted under the present limits, since
                \* cleanup last dropped a bucket that was not full

rateVars == <<override, bucket, rateNow, admits>>

NoBucket == [here |-> FALSE, tokens |-> 0, lastTime |-> 0]

RateInit ==
  /\ override = NoOverride
  /\ bucket = NoBucket
  /\ rateNow = 0
  /\ admits = <<>>

Unlimited == override.ok /\ override.rpm = 0
RPM == IF override.ok /\ override.rpm > 0 THEN override.rpm ELSE GlobalRPM
Burst == IF override.ok /\ override.burst > 0 THEN override.burst ELSE GlobalBurst

\* Mutant of Refilled: without the cap.
Refilled_Uncapped(b) == b.tokens + (rateNow - b.lastTime) * RPM

\* The tokens of a bucket at this time, at most a burst.
Refilled(b) ==
  LET tokens == b.tokens + (rateNow - b.lastTime) * RPM
  IN  IF tokens > Burst * Window THEN Burst * Window ELSE tokens

\* A request: the first one makes the bucket.
AllowWithLimit ==
  LET tokens == IF bucket.here THEN Refilled(bucket) ELSE Burst * Window
      allowed == tokens >= Window
  IN  /\ bucket' = [here |-> TRUE, lastTime |-> rateNow,
                    tokens |-> IF allowed THEN tokens - Window ELSE tokens]
      /\ admits' = IF allowed THEN Append(admits, rateNow) ELSE admits

\* rpm 0 bypasses the bucket.
Middleware ==
  /\ IF Unlimited THEN UNCHANGED <<bucket, admits>> ELSE AllowWithLimit
  /\ UNCHANGED <<override, rateNow>>

SetOverride(l) ==
  /\ override # l
  /\ override' = l
  /\ admits' = <<>>
  /\ UNCHANGED <<bucket, rateNow>>

cleanup ==
  /\ bucket.here /\ rateNow > bucket.lastTime + IdleTime
  /\ bucket' = NoBucket
  /\ admits' = IF Refilled(bucket) < Burst * Window THEN <<>> ELSE admits
  /\ UNCHANGED <<override, rateNow>>

RateTick ==
  /\ rateNow < MaxRateTime
  /\ rateNow' = rateNow + 1
  /\ UNCHANGED <<override, bucket, admits>>

RateNext ==
  \/ Middleware
  \/ \E l \in Overrides : SetOverride(l)
  \/ cleanup
  \/ RateTick

RateSpec == RateInit /\ [][RateNext]_rateVars

-----------------------------------------------------------------------------
(* Properties                                                              *)

RateTypeOK == bucket.tokens \in Nat /\ bucket.lastTime \in 0 .. rateNow /\ rateNow \in 0 .. MaxRateTime

\* In every interval of time a client gets at most a burst and what the rate
\* brings in that time, while its limits stay the same, whatever they were
\* before and across the cleanup of its bucket.  A bucket dropped before it was
\* full again (a burst of more than ten minutes' rate) starts a new account.
RateBound ==
  \A i, j \in 1 .. Len(admits) :
    i <= j => (j - i + 1) * Window <= Burst * Window + RPM * (admits[j] - admits[i])
=============================================================================
