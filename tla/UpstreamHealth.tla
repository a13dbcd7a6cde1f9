--------------------------- MODULE UpstreamHealth ---------------------------
(***************************************************************************)
(* One upstream's breaker with the goroutines that drive it: request       *)
(* handlers (ProxyGrok, ProxyCodeBuddy, ProxyCloudflare seen from the      *)
(* breaker), the active health check loop, and the clock.                  *)
(*                                                                         *)
(* A handler passes the gate (CanRequest), then makes up to MaxAttempts    *)
(* upstream calls (one per pool entry): each may record an error and go    *)
(* on, record a success and finish, or record nothing.  CanRequest and     *)
(* RecordRequest are separate critical sections: anything may happen       *)
(* between the admission of a request and the record of its outcome.       *)
(*                                                                         *)
(* The environment is the upstream (up) and what the check loop finds in   *)
(* the pool: no entry, only disabled ones, or a first enabled one, which   *)
(* for codebuddy may be an OAuth account.                                  *)
(***************************************************************************)
EXTENDS CircuitBreaker

CONSTANTS
  Requests,     \* handler goroutines
  MaxAttempts   \* pool size: upstream calls one handler may make

ASSUME RequestsAssumption == Requests # {} /\ MaxAttempts \in Nat \ {0}

VARIABLES
  name,       \* UpstreamHealth.Name: which of the three breakers this is
  h,          \* the breaker
  pc,         \* "idle", "upstream" or "rejected", per handler
  attempts,   \* upstream calls left to the handler
  up,         \* environment: does the upstream answer
  pool,       \* environment: what the credential pool holds
  trial       \* history: requests admitted since the circuit went half-open

vars == <<name, h, pc, attempts, up, pool, trial>>

env == <<name, up, pool>>

(* The names HealthChecker gives its three breakers. *)
Upstreams == {"grok", "codebuddy", "cloudflare"}

PoolStates(n) ==
  {"empty", "disabled", "usable"}
    \cup (IF n = "codebuddy" THEN {"oauth"} ELSE {})

TypeOK ==
  /\ name \in Upstreams
  /\ h \in Breaker
  /\ pc \in [Requests -> {"idle", "upstream", "rejected"}]
  /\ attempts \in [Requests -> 0..MaxAttempts]
  /\ up \in BOOLEAN
  /\ pool \in PoolStates(name)
  /\ trial \in Nat

Init ==
  /\ name \in Upstreams
  /\ h = NewUpstreamHealth
  /\ pc = [r \in Requests |-> "idle"]
  /\ attempts = [r \in Requests |-> 0]
  /\ up \in BOOLEAN
  /\ pool \in PoolStates(name)
  /\ trial = 0

(* The history variable speaks of the current trial only. *)
KeepHistory == trial' = IF h'.state = "half-open" THEN trial ELSE 0

-----------------------------------------------------------------------------
(* The gate lets the request through; the pool is sized afterwards. *)
Admit(r) ==
  /\ pc[r] = "idle"
  /\ CanRequest(h)
  /\ h' = AfterCanRequest(h)
  /\ pc' = [pc EXCEPT ![r] = "upstream"]
  /\ attempts' = [attempts EXCEPT
                    ![r] = IF pool = "empty" THEN 0 ELSE MaxAttempts]
  /\ trial' = IF h'.state = "half-open" THEN trial + 1 ELSE trial
  /\ UNCHANGED env

(* The gate turns it away; the handler has still to record that. *)
Refuse(r) ==
  /\ pc[r] = "idle"
  /\ ~CanRequest(h)
  /\ h' = AfterCanRequest(h)
  /\ pc' = [pc EXCEPT ![r] = "rejected"]
  /\ UNCHANGED <<env, attempts, trial>>

(* RecordRequest(0, "circuit open"), answer 503. *)
RecordRefusal(r) ==
  /\ pc[r] = "rejected"
  /\ h' = RecordError(h)
  /\ pc' = [pc EXCEPT ![r] = "idle"]
  /\ KeepHistory
  /\ UNCHANGED <<env, attempts>>

(* The loop takes another turn and the pool's Next finds a credential. *)
Attempting(r) ==
  /\ pc[r] = "upstream"
  /\ attempts[r] > 0
  /\ pool \in {"usable", "oauth"}

(* An attempt answered >= 500: recorded, and the loop goes on. *)
AttemptErrors(r) ==
  /\ Attempting(r)
  /\ ~up
  /\ h' = RecordError(h)
  /\ attempts' = [attempts EXCEPT ![r] = @ - 1]
  /\ KeepHistory
  /\ UNCHANGED <<env, pc>>

(* A connection error, a credential that was refused and disabled, a       *)
(* failed token refresh: the loop goes on and nothing is recorded.         *)
AttemptUnrecorded(r) ==
  /\ Attempting(r)
  /\ attempts' = [attempts EXCEPT ![r] = @ - 1]
  /\ UNCHANGED <<env, h, pc, trial>>

(* The handler is done; a trial it ended takes its history along. *)
Return(r) ==
  /\ pc' = [pc EXCEPT ![r] = "idle"]
  /\ attempts' = [attempts EXCEPT ![r] = 0]
  /\ KeepHistory

(* An attempt answered below 400 (grok: below 500, its 4xx are passed on). *)
AttemptSucceeds(r) ==
  /\ Attempting(r)
  /\ up
  /\ h' = RecordSuccess(h)
  /\ Return(r)
  /\ UNCHANGED env

(* The client asked for something the upstream does not have (codebuddy    *)
(* 400 with 11133 or 11102, cloudflare three 404 in a row): recorded as an *)
(* error of the upstream, and the handler answers.                         *)
ClientError(r) ==
  /\ Attempting(r)
  /\ name # "grok"
  /\ h' = RecordError(h)
  /\ Return(r)
  /\ UNCHANGED env

(* The client cancelled, every credential is disabled, or the attempts are *)
(* used up: the handler answers 503 or nothing, and records nothing.       *)
GiveUp(r) ==
  /\ pc[r] = "upstream"
  /\ UNCHANGED h
  /\ Return(r)
  /\ UNCHANGED env

-----------------------------------------------------------------------------
(* A check that reached the upstream with a credential it accepts or not.  *)
Probe(accepted) ==
  /\ h' = IF up /\ accepted THEN CheckPassed(h) ELSE CheckFailed(h)
  /\ KeepHistory
  /\ UNCHANGED <<env, pc, attempts>>

(* An empty pool counts as a failed check for grok and codebuddy. *)
NoEntries ==
  /\ pool = "empty"
  /\ h' = CheckFailed(h)
  /\ KeepHistory
  /\ UNCHANGED <<env, pc, attempts>>

(* One round of each check loop; with only disabled entries (and, for      *)
(* cloudflare, with no entry) a round leaves the breaker alone.            *)
checkGrok ==
  /\ name = "grok"
  /\ NoEntries \/ (pool = "usable" /\ Probe(TRUE))

(* checkCB sends "Bearer " + key.Key, which for an OAuth account is its    *)
(* email and not its access token.                                         *)
checkCB ==
  /\ name = "codebuddy"
  /\ \/ NoEntries
     \/ pool = "usable" /\ Probe(TRUE)
     \/ pool = "oauth" /\ Probe(FALSE)

checkCF ==
  /\ name = "cloudflare"
  /\ pool = "usable"
  /\ Probe(TRUE)

ActiveCheck == checkGrok \/ checkCB \/ checkCF

(* Environment: the upstream goes down and comes back, credentials come,   *)
(* go, are disabled and enabled.                                           *)
EnvironmentChanges ==
  /\ \/ up' = ~up /\ UNCHANGED pool
     \/ pool' \in PoolStates(name) \ {pool} /\ UNCHANGED up
  /\ UNCHANGED <<name, h, pc, attempts, trial>>

Tick ==
  /\ h.state = "open" /\ h.openFor < CB_OPEN_DURATION
  /\ h' = Elapse(h)
  /\ UNCHANGED <<env, pc, attempts, trial>>

Handler(r) ==
  \/ RecordRefusal(r) \/ AttemptErrors(r) \/ AttemptUnrecorded(r)
  \/ AttemptSucceeds(r) \/ ClientError(r) \/ GiveUp(r)

Next ==
  \/ \E r \in Requests : Admit(r) \/ Refuse(r) \/ Handler(r)
  \/ ActiveCheck
  \/ EnvironmentChanges
  \/ Tick

Spec == Init /\ [][Next]_vars

(* Handlers that started run on, time passes, the check loop ticks, and    *)
(* clients keep sending requests.                                          *)
Fairness ==
  /\ \A r \in Requests : WF_vars(Handler(r))
  /\ WF_vars(\E r \in Requests : Admit(r))
  /\ WF_vars(ActiveCheck)
  /\ WF_vars(Tick)

FairSpec == Spec /\ Fairness

-----------------------------------------------------------------------------
(* The circuit is closed exactly while fewer than CB_OPEN_THRESHOLD errors *)
(* are counted: an error streak that reaches the threshold opens it        *)
(* whoever counted it, and no path closes it again with the streak left    *)
(* standing (health.go, RecordRequest and the three checks).               *)
ClosedIffBelowThreshold ==
  (h.state = "closed") <=> (h.consecutiveErrs < CB_OPEN_THRESHOLD)

(* Between two openings at most CB_HALF_OPEN_PROBES + 1 requests reach a   *)
(* half-open upstream, however many errors, refusals and unrecorded ends   *)
(* there are (CanRequest).                                                 *)
TrialBound ==
  h.state = "half-open" => trial <= CB_HALF_OPEN_PROBES + 1

(* The strengthening TrialBound needs: in a trial every admission but the  *)
(* first, which CanRequest lets through uncounted, is a counted probe.     *)
TrialCount ==
  trial = IF h.state = "half-open" THEN h.halfOpenProbes + 1 ELSE 0

IInv == TypeOK /\ ClosedIffBelowThreshold /\ TrialCount

(* An open circuit stays open for CB_OPEN_DURATION and is then left only   *)
(* by a trial: neither a late success of a request admitted earlier nor a  *)
(* passed active check closes it (RecordRequest, CanRequest, checkGrok,    *)
(* checkCB, checkCF).                                                      *)
OpenEndsInTrial ==
  [][h.state = "open" /\ h'.state # "open" =>
       h'.state = "half-open" /\ h.openFor >= CB_OPEN_DURATION]_vars

(* Once the upstream answers for good and a credential the check can use   *)
(* is there, the circuit is closed again and again: requests whose outcome *)
(* was never recorded cannot hold it half-open for ever, because the       *)
(* active check closes it (checkGrok, checkCB, checkCF).                   *)
RecoversWithUpstream ==
  <>[](up /\ pool = "usable") => []<>(h.state = "closed")
=============================================================================
