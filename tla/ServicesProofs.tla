--------------------------- MODULE ServicesProofs ---------------------------
(***************************************************************************)
(* Proofs about the circuit breaker of the upstreams and about six         *)
(* services beside the chat pipeline, each on its own: the custom models   *)
(* and aliases, the token buckets of the rate limits, the response cache,  *)
(* the limit on login attempts, the log queues and the tunnel manager.     *)
(* They share no state, only this module.                                  *)
(***************************************************************************)
EXTENDS UpstreamHealth, LoginLimit, CustomRegistry, RateLimit, SemanticCache, LogQueue,
        TunnelManager, SequenceTheorems, FiniteSetTheorems, WellFoundedInduction, TLAPS

-----------------------------------------------------------------------------
(* The circuit breaker, for every threshold, duration, probe count, set of *)
(* handlers and pool size.                                                 *)

(* What every operation of the breaker keeps: it maps a breaker whose      *)
(* state agrees with its error count to another one.                       *)
Consistent(b) ==
  /\ b \in Breaker
  /\ (b.state = "closed") <=> (b.consecutiveErrs < CB_OPEN_THRESHOLD)

(* The record updates the operations make stay in the type. *)
LEMMA SetFields ==
  ASSUME NEW b \in Breaker, NEW s \in CircuitState,
         NEW n \in 0..ErrCap, NEW t \in 0..CB_OPEN_DURATION,
         NEW p \in 0..CB_HALF_OPEN_PROBES
  PROVE  /\ [b EXCEPT !.state = s, !.openFor = t] \in Breaker
         /\ [b EXCEPT !.state = s, !.consecutiveErrs = n] \in Breaker
         /\ [b EXCEPT !.state = s, !.consecutiveErrs = n,
                      !.halfOpenProbes = p] \in Breaker
         /\ [b EXCEPT !.state = s, !.halfOpenProbes = p] \in Breaker
  BY DEF Breaker

LEMMA Zeros ==
  /\ 0 \in 0..ErrCap /\ 0 \in 0..CB_OPEN_DURATION
  /\ 0 \in 0..CB_HALF_OPEN_PROBES
  /\ CircuitState = {"closed", "open", "half-open"}
  BY BreakerAssumption DEF CircuitState

(* RecordRequest(err) and a failed active check keep the breaker           *)
(* consistent and never leave or enter a trial, nor touch its probes.      *)
LEMMA ErrorKeeps ==
  ASSUME NEW b \in Breaker, Consistent(b)
  PROVE  /\ Consistent(RecordError(b))
         /\ Consistent(CheckFailed(b))
         /\ RecordError(b).state = "half-open" <=> b.state = "half-open"
         /\ CheckFailed(b).state = "half-open" <=> b.state = "half-open"
         /\ RecordError(b).halfOpenProbes = b.halfOpenProbes
         /\ CheckFailed(b).halfOpenProbes = b.halfOpenProbes
         /\ b.state = "open" => /\ RecordError(b).state = "open"
                                /\ CheckFailed(b).state = "open"
<1> DEFINE e == CountError(b)
           o == Open(e)
<1>1. /\ e \in Breaker
      /\ e.state = b.state
      /\ e.halfOpenProbes = b.halfOpenProbes
      /\ b.state # "closed" => e.consecutiveErrs >= CB_OPEN_THRESHOLD
  BY BreakerAssumption DEF Consistent, Breaker, CircuitState, CountError
<1> HIDE DEF e
<1>2. CASE Trips(e)
  <2>0. o \in Breaker
    BY <1>1, SetFields, Zeros DEF Open
  <2>1. /\ o \in Breaker
        /\ o.state = "open"
        /\ o.consecutiveErrs >= CB_OPEN_THRESHOLD
        /\ o.halfOpenProbes = b.halfOpenProbes
    BY <1>1, <1>2, <2>0 DEF Breaker, Trips, Open
  <2> HIDE DEF o
  <2>2. /\ setCircuitState(o) \in Breaker
        /\ setCircuitState(o).state = "open"
        /\ setCircuitState(o).consecutiveErrs >= CB_OPEN_THRESHOLD
        /\ setCircuitState(o).halfOpenProbes = b.halfOpenProbes
    BY <2>1 DEF Breaker, CircuitState, setCircuitState
  <2>3. CheckFailed(b) = o /\ RecordError(b) = setCircuitState(o)
    BY <1>2 DEF CheckFailed, RecordError, e, o
  <2>4. ASSUME NEW x \in Breaker, x.consecutiveErrs >= CB_OPEN_THRESHOLD,
               x.state = "open"
        PROVE  Consistent(x)
    BY <2>4, BreakerAssumption DEF Consistent, Breaker
  <2> QED BY <1>1, <1>2, <2>1, <2>2, <2>3, <2>4 DEF Trips
<1>3. CASE ~Trips(e)
  <2>1. RecordError(b) = e /\ CheckFailed(b) = e
    BY <1>3 DEF CheckFailed, RecordError, e
  <2>2. Consistent(e)
    BY <1>1, <1>3, BreakerAssumption DEF Consistent, Trips, Breaker
  <2> QED BY <1>1, <2>1, <2>2
<1> QED BY <1>2, <1>3

(* RecordRequest(nil) and a passed active check keep the breaker           *)
(* consistent, leave an open circuit alone and end every trial.            *)
LEMMA SuccessKeeps ==
  ASSUME NEW b \in Breaker, Consistent(b)
  PROVE  /\ Consistent(RecordSuccess(b))
         /\ Consistent(CheckPassed(b))
         /\ RecordSuccess(b).state # "half-open"
         /\ CheckPassed(b).state # "half-open"
         /\ b.state = "open" => RecordSuccess(b) = b /\ CheckPassed(b) = b
<1> USE BreakerAssumption
<1>1. CASE b.state = "open"
  BY <1>1 DEF RecordSuccess, CheckPassed
<1>2. CASE b.state = "closed"
  <2>1. RecordSuccess(b) = [b EXCEPT !.consecutiveErrs = 0]
    BY <1>2 DEF RecordSuccess
  <2>2. CheckPassed(b) = [b EXCEPT !.consecutiveErrs = 0]
    BY <1>2 DEF CheckPassed
  <2> QED BY <1>2, <2>1, <2>2 DEF Consistent, Breaker, CircuitState
<1>3. CASE b.state = "half-open"
  <2> DEFINE c == [b EXCEPT !.state = "closed", !.consecutiveErrs = 0]
             d == [b EXCEPT !.state = "closed", !.consecutiveErrs = 0,
                            !.halfOpenProbes = 0]
  <2>1. CheckPassed(b) = c /\ RecordSuccess(b) = setCircuitState(d)
    BY <1>3 DEF CheckPassed, RecordSuccess
  <2>a. c \in Breaker /\ d \in Breaker
    BY SetFields, Zeros
  <2>b. /\ c.state = "closed" /\ c.consecutiveErrs = 0
        /\ d.state = "closed" /\ d.consecutiveErrs = 0
    BY DEF Breaker
  <2>2. Consistent(c) /\ c.state = "closed"
    BY <2>a, <2>b DEF Consistent
  <2>3. d \in Breaker /\ d.state = "closed" /\ d.consecutiveErrs = 0
    BY <2>a, <2>b
  <2> HIDE DEF c, d
  <2>4. Consistent(setCircuitState(d)) /\ setCircuitState(d).state = "closed"
    BY <2>3 DEF Consistent, Breaker, CircuitState, setCircuitState
  <2> QED BY <1>3, <2>1, <2>2, <2>4
<1> QED BY <1>1, <1>2, <1>3 DEF Breaker, CircuitState

(* CanRequest keeps the breaker consistent, leaves "open" only for a trial *)
(* and after the duration, counts every admission of a trial but the first *)
(* and changes nothing when it refuses.                                    *)
LEMMA GateKeeps ==
  ASSUME NEW b \in Breaker, Consistent(b)
  PROVE  /\ Consistent(AfterCanRequest(b))
         /\ ~CanRequest(b) => AfterCanRequest(b) = b
         /\ b.state = "closed" => AfterCanRequest(b) = b
         /\ b.state = "open" /\ CanRequest(b) =>
              /\ b.openFor >= CB_OPEN_DURATION
              /\ AfterCanRequest(b).state = "half-open"
              /\ AfterCanRequest(b).halfOpenProbes = 0
         /\ b.state = "half-open" /\ CanRequest(b) =>
              /\ AfterCanRequest(b).state = "half-open"
              /\ AfterCanRequest(b).halfOpenProbes = b.halfOpenProbes + 1
<1> USE BreakerAssumption
<1>1. CASE b.state = "open" /\ b.openFor >= CB_OPEN_DURATION
  <2> DEFINE t == [b EXCEPT !.state = "half-open", !.halfOpenProbes = 0]
  <2>1. AfterCanRequest(b) = setCircuitState(t)
    BY <1>1 DEF AfterCanRequest
  <2>a. t \in Breaker
    BY SetFields, Zeros
  <2>2. /\ t \in Breaker
        /\ t.state = "half-open"
        /\ t.halfOpenProbes = 0
        /\ ~(t.consecutiveErrs < CB_OPEN_THRESHOLD)
    BY <1>1, <2>a DEF Consistent, Breaker
  <2> HIDE DEF t
  <2>3. /\ Consistent(setCircuitState(t))
        /\ setCircuitState(t).state = "half-open"
        /\ setCircuitState(t).halfOpenProbes = 0
    BY <2>2 DEF Consistent, Breaker, CircuitState, setCircuitState
  <2> QED BY <1>1, <2>1, <2>3 DEF CanRequest
<1>2. CASE b.state = "half-open" /\ b.halfOpenProbes < CB_HALF_OPEN_PROBES
  <2>1. AfterCanRequest(b) = [b EXCEPT !.halfOpenProbes = @ + 1]
    BY <1>2 DEF AfterCanRequest
  <2> QED BY <1>2, <2>1 DEF Consistent, Breaker, CircuitState, CanRequest
<1>3. CASE /\ ~(b.state = "open" /\ b.openFor >= CB_OPEN_DURATION)
           /\ ~(b.state = "half-open"
                  /\ b.halfOpenProbes < CB_HALF_OPEN_PROBES)
  <2>1. AfterCanRequest(b) = b
    BY <1>3 DEF AfterCanRequest
  <2> QED BY <1>3, <2>1 DEF CanRequest
<1> QED BY <1>1, <1>2, <1>3

LEMMA ElapseKeeps ==
  ASSUME NEW b \in Breaker, Consistent(b)
  PROVE  /\ Consistent(Elapse(b))
         /\ Elapse(b).state = b.state
         /\ Elapse(b).halfOpenProbes = b.halfOpenProbes
  BY BreakerAssumption DEF Consistent, Breaker, CircuitState, Elapse

-----------------------------------------------------------------------------
LEMMA InitIInv == Init => IInv
  BY BreakerAssumption, RequestsAssumption
  DEF Init, IInv, TypeOK, ClosedIffBelowThreshold, TrialCount,
      NewUpstreamHealth, Breaker, CircuitState

(* Every step keeps the inductive invariant, and leaves an open circuit    *)
(* open unless it starts a trial after the duration.                       *)
LEMMA StepIInv ==
  ASSUME IInv, [Next]_vars
  PROVE  /\ IInv'
         /\ h.state = "open" /\ h'.state # "open" =>
              h'.state = "half-open" /\ h.openFor >= CB_OPEN_DURATION
<1> USE BreakerAssumption, RequestsAssumption
<1>0. h \in Breaker /\ Consistent(h)
  BY DEF IInv, TypeOK, ClosedIffBelowThreshold, Consistent
<1> DEFINE Ends == h.state = "open" /\ h'.state # "open" =>
                     h'.state = "half-open" /\ h.openFor >= CB_OPEN_DURATION
<1>1. ASSUME NEW r \in Requests, Admit(r)
      PROVE  IInv' /\ Ends
  <2>1. Consistent(h') /\ h' = AfterCanRequest(h) /\ CanRequest(h)
    BY <1>0, <1>1, GateKeeps DEF Admit
  <2>2. TypeOK'
    BY <1>1, <2>1 DEF IInv, TypeOK, Admit, env, Consistent
  <2>3. ClosedIffBelowThreshold'
    BY <2>1 DEF Consistent, ClosedIffBelowThreshold
  <2>4. h.state \in CircuitState /\ h.halfOpenProbes \in Nat
    BY <1>0 DEF Breaker
  <2>5. TrialCount' /\ Ends
    <3>1. CASE h.state = "closed"
      BY <1>0, <1>1, <2>1, <3>1, GateKeeps DEF IInv, TrialCount, Admit
    <3>2. CASE h.state = "open"
      BY <1>0, <1>1, <2>1, <3>2, GateKeeps DEF IInv, TrialCount, Admit
    <3>3. CASE h.state = "half-open"
      BY <1>0, <1>1, <2>1, <2>4, <3>3, GateKeeps DEF IInv, TrialCount, Admit
    <3> QED BY <2>4, <3>1, <3>2, <3>3 DEF CircuitState
  <2> QED BY <2>2, <2>3, <2>5 DEF IInv
<1>2. ASSUME NEW r \in Requests, Refuse(r)
      PROVE  IInv' /\ Ends
  <2>1. h' = h
    BY <1>0, <1>2, GateKeeps DEF Refuse
  <2> QED
    BY <1>2, <2>1
    DEF Refuse, env, IInv, TypeOK, ClosedIffBelowThreshold, TrialCount
<1>3. ASSUME NEW r \in Requests,
             RecordRefusal(r) \/ AttemptErrors(r) \/ ClientError(r)
      PROVE  IInv' /\ Ends
  <2>1. h' = RecordError(h)
    BY <1>3 DEF RecordRefusal, AttemptErrors, ClientError
  <2>2. /\ Consistent(h')
        /\ h'.state = "half-open" <=> h.state = "half-open"
        /\ h'.halfOpenProbes = h.halfOpenProbes
        /\ h.state = "open" => h'.state = "open"
    BY <1>0, <2>1, ErrorKeeps
  <2>3. trial' = IF h'.state = "half-open" THEN trial ELSE 0
    BY <1>3 DEF RecordRefusal, AttemptErrors, ClientError, KeepHistory, Return
  <2>4. TypeOK'
    BY <1>3, <2>2, <2>3 DEF RecordRefusal, AttemptErrors, ClientError,
                            Attempting, Return, env, IInv, TypeOK, Consistent
  <2> QED
    BY <2>2, <2>3, <2>4
    DEF IInv, Consistent, ClosedIffBelowThreshold, TrialCount
<1>4. ASSUME NEW r \in Requests, AttemptSucceeds(r)
      PROVE  IInv' /\ Ends
  <2>1. /\ Consistent(h')
        /\ h'.state # "half-open"
        /\ h.state = "open" => h'.state = "open"
    BY <1>0, <1>4, SuccessKeeps DEF AttemptSucceeds
  <2>2. TypeOK'
    BY <1>4, <2>1 DEF AttemptSucceeds, Attempting, Return, KeepHistory, env,
                      IInv, TypeOK, Consistent
  <2> QED
    BY <1>4, <2>1, <2>2
    DEF AttemptSucceeds, Return, KeepHistory, IInv, Consistent,
        ClosedIffBelowThreshold, TrialCount
<1>5. ASSUME NEW r \in Requests, AttemptUnrecorded(r) \/ GiveUp(r)
      PROVE  IInv' /\ Ends
  BY <1>5 DEF AttemptUnrecorded, Attempting, GiveUp, Return, KeepHistory, env,
              IInv, TypeOK, ClosedIffBelowThreshold, TrialCount
<1>6. CASE ActiveCheck
  <2>1. /\ h' = CheckPassed(h) \/ h' = CheckFailed(h)
        /\ KeepHistory
        /\ UNCHANGED <<env, pc, attempts>>
    BY <1>6 DEF ActiveCheck, checkGrok, checkCB, checkCF, NoEntries, Probe
  <2>2. /\ Consistent(h')
        /\ h.state = "open" => h'.state = "open"
        /\ h'.state = "half-open" =>
             h.state = "half-open" /\ h'.halfOpenProbes = h.halfOpenProbes
    BY <1>0, <2>1, SuccessKeeps, ErrorKeeps
  <2>3. TypeOK'
    BY <2>1, <2>2 DEF KeepHistory, env, IInv, TypeOK, Consistent
  <2> QED
    BY <2>1, <2>2, <2>3
    DEF KeepHistory, IInv, Consistent, ClosedIffBelowThreshold, TrialCount
<1>7. CASE EnvironmentChanges
  BY <1>7 DEF EnvironmentChanges, PoolStates, IInv, TypeOK,
              ClosedIffBelowThreshold, TrialCount
<1>8. CASE Tick
  <2>1. /\ Consistent(h')
        /\ h'.state = h.state
        /\ h'.halfOpenProbes = h.halfOpenProbes
    BY <1>0, <1>8, ElapseKeeps DEF Tick
  <2> QED
    BY <1>8, <2>1 DEF Tick, env, IInv, TypeOK, Consistent,
                      ClosedIffBelowThreshold, TrialCount
<1>9. CASE UNCHANGED vars
  BY <1>9 DEF vars, IInv, TypeOK, ClosedIffBelowThreshold, TrialCount
<1> QED
  BY <1>1, <1>2, <1>3, <1>4, <1>5, <1>6, <1>7, <1>8, <1>9 DEF Next, Handler

(* Type correctness, and the inductive invariant the others follow from.   *)
THEOREM IInvHolds == Spec => []IInv
  BY InitIInv, StepIInv, PTL DEF Spec

(* The circuit is closed exactly while the error streak is below the       *)
(* threshold, for every interleaving of RecordRequest, CanRequest and the  *)
(* active checks.                                                          *)
THEOREM ClosedIffBelowThresholdHolds == Spec => []ClosedIffBelowThreshold
  BY IInvHolds, PTL DEF IInv

(* At most CB_HALF_OPEN_PROBES + 1 requests reach a half-open upstream in  *)
(* one trial: CanRequest counts every admission but the first.             *)
THEOREM TrialBoundHolds == Spec => []TrialBound
<1>1. IInv => TrialBound
  BY BreakerAssumption DEF IInv, TypeOK, TrialCount, TrialBound, Breaker
<1> QED BY <1>1, IInvHolds, PTL

(* An open circuit lasts its duration and ends in a trial.                 *)
THEOREM OpenEndsInTrialHolds == Spec => OpenEndsInTrial
<1>1. IInv /\ [Next]_vars =>
        [h.state = "open" /\ h'.state # "open" =>
           h'.state = "half-open" /\ h.openFor >= CB_OPEN_DURATION]_vars
  BY StepIInv
<1> QED BY <1>1, IInvHolds, PTL DEF Spec, OpenEndsInTrial

-----------------------------------------------------------------------------
(* Custom models and aliases: a restart does not change where a name is    *)
(* routed, whatever calls of operators overlap.                            *)

EntryValues == Names \cup CustomUpstreams \cup {None}
ChangeRecord == [step : {"idle", "save", "apply"}, slot : Slots \cup {<<"models", None>>},
                 value : EntryValues, alone : BOOLEAN]

RegistryTypes ==
  /\ reg \in [Slots -> EntryValues] /\ stored \in [Slots -> EntryValues]
  /\ change \in [RegistryCallers -> ChangeRecord]
  /\ unsure \subseteq Slots
  /\ \A c \in RegistryCallers : change[c].step # "idle" => change[c].slot \in Slots

(* A call under way is marked alone only while no other one is under way   *)
(* on its entry, and the entry of one that is not is unsure.               *)
CrossedAreUnsure ==
  \A c \in RegistryCallers : change[c].step # "idle" =>
    /\ change[c].alone =>
         \A d \in RegistryCallers \ {c} :
           change[d].step # "idle" => change[d].slot # change[c].slot
    /\ ~change[c].alone => change[c].slot \in unsure

(* Between its write to Redis and that to the map, what a call wrote is    *)
(* still in Redis if nobody crossed it.                                    *)
WrittenAwaitsApply ==
  \A c \in RegistryCallers :
    change[c].step = "apply" /\ change[c].alone => stored[change[c].slot] = change[c].value

(* An entry that is not unsure differs from Redis only while a call has it *)
(* to apply.                                                               *)
EntryAsStored ==
  \A s \in Slots \ unsure :
    \/ reg[s] = stored[s]
    \/ \E c \in RegistryCallers : change[c].step = "apply" /\ change[c].slot = s

RegistryInv == RegistryTypes /\ CrossedAreUnsure /\ WrittenAwaitsApply /\ EntryAsStored

-----------------------------------------------------------------------------
LEMMA NoChangeFields ==
  /\ NoChange \in ChangeRecord
  /\ NoChange.step = "idle" /\ NoChange.alone = TRUE
  BY DEF NoChange, ChangeRecord, EntryValues

(* A call that ends leaves the other calls as they are. *)
LEMMA CallEnded ==
  ASSUME RegistryTypes, NEW c \in RegistryCallers,
         change' = [change EXCEPT ![c] = NoChange]
  PROVE  /\ change' \in [RegistryCallers -> ChangeRecord]
         /\ change'[c].step = "idle"
         /\ \A d \in RegistryCallers \ {c} : change'[d] = change[d]
  BY NoChangeFields DEF RegistryTypes

LEMMA ChangeEntryKeeps ==
  ASSUME RegistryInv, NEW c \in RegistryCallers, NEW s \in Slots, NEW value \in EntryValues,
         ChangeEntry(c, s, value)
  PROVE  RegistryInv'
<1> DEFINE first == Changing(s) = {}
<1>1. UNCHANGED <<reg, stored>> /\ change[c].step = "idle"
  BY NoChangeFields DEF ChangeEntry
<1>2. /\ change' \in [RegistryCallers -> ChangeRecord]
      /\ change'[c] = [step |-> "save", slot |-> s, value |-> value, alone |-> first]
      /\ \A d \in RegistryCallers \ {c} :
           /\ change'[d].step = change[d].step
           /\ change'[d].slot = change[d].slot
           /\ change'[d].value = change[d].value
           /\ change'[d].alone <=> change[d].alone /\ d \notin Changing(s)
  <2>1. [step |-> "save", slot |-> s, value |-> value, alone |-> first] \in ChangeRecord
    BY DEF ChangeRecord
  <2>2. ASSUME NEW d \in RegistryCallers
        PROVE  /\ [change[d] EXCEPT !.alone = FALSE] \in ChangeRecord
               /\ [change[d] EXCEPT !.alone = FALSE].step = change[d].step
               /\ [change[d] EXCEPT !.alone = FALSE].slot = change[d].slot
               /\ [change[d] EXCEPT !.alone = FALSE].value = change[d].value
               /\ ~[change[d] EXCEPT !.alone = FALSE].alone
    BY DEF RegistryInv, RegistryTypes, ChangeRecord
  <2>3. \A d \in RegistryCallers : change[d] \in ChangeRecord
    BY DEF RegistryInv, RegistryTypes
  <2> QED BY <2>1, <2>2, <2>3 DEF ChangeEntry
<1>3. unsure' = IF first THEN unsure ELSE unsure \cup {s}
  BY DEF ChangeEntry
<1>4. /\ change'[c].step = "save" /\ change'[c].slot = s /\ change'[c].alone = first
  BY <1>2
<1>5. \A d \in RegistryCallers : d \in Changing(s) <=> change[d].step # "idle" /\ change[d].slot = s
  BY DEF Changing
<1>6. RegistryTypes'
  BY <1>1, <1>2, <1>3, <1>4 DEF RegistryInv, RegistryTypes
<1>7. CrossedAreUnsure'
  <2> SUFFICES ASSUME NEW d \in RegistryCallers, change'[d].step # "idle"
               PROVE  /\ change'[d].alone =>
                           \A e \in RegistryCallers \ {d} :
                             change'[e].step # "idle" => change'[e].slot # change'[d].slot
                      /\ ~change'[d].alone => change'[d].slot \in unsure'
    BY DEF CrossedAreUnsure
  <2>1. CASE d = c
    BY <1>2, <1>3, <1>4, <1>5, <2>1
  <2>2. CASE d # c
    <3>1. /\ change[d].step # "idle" /\ change'[d].slot = change[d].slot
          /\ change'[d].alone <=> change[d].alone /\ d \notin Changing(s)
      BY <1>2, <2>2
    <3>2. ASSUME change'[d].alone, NEW e \in RegistryCallers \ {d}, change'[e].step # "idle"
          PROVE  change'[e].slot # change'[d].slot
      <4>1. CASE e = c
        BY <1>4, <1>5, <3>1, <3>2, <4>1
      <4>2. CASE e # c
        BY <1>2, <3>1, <3>2, <4>2 DEF RegistryInv, CrossedAreUnsure
      <4> QED BY <4>1, <4>2
    <3>3. ASSUME ~change'[d].alone
          PROVE  change'[d].slot \in unsure'
      <4>1. CASE d \in Changing(s)
        BY <1>3, <1>5, <3>1, <4>1
      <4>2. CASE d \notin Changing(s)
        BY <1>3, <3>1, <3>3, <4>2 DEF RegistryInv, CrossedAreUnsure
      <4> QED BY <4>1, <4>2
    <3> QED BY <3>2, <3>3
  <2> QED BY <2>1, <2>2
<1>8. WrittenAwaitsApply'
  BY <1>1, <1>2, <1>4 DEF RegistryInv, WrittenAwaitsApply
<1>9. EntryAsStored'
  BY <1>1, <1>2, <1>3, <1>4 DEF RegistryInv, EntryAsStored
<1> QED BY <1>6, <1>7, <1>8, <1>9 DEF RegistryInv

LEMMA SaveEntryKeeps ==
  ASSUME RegistryInv, NEW c \in RegistryCallers, NEW which, SaveEntry(c, which)
  PROVE  RegistryInv'
<1> DEFINE s == change[c].slot
<1>1. /\ change[c].step = "save" /\ s \in Slots /\ change[c].value \in EntryValues
      /\ UNCHANGED <<reg, unsure>>
  BY DEF RegistryInv, RegistryTypes, SaveEntry, ChangeRecord
<1>2. /\ stored' \in [Slots -> EntryValues]
      /\ stored'[s] = change[c].value
      /\ \A t \in Slots \ {s} : stored'[t] = stored[t]
  BY <1>1 DEF RegistryInv, RegistryTypes, SaveEntry, StoredBy
<1>3. /\ change' \in [RegistryCallers -> ChangeRecord]
      /\ change'[c].step = "apply" /\ change'[c].slot = s
      /\ change'[c].value = change[c].value /\ change'[c].alone = change[c].alone
      /\ \A d \in RegistryCallers \ {c} : change'[d] = change[d]
  BY DEF RegistryInv, RegistryTypes, SaveEntry, ChangeRecord
<1>4. RegistryTypes'
  BY <1>1, <1>2, <1>3 DEF RegistryInv, RegistryTypes
<1>5. CrossedAreUnsure'
  BY <1>1, <1>3 DEF RegistryInv, CrossedAreUnsure
<1>6. WrittenAwaitsApply'
  BY <1>1, <1>2, <1>3 DEF RegistryInv, RegistryTypes, WrittenAwaitsApply, CrossedAreUnsure
<1>7. EntryAsStored'
  BY <1>1, <1>2, <1>3 DEF RegistryInv, EntryAsStored
<1> QED BY <1>4, <1>5, <1>6, <1>7 DEF RegistryInv

LEMMA SaveTimesOutKeeps ==
  ASSUME RegistryInv, NEW c \in RegistryCallers, SaveTimesOut(c)
  PROVE  RegistryInv'
<1> DEFINE s == change[c].slot
<1>1. /\ change[c].step = "save" /\ s \in Slots /\ change[c].value \in EntryValues
      /\ UNCHANGED reg /\ unsure' = unsure \cup {s}
  BY DEF RegistryInv, RegistryTypes, SaveTimesOut, ChangeRecord
<1>2. /\ stored' \in [Slots -> EntryValues]
      /\ \A t \in Slots \ {s} : stored'[t] = stored[t]
  BY <1>1 DEF RegistryInv, RegistryTypes, SaveTimesOut, StoredBy
<1>3. /\ change' \in [RegistryCallers -> ChangeRecord]
      /\ change'[c].step = "idle"
      /\ \A d \in RegistryCallers \ {c} : change'[d] = change[d]
  BY CallEnded DEF RegistryInv, SaveTimesOut
<1>4. RegistryTypes'
  BY <1>1, <1>2, <1>3 DEF RegistryInv, RegistryTypes
<1>5. CrossedAreUnsure'
  BY <1>1, <1>3 DEF RegistryInv, CrossedAreUnsure
<1>6. WrittenAwaitsApply'
  BY <1>1, <1>2, <1>3 DEF RegistryInv, RegistryTypes, WrittenAwaitsApply, CrossedAreUnsure
<1>7. EntryAsStored'
  BY <1>1, <1>2, <1>3 DEF RegistryInv, EntryAsStored
<1> QED BY <1>4, <1>5, <1>6, <1>7 DEF RegistryInv

LEMMA ApplyEntryKeeps ==
  ASSUME RegistryInv, NEW c \in RegistryCallers, NEW which, ApplyEntry(c, which)
  PROVE  RegistryInv'
<1> DEFINE s == change[c].slot
<1>1. /\ change[c].step = "apply" /\ s \in Slots /\ change[c].value \in EntryValues
      /\ UNCHANGED stored
      /\ unsure' = IF change[c].alone THEN unsure \ {s} ELSE unsure
  BY DEF RegistryInv, RegistryTypes, ApplyEntry, ChangeRecord
<1>2. /\ reg' \in [Slots -> EntryValues]
      /\ reg'[s] = change[c].value
      /\ \A t \in Slots \ {s} : reg'[t] = reg[t]
  BY <1>1 DEF RegistryInv, RegistryTypes, ApplyEntry, Applied
<1>3. /\ change' \in [RegistryCallers -> ChangeRecord]
      /\ change'[c].step = "idle"
      /\ \A d \in RegistryCallers \ {c} : change'[d] = change[d]
  BY CallEnded DEF RegistryInv, ApplyEntry
<1>4. RegistryTypes'
  BY <1>1, <1>2, <1>3 DEF RegistryInv, RegistryTypes
<1>5. CrossedAreUnsure'
  BY <1>1, <1>3 DEF RegistryInv, CrossedAreUnsure
<1>6. WrittenAwaitsApply'
  BY <1>1, <1>3 DEF RegistryInv, WrittenAwaitsApply
<1>7. EntryAsStored'
  <2> SUFFICES ASSUME NEW t \in Slots \ unsure'
               PROVE  \/ reg'[t] = stored'[t]
                      \/ \E d \in RegistryCallers : change'[d].step = "apply" /\ change'[d].slot = t
    BY DEF EntryAsStored
  <2>1. CASE t = s
    <3>1. change[c].alone
      BY <1>1, <2>1 DEF RegistryInv, CrossedAreUnsure
    <3> QED BY <1>1, <1>2, <2>1, <3>1 DEF RegistryInv, WrittenAwaitsApply
  <2>2. CASE t # s
    BY <1>1, <1>2, <1>3, <2>2 DEF RegistryInv, EntryAsStored
  <2> QED BY <2>1, <2>2
<1> QED BY <1>4, <1>5, <1>6, <1>7 DEF RegistryInv

LEMMA LoadRegistryKeeps ==
  ASSUME RegistryInv, LoadRegistry
  PROVE  RegistryInv'
<1>1. /\ \A c \in RegistryCallers : change'[c].step = "idle"
      /\ change' \in [RegistryCallers -> ChangeRecord]
  BY NoChangeFields DEF LoadRegistry
<1>2. RegistryTypes'
  BY <1>1 DEF RegistryInv, RegistryTypes, LoadRegistry, EntryValues
<1>3. CrossedAreUnsure' /\ WrittenAwaitsApply'
  BY <1>1 DEF CrossedAreUnsure, WrittenAwaitsApply
<1>4. EntryAsStored'
  BY DEF RegistryInv, RegistryTypes, LoadRegistry, EntryAsStored
<1> QED BY <1>2, <1>3, <1>4 DEF RegistryInv

-----------------------------------------------------------------------------
LEMMA RegistryInvInit == RegistryInit => RegistryInv
<1> SUFFICES ASSUME RegistryInit PROVE RegistryInv
  OBVIOUS
<1>1. /\ \A c \in RegistryCallers : change[c].step = "idle"
      /\ change \in [RegistryCallers -> ChangeRecord]
  BY NoChangeFields DEF RegistryInit
<1> QED BY <1>1 DEF RegistryInit, RegistryInv, RegistryTypes, CrossedAreUnsure,
                    WrittenAwaitsApply, EntryAsStored, EntryValues

LEMMA RegistryInvStep == RegistryInv /\ [RegistryNext]_registryVars => RegistryInv'
<1> SUFFICES ASSUME RegistryInv, [RegistryNext]_registryVars PROVE RegistryInv'
  OBVIOUS
<1>1. ASSUME NEW c \in RegistryCallers, RegistryStep(c) PROVE RegistryInv'
  BY <1>1, SaveEntryKeeps, SaveTimesOutKeeps, ApplyEntryKeeps
     DEF RegistryStep, SaveCustomModel, DeleteCustomModel, SaveCustomAlias, DeleteCustomAlias,
         AddModel, DeleteModel, AddAlias, DeleteAlias
<1>2. ASSUME NEW c \in RegistryCallers, NEW id \in ModelIds,
             \/ \E u \in CustomUpstreams : HandleAddCustomModel(c, id, u)
             \/ HandleDeleteCustomModel(c, id)
      PROVE  RegistryInv'
  <2>1. <<"models", id>> \in Slots /\ CustomUpstreams \cup {None} \subseteq EntryValues
    BY DEF Slots, EntryValues
  <2> QED BY <1>2, <2>1, ChangeEntryKeeps DEF HandleAddCustomModel, HandleDeleteCustomModel
<1>3. ASSUME NEW c \in RegistryCallers, NEW alias \in AliasNames,
             \/ \E target \in Names : HandleAddAlias(c, alias, target)
             \/ HandleDeleteAlias(c, alias)
      PROVE  RegistryInv'
  <2>1. <<"aliases", alias>> \in Slots /\ Names \cup {None} \subseteq EntryValues
    BY DEF Slots, EntryValues
  <2> QED BY <1>3, <2>1, ChangeEntryKeeps DEF HandleAddAlias, HandleDeleteAlias
<1>4. CASE UNCHANGED registryVars
  BY <1>4 DEF registryVars, RegistryInv, RegistryTypes, CrossedAreUnsure, WrittenAwaitsApply,
              EntryAsStored
<1> QED BY <1>1, <1>2, <1>3, <1>4, LoadRegistryKeeps DEF RegistryNext

LEMMA RegistryInvHolds == RegistrySpec => []RegistryInv
  BY RegistryInvInit, RegistryInvStep, PTL DEF RegistrySpec

(* A settled entry is the same in the map and in Redis, and Resolve reads  *)
(* only entries of the alias, of its target in the map and in Redis.       *)
LEMMA ResolvedAlike == RegistryInv => RoutedAsStored
<1> SUFFICES ASSUME RegistryInv, NEW n \in Names,
                    LET read == {<<"aliases", n>>, <<"models", Resolve(reg, n).model>>,
                                 <<"models", Resolve(stored, n).model>>}
                    IN  \A s \in read : s \notin unsure /\ Changing(s) = {}
             PROVE  Resolve(reg, n) = Resolve(stored, n)
  BY DEF RoutedAsStored
<1>1. ASSUME NEW s \in Slots \ unsure, Changing(s) = {}
      PROVE  reg[s] = stored[s]
  BY <1>1 DEF RegistryInv, EntryAsStored, Changing
<1> DEFINE At(tables, which, m) ==
      IF <<which, m>> \in Slots THEN tables[<<which, m>>] ELSE None
<1>2. At(reg, "aliases", n) = At(stored, "aliases", n)
  BY <1>1
<1> DEFINE model == IF At(reg, "aliases", n) = None THEN n ELSE At(reg, "aliases", n)
<1>3. /\ Resolve(reg, n) = [model |-> model, upstream |-> At(reg, "models", model)]
      /\ Resolve(stored, n) = [model |-> model, upstream |-> At(stored, "models", model)]
  BY <1>2 DEF Resolve
<1> HIDE DEF model
<1>4. At(reg, "models", model) = At(stored, "models", model)
  BY <1>1, <1>3
<1> QED BY <1>3, <1>4

(* A restart does not change where a name is routed: Resolve gives the     *)
(* same from memory as from Redis for every name whose entries no call is  *)
(* changing and whose last changes neither crossed nor timed out           *)
(* (AddModel, DeleteModel, AddAlias, DeleteAlias, Resolve).                *)
THEOREM RoutedAsStoredHolds == RegistrySpec => []RoutedAsStored
  BY RegistryInvHolds, ResolvedAlike, PTL

-----------------------------------------------------------------------------
(* Rate limits: the token bucket.                                          *)

BucketRecord == [here : BOOLEAN, tokens : Nat, lastTime : Nat]

RateTypes ==
  /\ override \in Overrides \cup {NoOverride}
  /\ bucket \in BucketRecord /\ rateNow \in Nat /\ bucket.lastTime <= rateNow
  /\ admits \in Seq(Nat)
  /\ \A i \in 1..Len(admits) :
       admits[i] <= rateNow /\ (bucket.here => admits[i] <= bucket.lastTime)

(* What was spent since an admission and what is left is what the bucket   *)
(* could hold and what time brought; a bucket is dropped for free only     *)
(* when it is full again.                                                  *)
Account ==
  \A i \in 1..Len(admits) :
    IF bucket.here
    THEN (Len(admits) - i + 1) * Window + bucket.tokens
           <= Burst * Window + RPM * (bucket.lastTime - admits[i])
    ELSE (Len(admits) - i + 1) * Window <= RPM * (rateNow - admits[i])

RateInv == RateTypes /\ Account /\ RateBound

LEMMA Limits == RateTypes => RPM \in Nat /\ Burst \in Nat
  BY RateAssumption DEF RateTypes, RPM, Burst, NoOverride

LEMMA Products ==
  ASSUME NEW r \in Nat, NEW a \in Nat, NEW b \in Nat, NEW c \in Nat, a <= b, b <= c
  PROVE  /\ r * (c - a) = r * (b - a) + (c - b) * r
         /\ r * (c - a) \in Nat /\ r * (b - a) \in Nat /\ (c - b) * r \in Nat
  OBVIOUS

LEMMA NatProduct == \A x, y \in Nat : x * y \in Nat
  OBVIOUS

LEMMA OneMore == ASSUME NEW n \in Nat, NEW w \in Nat PROVE (n + 1) * w = n * w + w
  OBVIOUS

LEMMA NoBucketFields ==
  NoBucket \in BucketRecord /\ NoBucket.here = FALSE /\ NoBucket.tokens = 0 /\ NoBucket.lastTime = 0
  BY DEF NoBucket, BucketRecord

LEMMA BucketFields ==
  RateTypes => bucket.here \in BOOLEAN /\ bucket.tokens \in Nat /\ bucket.lastTime \in Nat
  BY DEF RateTypes, BucketRecord

(* The tokens there are for a request at this time. *)
Tokens == IF bucket.here THEN Refilled(bucket) ELSE Burst * Window

LEMMA TokensAccount ==
  ASSUME RateInv
  PROVE  /\ Tokens \in Nat /\ Tokens <= Burst * Window /\ Burst * Window \in Nat
         /\ \A i \in 1..Len(admits) :
              (Len(admits) - i + 1) * Window + Tokens
                <= Burst * Window + RPM * (rateNow - admits[i])
<1>1. /\ RPM \in Nat /\ Burst \in Nat /\ Window \in Nat /\ rateNow \in Nat
      /\ bucket.tokens \in Nat /\ bucket.lastTime \in Nat /\ bucket.lastTime <= rateNow
      /\ admits \in Seq(Nat) /\ Len(admits) \in Nat
  BY Limits, BucketFields, RateAssumption DEF RateInv, RateTypes
<1>2. PICK cap \in Nat : cap = Burst * Window
  BY <1>1, NatProduct
<1>3. PICK gain \in Nat : gain = (rateNow - bucket.lastTime) * RPM
  BY <1>1, NatProduct
<1>4. Tokens = IF bucket.here
               THEN IF bucket.tokens + gain > cap THEN cap ELSE bucket.tokens + gain
               ELSE cap
  BY <1>2, <1>3 DEF Tokens, Refilled
<1>5. Tokens \in Nat /\ Tokens <= cap
  BY <1>1, <1>2, <1>3, <1>4, SMTT(30)
<1>6. ASSUME NEW i \in 1..Len(admits)
      PROVE  (Len(admits) - i + 1) * Window + Tokens <= cap + RPM * (rateNow - admits[i])
  <2>1. /\ admits[i] \in Nat /\ admits[i] <= rateNow
        /\ bucket.here => admits[i] <= bucket.lastTime
    BY <1>1 DEF RateInv, RateTypes
  <2>2. PICK spent \in Nat : spent = (Len(admits) - i + 1) * Window
    BY <1>1, NatProduct
  <2>3. CASE bucket.here
    <3>1. /\ RPM * (rateNow - admits[i]) = RPM * (bucket.lastTime - admits[i]) + gain
          /\ RPM * (bucket.lastTime - admits[i]) \in Nat
      <4>1. PICK r \in Nat, a \in Nat, b \in Nat, c \in Nat :
              r = RPM /\ a = admits[i] /\ b = bucket.lastTime /\ c = rateNow
        BY <1>1, <2>1
      <4>2. a <= b /\ b <= c
        BY <1>1, <2>1, <2>3, <4>1
      <4>3. r * (c - a) = r * (b - a) + (c - b) * r /\ r * (b - a) \in Nat
        BY <4>2, Products
      <4> QED BY <1>3, <4>1, <4>3
    <3>2. spent + bucket.tokens <= cap + RPM * (bucket.lastTime - admits[i])
      BY <1>2, <2>2, <2>3 DEF RateInv, Account
    <3>3. Tokens <= bucket.tokens + gain
      BY <1>1, <1>4, <2>3
    <3>4. PICK u \in Nat : u = RPM * (bucket.lastTime - admits[i])
      BY <3>1
    <3>5. spent + Tokens <= cap + (u + gain)
      <4>1. PICK t \in Nat, b \in Nat : t = Tokens /\ b = bucket.tokens
        BY <1>1, <1>5
      <4>2. spent + b <= cap + u /\ t <= b + gain
        BY <3>2, <3>3, <3>4, <4>1
      <4>3. spent + t <= cap + (u + gain)
        BY <4>2
      <4> QED BY <4>1, <4>3
    <3> QED BY <2>2, <3>1, <3>4, <3>5
  <2>4. CASE ~bucket.here
    <3>1. PICK v \in Nat : v = RPM * (rateNow - admits[i])
      BY <1>1, <2>1, NatProduct
    <3>2. spent <= v
      BY <2>2, <2>4, <3>1 DEF RateInv, Account
    <3>3. Tokens = cap
      BY <1>4, <2>4
    <3> QED BY <2>2, <3>1, <3>2, <3>3
  <2> QED BY <2>3, <2>4
<1> QED BY <1>2, <1>5, <1>6

LEMMA RequestKeeps ==
  ASSUME RateInv, AllowWithLimit, UNCHANGED <<override, rateNow>>
  PROVE  RateInv'
<1> DEFINE allowed == Tokens >= Window
           n == Len(admits)
<1>1. /\ Tokens \in Nat /\ Tokens <= Burst * Window /\ Burst * Window \in Nat
      /\ \A i \in 1..Len(admits) :
           (Len(admits) - i + 1) * Window + Tokens
             <= Burst * Window + RPM * (rateNow - admits[i])
  BY TokensAccount
<1>2. /\ RateTypes /\ RPM \in Nat /\ Window \in Nat \ {0} /\ rateNow \in Nat
      /\ admits \in Seq(Nat) /\ n \in Nat
      /\ \A i \in 1..n : admits[i] \in Nat /\ admits[i] <= rateNow
  BY Limits, RateAssumption DEF RateInv, RateTypes
<1>3. RPM' = RPM /\ Burst' = Burst
  BY DEF RPM, Burst
<1>4. /\ bucket' \in BucketRecord /\ bucket'.here /\ bucket'.lastTime = rateNow
      /\ bucket'.tokens = IF allowed THEN Tokens - Window ELSE Tokens
  <2>1. PICK rest \in Nat : rest = IF allowed THEN Tokens - Window ELSE Tokens
    <3>1. CASE allowed
      <4>1. Tokens - Window \in Nat
        BY <1>1, <1>2, <3>1
      <4> QED BY <3>1, <4>1
    <3>2. CASE ~allowed
      BY <1>1, <3>2
    <3> QED BY <3>1, <3>2
  <2>2. bucket' = [here |-> TRUE, lastTime |-> rateNow, tokens |-> rest]
    BY <2>1 DEF AllowWithLimit, Tokens
  <2> QED BY <1>2, <2>1, <2>2 DEF BucketRecord
<1>5. admits' = IF allowed THEN Append(admits, rateNow) ELSE admits
  BY DEF AllowWithLimit, Tokens
<1> HIDE DEF allowed
<1>6. /\ admits' \in Seq(Nat)
      /\ Len(admits') = IF allowed THEN n + 1 ELSE n
      /\ \A i \in 1..n : admits'[i] = admits[i]
      /\ allowed => admits'[n + 1] = rateNow
  BY <1>2, <1>5, AppendProperties
<1>7. \A i \in 1..Len(admits') : i \in 1..n \/ (allowed /\ i = n + 1)
  BY <1>2, <1>6
<1>8. RateTypes'
  <2>1. \A i \in 1..Len(admits') : admits'[i] <= rateNow
    BY <1>2, <1>6, <1>7, SMTT(30)
  <2> QED BY <1>2, <1>4, <1>6, <2>1 DEF RateTypes
<1>9. ASSUME NEW i \in 1..Len(admits')
      PROVE  (Len(admits') - i + 1) * Window + bucket'.tokens
               <= Burst * Window + RPM * (rateNow - admits'[i])
  <2>1. PICK cap \in Nat, t \in Nat, w \in Nat : cap = Burst * Window /\ t = Tokens /\ w = Window
    BY <1>1, <1>2
  <2>2. CASE i \in 1..n
    <3>1. PICK v \in Nat : v = RPM * (rateNow - admits[i])
      BY <1>2, <2>2, NatProduct
    <3>2. PICK m \in Nat : m = n - i + 1
      <4>1. ASSUME NEW l \in Nat, NEW x \in 1..l PROVE l - x + 1 \in Nat
        OBVIOUS
      <4>2. n - i + 1 \in Nat
        <5> HIDE DEF n
        <5> QED BY <1>2, <2>2, <4>1
      <4> QED BY <4>2
    <3>3. m * w + t <= cap + v /\ m * w \in Nat
      BY <1>1, <2>1, <2>2, <3>1, <3>2, NatProduct
    <3>4. CASE allowed
      <4>1. Len(admits') - i + 1 = m + 1
        BY <1>2, <1>6, <2>2, <3>2, <3>4
      <4>2. (m + 1) * w = m * w + w
        BY OneMore
      <4>3. bucket'.tokens = t - w
        BY <1>4, <2>1, <3>4
      <4>4. (m * w + w) + (t - w) <= cap + v
        BY <3>3
      <4>5. (Len(admits') - i + 1) * Window = m * w + w
        BY <2>1, <4>1, <4>2
      <4> QED BY <1>6, <2>1, <2>2, <3>1, <4>3, <4>4, <4>5
    <3>5. CASE ~allowed
      <4>1. Len(admits') - i + 1 = m /\ bucket'.tokens = t
        BY <1>4, <1>6, <2>1, <3>2, <3>5
      <4> QED BY <1>6, <2>1, <2>2, <3>1, <3>3, <4>1
    <3> QED BY <3>4, <3>5
  <2>3. CASE allowed /\ i = n + 1
    <3>1. Len(admits') - i + 1 = 1 /\ bucket'.tokens = t - w
      BY <1>2, <1>4, <1>6, <2>1, <2>3
    <3>2. 1 * w = w /\ RPM * (rateNow - admits'[i]) = 0
      <4>1. rateNow - admits'[i] = 0
        BY <1>2, <1>6, <2>3
      <4> QED BY <1>2, <4>1
    <3>3. w + (t - w) <= cap + 0
      BY <1>1, <2>1
    <3>4. (Len(admits') - i + 1) * Window = w
      BY <2>1, <3>1, <3>2
    <3> QED BY <2>1, <3>1, <3>2, <3>3, <3>4
  <2> QED BY <1>7, <2>2, <2>3
<1>10. Account'
  BY <1>3, <1>4, <1>9 DEF Account
<1>11. RateBound'
  <2> SUFFICES ASSUME NEW i \in 1..Len(admits'), NEW j \in 1..Len(admits'), i <= j
               PROVE  (j - i + 1) * Window <= Burst * Window + RPM * (admits'[j] - admits'[i])
    BY <1>3 DEF RateBound
  <2>1. CASE j \in 1..n
    <3>1. i \in 1..n
      BY <1>2, <1>6, <2>1
    <3> QED BY <1>6, <2>1, <3>1 DEF RateInv, RateBound
  <2>2. CASE allowed /\ j = n + 1
    <3>1. j = Len(admits') /\ admits'[j] = rateNow
      BY <1>6, <2>2
    <3>2. PICK x \in Nat, b \in Nat, y \in Nat :
            /\ x = (Len(admits') - i + 1) * Window /\ b = bucket'.tokens
            /\ y = Burst * Window + RPM * (rateNow - admits'[i])
      <4>1. admits'[i] \in Nat /\ admits'[i] <= rateNow /\ Len(admits') \in Nat
        BY <1>6, <1>8 DEF RateTypes
      <4>2. Len(admits') - i + 1 \in Nat /\ rateNow - admits'[i] \in Nat
        BY <1>2, <4>1
      <4>3. bucket'.tokens \in Nat
        BY <1>4 DEF BucketRecord
      <4>4. (Len(admits') - i + 1) * Window \in Nat /\ RPM * (rateNow - admits'[i]) \in Nat
        BY <1>2, <4>2, NatProduct
      <4> QED BY <1>1, <4>3, <4>4
    <3>3. x + b <= y
      BY <1>9, <3>2
    <3>4. x <= y
      BY <3>3
    <3> QED BY <3>1, <3>2, <3>4
  <2> QED BY <1>7, <2>1, <2>2
<1> QED BY <1>8, <1>10, <1>11 DEF RateInv

LEMMA CleanupKeeps ==
  ASSUME RateInv, cleanup
  PROVE  RateInv'
<1>1. /\ bucket.here /\ bucket' = NoBucket /\ UNCHANGED <<override, rateNow>>
      /\ admits' = IF Refilled(bucket) < Burst * Window THEN <<>> ELSE admits
  BY DEF cleanup
<1>2. RPM' = RPM /\ Burst' = Burst /\ ~bucket'.here
  BY <1>1, NoBucketFields DEF RPM, Burst
<1>3. RateTypes'
  BY <1>1, NoBucketFields DEF RateInv, RateTypes
<1>4. CASE Refilled(bucket) < Burst * Window
  BY <1>1, <1>3, <1>4 DEF RateInv, Account, RateBound
<1>5. CASE ~(Refilled(bucket) < Burst * Window)
  <2>1. admits' = admits /\ Tokens = Refilled(bucket)
    BY <1>1, <1>5 DEF Tokens
  <2>2. /\ Tokens \in Nat /\ Tokens <= Burst * Window /\ Burst * Window \in Nat
        /\ \A i \in 1..Len(admits) :
             (Len(admits) - i + 1) * Window + Tokens
               <= Burst * Window + RPM * (rateNow - admits[i])
    BY TokensAccount
  <2>3. PICK cap \in Nat : cap = Burst * Window /\ cap = Tokens
    BY <1>5, <2>1, <2>2
  <2>4. ASSUME NEW i \in 1..Len(admits)
        PROVE  (Len(admits) - i + 1) * Window <= RPM * (rateNow - admits[i])
    <3>1. /\ RPM \in Nat /\ Window \in Nat /\ rateNow \in Nat
          /\ admits[i] \in Nat /\ admits[i] <= rateNow /\ Len(admits) \in Nat
      BY Limits, RateAssumption DEF RateInv, RateTypes
    <3>2. PICK x \in Nat, y \in Nat :
            x = (Len(admits) - i + 1) * Window /\ y = RPM * (rateNow - admits[i])
      BY <3>1, NatProduct
    <3>3. x + cap <= cap + y
      BY <2>2, <2>3, <3>2
    <3>4. x <= y
      BY <3>3
    <3> QED BY <3>2, <3>4
  <2>5. Account'
    BY <1>1, <1>2, <2>1, <2>4 DEF Account
  <2>6. RateBound'
    BY <1>2, <2>1 DEF RateInv, RateBound
  <2> QED BY <1>3, <2>5, <2>6 DEF RateInv
<1> QED BY <1>4, <1>5

LEMMA TickKeeps ==
  ASSUME RateInv, RateTick
  PROVE  RateInv'
<1>1. rateNow' = rateNow + 1 /\ UNCHANGED <<override, bucket, admits>>
  BY DEF RateTick
<1>2. RPM' = RPM /\ Burst' = Burst
  BY <1>1 DEF RPM, Burst
<1>3. RateTypes'
  <2>1. \A i \in 1..Len(admits) : admits[i] \in Nat
    BY DEF RateInv, RateTypes
  <2> QED BY <1>1, <2>1, BucketFields DEF RateInv, RateTypes
<1>4. Account'
  <2>1. CASE bucket.here
    BY <1>1, <1>2, <2>1 DEF RateInv, Account
  <2>2. CASE ~bucket.here
    <3> SUFFICES ASSUME NEW i \in 1..Len(admits)
                 PROVE  (Len(admits) - i + 1) * Window <= RPM * ((rateNow + 1) - admits[i])
      BY <1>1, <1>2, <2>2 DEF Account
    <3>1. /\ RPM \in Nat /\ Window \in Nat /\ rateNow \in Nat
          /\ admits[i] \in Nat /\ admits[i] <= rateNow /\ Len(admits) \in Nat
      BY Limits, RateAssumption DEF RateInv, RateTypes
    <3>2. PICK r \in Nat, a \in Nat, b \in Nat, c \in Nat :
            r = RPM /\ a = admits[i] /\ b = rateNow /\ c = rateNow + 1
      BY <3>1
    <3>3. a <= b /\ b <= c
      BY <3>1, <3>2
    <3>4. /\ r * (c - a) = r * (b - a) + (c - b) * r
          /\ r * (b - a) \in Nat /\ (c - b) * r \in Nat
      BY <3>3, Products
    <3>5. PICK x \in Nat : x = (Len(admits) - i + 1) * Window
      BY <3>1, NatProduct
    <3>6. x <= r * (b - a)
      BY <2>2, <3>2, <3>5 DEF RateInv, Account
    <3>7. x <= r * (c - a)
      BY <3>4, <3>6
    <3> QED BY <3>2, <3>5, <3>7
  <2> QED BY <2>1, <2>2
<1>5. RateBound'
  BY <1>1, <1>2 DEF RateInv, RateBound
<1> QED BY <1>3, <1>4, <1>5 DEF RateInv

LEMMA RateStep == RateInv /\ [RateNext]_rateVars => RateInv'
<1> SUFFICES ASSUME RateInv, [RateNext]_rateVars PROVE RateInv'
  OBVIOUS
<1>1. CASE UNCHANGED rateVars \/ (Middleware /\ Unlimited)
  <2>1. UNCHANGED <<override, bucket, rateNow, admits>>
    BY <1>1 DEF rateVars, Middleware
  <2>2. RPM' = RPM /\ Burst' = Burst
    BY <2>1 DEF RPM, Burst
  <2> QED BY <2>1, <2>2 DEF RateInv, RateTypes, Account, RateBound
<1>2. CASE Middleware /\ ~Unlimited
  BY <1>2, RequestKeeps DEF Middleware
<1>3. ASSUME NEW l \in Overrides, SetOverride(l) PROVE RateInv'
  <2>1. /\ override' \in Overrides /\ admits' = <<>> /\ UNCHANGED <<bucket, rateNow>>
    BY <1>3 DEF SetOverride
  <2>2. RateTypes'
    BY <2>1 DEF RateInv, RateTypes
  <2>3. Account' /\ RateBound'
    BY <2>1 DEF Account, RateBound
  <2> QED BY <2>2, <2>3 DEF RateInv
<1> QED BY <1>1, <1>2, <1>3, CleanupKeeps, TickKeeps DEF RateNext

LEMMA RateStarts == RateInit => RateInv
  BY NoBucketFields DEF RateInit, RateInv, RateTypes, Account, RateBound

(* In every interval a client gets at most a burst and what the rate       *)
(* brings, whatever the limits and the window are (ratelimit.go,           *)
(* AllowWithLimit and cleanup).                                            *)
THEOREM RateBoundHolds == RateSpec => []RateBound
<1>1. RateSpec => []RateInv
  BY RateStarts, RateStep, PTL DEF RateSpec
<1>2. RateInv => RateBound
  BY DEF RateInv
<1> QED BY <1>1, <1>2, PTL

-----------------------------------------------------------------------------
(* The response cache: the loop of Put always gets the map small enough.   *)

CacheInv ==
  /\ items \in [CacheKeys -> Nat] /\ order \in Seq(CacheKeys)
  /\ clock \in Nat /\ clock <= MaxClock
  /\ CacheBounded

(* A non-empty set of naturals has a least member. *)
LEMMA LeastBelow ==
  ASSUME NEW D, D \subseteq Nat, D # {}
  PROVE  \E x \in D : \A y \in D : x <= y
<1>1. PICK x \in D : \A y \in D : ~ (<<y, x>> \in OpToRel(<, Nat))
  BY NatLessThanWellFounded, WFMin
<1>2. ASSUME NEW y \in D PROVE x <= y
  <2>1. <<y, x>> \in OpToRel(<, Nat) <=> <<y, x>> \in {p \in Nat \X Nat : p[1] < p[2]}
    BY Zenon DEF OpToRel
  <2>2. y < x => <<y, x>> \in {p \in Nat \X Nat : p[1] < p[2]}
    OBVIOUS
  <2>3. ~ (y < x)
    BY <1>1, <2>1, <2>2, Zenon
  <2> QED BY <2>3
<1> QED BY <1>2

LEMMA LeastExists ==
  ASSUME NEW D, D \subseteq Nat, D # {}
  PROVE  Min(D) \in D
<1>1. \E x \in D : \A y \in D : x <= y
  BY LeastBelow
<1> QED BY <1>1 DEF Min

LEMMA SlotInSet ==
  ASSUME NEW s \in Seq(CacheKeys), NEW i \in 1..Len(s)
  PROVE  s[i] \in ToSet(s)
  BY DEF ToSet

LEMMA SlotsCut ==
  ASSUME NEW s \in Seq(CacheKeys), NEW n \in 0..Len(s)
  PROVE  /\ SubSeq(s, n + 1, Len(s)) \in Seq(CacheKeys)
         /\ ToSet(s) \ ToSet(SubSeq(s, 1, n)) \subseteq ToSet(SubSeq(s, n + 1, Len(s)))
<1> DEFINE m == Len(s)
           a == SubSeq(s, 1, n)
           z == SubSeq(s, n + 1, m)
<1>1. m \in Nat /\ n \in Nat /\ n <= m
  OBVIOUS
<1>2. /\ a \in Seq(CacheKeys) /\ Len(a) = n /\ \A i \in 1..n : a[i] = s[i]
      /\ z \in Seq(CacheKeys) /\ Len(z) = m - n /\ \A i \in 1..(m - n) : z[i] = s[n + i]
  BY <1>1, SubSeqProperties
<1>3. ToSet(s) = {s[i] : i \in 1..m}
  BY DEF ToSet
<1> HIDE DEF a, z
<1>4. /\ \A i \in 1..n : s[i] \in ToSet(a)
      /\ \A i \in 1..(m - n) : s[n + i] \in ToSet(z)
  <2>1. ASSUME NEW i \in 1..n PROVE s[i] \in ToSet(a)
    <3>1. a[i] \in ToSet(a)
      BY <1>2, SlotInSet
    <3> QED BY <1>2, <3>1
  <2>2. ASSUME NEW i \in 1..(m - n) PROVE s[n + i] \in ToSet(z)
    <3>1. z[i] \in ToSet(z)
      BY <1>2, SlotInSet
    <3> QED BY <1>2, <3>1
  <2> QED BY <2>1, <2>2
<1>5. ASSUME NEW x \in ToSet(s) PROVE x \in ToSet(a) \/ x \in ToSet(z)
  <2>1. PICK i \in 1..m : x = s[i]
    BY <1>3
  <2>2. CASE i <= n
    BY <1>1, <1>4, <2>1, <2>2
  <2>3. CASE i > n
    <3>1. PICK j \in 1..(m - n) : i = n + j
      <4>1. i - n \in 1..(m - n) /\ i = n + (i - n)
        BY <1>1, <2>3
      <4> QED BY <4>1
    <3> QED BY <1>4, <2>1, <3>1
  <2> QED BY <1>1, <2>2, <2>3
<1> QED BY <1>2, <1>5 DEF a, z

(* Drops finds a number of slots whose keys, deleted, leave max entries. *)
LEMMA DropsEnough ==
  ASSUME NEW C \in SUBSET CacheKeys, NEW s \in Seq(CacheKeys), C \subseteq ToSet(s)
  PROVE  /\ Drops(C, s) \in 0..Len(s)
         /\ Cardinality(C \ ToSet(SubSeq(s, 1, Drops(C, s)))) <= MaxItems
<1> DEFINE D == {n \in 0..Len(s) : Cardinality(C \ ToSet(SubSeq(s, 1, n))) <= MaxItems}
<1>1. SubSeq(s, 1, Len(s)) = s
  OBVIOUS
<1>2. C \ ToSet(s) = {} /\ Cardinality({}) = 0 /\ 0 <= MaxItems
  BY FS_EmptySet, CacheAssumption
<1>3. Len(s) \in D
  <2>1. Len(s) \in 0..Len(s)
    OBVIOUS
  <2>2. Cardinality(C \ ToSet(SubSeq(s, 1, Len(s)))) <= MaxItems
    BY <1>1, <1>2, Zenon
  <2> QED BY <2>1, <2>2, Zenon
<1>4. Min(D) \in D
  <2>1. D \subseteq 0..Len(s)
    BY Zenon
  <2> HIDE DEF D
  <2>2. D \subseteq Nat /\ D # {}
    BY <1>3, <2>1
  <2> QED BY <2>2, LeastExists
<1>5. Drops(C, s) = Min(D)
  BY DEF Drops
<1> QED BY <1>4, <1>5

LEMMA FewerStayBounded ==
  ASSUME NEW C \in SUBSET CacheKeys, NEW E \in SUBSET C, Cardinality(C) <= MaxItems
  PROVE  Cardinality(E) <= MaxItems
<1>1. IsFiniteSet(C) /\ IsFiniteSet(E) /\ Cardinality(E) <= Cardinality(C)
  BY CacheAssumption, FS_Subset
<1>2. Cardinality(E) \in Nat /\ Cardinality(C) \in Nat /\ MaxItems \in Nat
  BY <1>1, FS_CardinalityType, CacheAssumption
<1> QED BY <1>1, <1>2

LEMMA GetKeeps ==
  ASSUME CacheInv, NEW k \in CacheKeys, Get(k)
  PROVE  CacheInv'
<1>1. PICK no \in Nat : no = NoItem
  BY CacheAssumption DEF NoItem
<1>2. items' = [items EXCEPT ![k] = no] /\ UNCHANGED <<order, clock>>
  BY <1>1 DEF Get
<1>3. items' \in [CacheKeys -> Nat] /\ Cached' \subseteq Cached /\ Cached \subseteq CacheKeys
  BY <1>1, <1>2 DEF CacheInv, Cached, NoItem
<1>4. Cardinality(Cached') <= MaxItems
  BY <1>3, FewerStayBounded DEF CacheInv, CacheBounded
<1> QED BY <1>2, <1>3, <1>4 DEF CacheInv, CacheBounded

(* The slots with that of key k, in which every entry has one. *)
LEMMA NewSlotFacts ==
  ASSUME CacheInv, NEW k \in CacheKeys
  PROVE  NewSlot(k) \in Seq(CacheKeys) /\ Cached \cup {k} \subseteq ToSet(NewSlot(k))
<1>1. CASE k \in Cached
  BY <1>1 DEF NewSlot, CacheInv, CacheBounded
<1>2. CASE k \notin Cached
  <2>1. Append(order, k) \in Seq(CacheKeys)
    BY DEF CacheInv
  <2>2. ToSet(order) \cup {k} \subseteq ToSet(Append(order, k))
    <3>1. PICK o \in Seq(CacheKeys) : o = order
      BY DEF CacheInv
    <3>2. PICK p \in Seq(CacheKeys) : p = Append(o, k)
      BY <2>1, <3>1
    <3>3. /\ Len(p) = Len(o) + 1 /\ p[Len(o) + 1] = k /\ Len(o) \in Nat
          /\ \A i \in 1..Len(o) : p[i] = o[i]
      BY <3>2, AppendProperties
    <3>4. k \in ToSet(p) /\ \A i \in 1..Len(o) : o[i] \in ToSet(p)
      BY <3>3 DEF ToSet
    <3>5. ToSet(o) \subseteq ToSet(p)
      BY <3>4 DEF ToSet
    <3> QED BY <3>1, <3>2, <3>4, <3>5
  <2> QED BY <1>2, <2>1, <2>2 DEF NewSlot, CacheInv, CacheBounded
<1> QED BY <1>1, <1>2

LEMMA PutKeeps ==
  ASSUME CacheInv, NEW k \in CacheKeys, Put(k)
  PROVE  CacheInv'
<1>1. NewSlot(k) \in Seq(CacheKeys) /\ Cached \cup {k} \subseteq ToSet(NewSlot(k))
  BY NewSlotFacts
<1>2. PICK s \in Seq(CacheKeys) : s = NewSlot(k)
  BY <1>1
<1>3. PICK C \in SUBSET CacheKeys : C = Cached \cup {k}
  BY DEF Cached
<1>4. /\ Drops(C, s) \in 0..Len(s)
      /\ Cardinality(C \ ToSet(SubSeq(s, 1, Drops(C, s)))) <= MaxItems
  BY <1>1, <1>2, <1>3, DropsEnough
<1>5. PICK n \in 0..Len(s) : n = Drops(C, s)
  BY <1>4
<1>6. PICK A : A = ToSet(SubSeq(s, 1, n))
  OBVIOUS
<1>7. /\ order' = SubSeq(s, n + 1, Len(s)) /\ UNCHANGED clock
      /\ items' = [j \in CacheKeys |-> IF j \in A THEN NoItem
                                       ELSE IF j = k THEN clock + TTL ELSE items[j]]
  BY <1>2, <1>3, <1>5, <1>6 DEF Put
<1>8. clock + TTL \in Nat /\ NoItem \in Nat /\ clock + TTL # NoItem
  BY CacheAssumption DEF CacheInv, NoItem
<1>9. items' \in [CacheKeys -> Nat]
  BY <1>7, <1>8 DEF CacheInv
<1>10. Cached' = C \ A
  BY <1>3, <1>7, <1>8 DEF Cached, NoItem
<1>11. Cardinality(Cached') <= MaxItems
  BY <1>4, <1>5, <1>6, <1>10
<1>12. order' \in Seq(CacheKeys) /\ Cached' \subseteq ToSet(order')
  <2>1. /\ SubSeq(s, n + 1, Len(s)) \in Seq(CacheKeys)
        /\ ToSet(s) \ A \subseteq ToSet(SubSeq(s, n + 1, Len(s)))
    BY <1>6, SlotsCut
  <2>2. C \subseteq ToSet(s)
    BY <1>1, <1>2, <1>3
  <2> QED BY <1>7, <1>10, <2>1, <2>2
<1> QED BY <1>7, <1>9, <1>11, <1>12 DEF CacheInv, CacheBounded

LEMMA CacheStep == CacheInv /\ [CacheNext]_cacheVars => CacheInv'
<1> SUFFICES ASSUME CacheInv, [CacheNext]_cacheVars PROVE CacheInv'
  OBVIOUS
<1>1. CASE UNCHANGED cacheVars
  BY <1>1 DEF cacheVars, CacheInv, CacheBounded, Cached
<1>2. ASSUME NEW on \in BOOLEAN, SetEnabled(on) PROVE CacheInv'
  BY <1>2 DEF SetEnabled, CacheInv, CacheBounded, Cached
<1>3. ASSUME NEW k \in CacheKeys, Get(k) PROVE CacheInv'
  BY <1>3, GetKeeps
<1>4. ASSUME NEW k \in CacheKeys, Put(k) PROVE CacheInv'
  BY <1>4, PutKeeps
<1>5. CASE CacheTick
  <2>1. UNCHANGED <<items, order>> /\ clock' \in Nat /\ clock' <= MaxClock
    BY <1>5, CacheAssumption DEF CacheTick, CacheInv
  <2> QED BY <2>1 DEF CacheInv, CacheBounded, Cached
<1> QED BY <1>1, <1>2, <1>3, <1>4, <1>5 DEF CacheNext

LEMMA CacheStarts == CacheInit => CacheInv
<1> SUFFICES ASSUME CacheInit PROVE CacheInv
  OBVIOUS
<1>1. items \in [CacheKeys -> Nat] /\ clock \in Nat /\ clock <= MaxClock
  BY CacheAssumption DEF CacheInit, NoItem
<1>2. order \in Seq(CacheKeys)
  BY DEF CacheInit
<1>3. Cached = {}
  BY DEF CacheInit, Cached
<1>4. Cardinality({}) = 0 /\ 0 <= MaxItems
  BY FS_EmptySet, CacheAssumption
<1>5. CacheBounded
  BY <1>3, <1>4 DEF CacheBounded
<1> QED BY <1>1, <1>2, <1>5 DEF CacheInv

(* The cache never holds more than max entries, and every entry has a slot *)
(* by which Put can evict it, for every set of keys, limit and lifetime    *)
(* (semantic.go, Put, with entries that Get expired and that come back).   *)
THEOREM CacheBoundedHolds == CacheSpec => []CacheBounded
<1>1. CacheSpec => []CacheInv
  BY CacheStarts, CacheStep, PTL DEF CacheSpec
<1>2. CacheInv => CacheBounded
  BY DEF CacheInv
<1> QED BY <1>1, <1>2, PTL

(* The slots are the end of the history of insertions: Put adds to both,   *)
(* and drops slots at the front only.                                      *)
IsEndOf(s, all) ==
  \E d \in 0 .. Len(all) :
    Len(s) = Len(all) - d /\ \A i \in 1 .. Len(s) : s[i] = all[d + i]

OrderInv == inserted \in Seq(CacheKeys) /\ IsEndOf(order, inserted)

LEMMA EndAppended ==
  ASSUME NEW s \in Seq(CacheKeys), NEW all \in Seq(CacheKeys), IsEndOf(s, all), NEW k \in CacheKeys,
         NEW t, t = Append(s, k), NEW more, more = Append(all, k)
  PROVE  IsEndOf(t, more)
<1>1. PICK d \in 0 .. Len(all) : Len(s) = Len(all) - d /\ \A i \in 1 .. Len(s) : s[i] = all[d + i]
  BY DEF IsEndOf
<1>2. /\ Len(s) \in Nat /\ Len(all) \in Nat /\ d \in Nat
      /\ Len(t) = Len(s) + 1 /\ t[Len(s) + 1] = k /\ \A i \in 1 .. Len(s) : t[i] = s[i]
      /\ Len(more) = Len(all) + 1 /\ more[Len(all) + 1] = k
      /\ \A i \in 1 .. Len(all) : more[i] = all[i]
  OBVIOUS
<1>3. d \in 0 .. Len(more) /\ Len(t) = Len(more) - d
  BY <1>1, <1>2
<1>4. ASSUME NEW i \in 1 .. Len(t) PROVE t[i] = more[d + i]
  <2>1. CASE i = Len(s) + 1
    <3>1. d + i = Len(all) + 1
      BY <1>1, <1>2, <2>1
    <3> QED BY <1>2, <2>1, <3>1
  <2>2. CASE i # Len(s) + 1
    <3>1. i \in 1 .. Len(s) /\ d + i \in 1 .. Len(all)
      BY <1>1, <1>2, <2>2
    <3> QED BY <1>1, <1>2, <3>1
  <2> QED BY <2>1, <2>2
<1> QED BY <1>3, <1>4 DEF IsEndOf

LEMMA EndCut ==
  ASSUME NEW s \in Seq(CacheKeys), NEW all \in Seq(CacheKeys), IsEndOf(s, all), NEW n \in 0 .. Len(s),
         NEW t, t = SubSeq(s, n + 1, Len(s))
  PROVE  IsEndOf(t, all)
<1>1. PICK d \in 0 .. Len(all) : Len(s) = Len(all) - d /\ \A i \in 1 .. Len(s) : s[i] = all[d + i]
  BY DEF IsEndOf
<1>2. Len(s) \in Nat /\ Len(all) \in Nat /\ d \in Nat /\ n \in Nat /\ n <= Len(s)
  OBVIOUS
<1>3. Len(t) = Len(s) - n /\ \A i \in 1 .. (Len(s) - n) : t[i] = s[n + i]
  BY <1>2, SubSeqProperties
<1>4. d + n \in 0 .. Len(all) /\ Len(t) = Len(all) - (d + n)
  BY <1>1, <1>2, <1>3
<1>5. ASSUME NEW i \in 1 .. Len(t) PROVE t[i] = all[(d + n) + i]
  <2>1. n + i \in 1 .. Len(s) /\ i \in 1 .. (Len(s) - n) /\ d + (n + i) = (d + n) + i
    BY <1>2, <1>3
  <2> QED BY <1>1, <1>3, <2>1
<1> QED BY <1>4, <1>5 DEF IsEndOf

(* What Put does to the slots and the entries. *)
LEMMA PutFacts ==
  ASSUME CacheInv, NEW k \in CacheKeys, Put(k)
  PROVE  \E s \in Seq(CacheKeys) : \E n \in 0 .. Len(s) :
           /\ s = NewSlot(k) /\ order' = SubSeq(s, n + 1, Len(s))
           /\ items' = [j \in CacheKeys |->
                          IF j \in ToSet(SubSeq(s, 1, n)) THEN NoItem
                          ELSE IF j = k THEN clock + TTL ELSE items[j]]
<1>1. PICK s \in Seq(CacheKeys) : s = NewSlot(k) /\ Cached \cup {k} \subseteq ToSet(s)
  BY NewSlotFacts
<1>2. PICK C \in SUBSET CacheKeys : C = Cached \cup {k}
  BY DEF Cached
<1>3. PICK n \in 0 .. Len(s) : n = Drops(C, s)
  BY <1>1, <1>2, DropsEnough
<1>4. /\ order' = SubSeq(s, n + 1, Len(s))
      /\ items' = [j \in CacheKeys |-> IF j \in ToSet(SubSeq(s, 1, n)) THEN NoItem
                                       ELSE IF j = k THEN clock + TTL ELSE items[j]]
  BY <1>1, <1>2, <1>3 DEF Put
<1> QED BY <1>1, <1>4

LEMMA PutKeepsOrder ==
  ASSUME CacheInv, OrderInv, NEW k \in CacheKeys, Put(k)
  PROVE  OrderInv'
<1>1. PICK s \in Seq(CacheKeys) : \E n \in 0 .. Len(s) :
        s = NewSlot(k) /\ order' = SubSeq(s, n + 1, Len(s))
  BY PutFacts
<1>2. PICK n \in 0 .. Len(s) : s = NewSlot(k) /\ order' = SubSeq(s, n + 1, Len(s))
  BY <1>1
<1>3. PICK all : all = inserted'
  OBVIOUS
<1>4. all \in Seq(CacheKeys) /\ IsEndOf(s, all)
  <2>1. order \in Seq(CacheKeys) /\ inserted \in Seq(CacheKeys) /\ IsEndOf(order, inserted)
    BY DEF CacheInv, OrderInv
  <2>2. CASE k \in Cached
    BY <1>2, <1>3, <2>1, <2>2 DEF Put, NewSlot
  <2>3. CASE k \notin Cached
    <3>1. s = Append(order, k) /\ all = Append(inserted, k)
      BY <1>2, <1>3, <2>3 DEF Put, NewSlot
    <3>2. all \in Seq(CacheKeys)
      BY <2>1, <3>1
    <3>3. IsEndOf(s, all)
      BY <2>1, <3>1, EndAppended
    <3> QED BY <3>2, <3>3
  <2> QED BY <2>2, <2>3
<1>5. PICK t : t = order'
  OBVIOUS
<1>6. IsEndOf(t, all)
  BY <1>2, <1>4, <1>5, EndCut
<1> QED BY <1>3, <1>4, <1>5, <1>6 DEF OrderInv, IsEndOf

LEMMA OrderStep == CacheInv /\ OrderInv /\ [CacheNext]_cacheVars => OrderInv'
<1> SUFFICES ASSUME CacheInv, OrderInv, [CacheNext]_cacheVars PROVE OrderInv'
  OBVIOUS
<1>1. CASE UNCHANGED <<order, inserted>>
  BY <1>1 DEF OrderInv, IsEndOf
<1>2. ASSUME NEW k \in CacheKeys, Put(k) PROVE OrderInv'
  BY <1>2, PutKeepsOrder
<1> QED BY <1>1, <1>2 DEF CacheNext, SetEnabled, Get, CacheTick, cacheVars

(* LastInsert of a key in the history is its last place there. *)
LEMMA GreatestExists ==
  ASSUME NEW n \in Nat, NEW I \in SUBSET (1 .. n), I # {}
  PROVE  Max(I) \in I /\ \A i \in I : i <= Max(I)
<1> DEFINE D == {n - i : i \in I}
<1>1. D \subseteq Nat /\ D # {}
  <2>1. ASSUME NEW i \in I PROVE n - i \in Nat
    OBVIOUS
  <2>2. PICK i : i \in I
    OBVIOUS
  <2>3. n - i \in D
    BY <2>2
  <2> QED BY <2>1, <2>3
<1>2. PICK x \in D : \A y \in D : x <= y
  <2> HIDE DEF D
  <2> QED BY <1>1, LeastBelow
<1>3. PICK m \in I : x = n - m
  OBVIOUS
<1>4. ASSUME NEW i \in I PROVE m >= i
  <2>1. x <= n - i
    <3>1. n - i \in D
      OBVIOUS
    <3> HIDE DEF D
    <3> QED BY <1>2, <3>1
  <2>2. i \in Int /\ m \in Int /\ n \in Int
    OBVIOUS
  <2> HIDE DEF D
  <2> QED BY <1>3, <2>1, <2>2
<1>5. \E z \in I : \A y \in I : z >= y
  BY <1>4
<1>6. Max(I) \in I /\ \A y \in I : Max(I) >= y
  BY <1>5 DEF Max
<1> QED BY <1>6

LEMMA LastInsertFacts ==
  ASSUME inserted \in Seq(CacheKeys), NEW k, NEW i \in 1 .. Len(inserted), inserted[i] = k
  PROVE  /\ LastInsert(k) \in 1 .. Len(inserted) /\ inserted[LastInsert(k)] = k
         /\ i <= LastInsert(k)
<1> DEFINE I == {j \in 1 .. Len(inserted) : inserted[j] = k}
<1>1. i \in I /\ I \in SUBSET (1 .. Len(inserted)) /\ Len(inserted) \in Nat
  OBVIOUS
<1>2. LastInsert(k) = Max(I)
  BY <1>1 DEF LastInsert, SelectLastInSeq
<1>3. Max(I) \in I /\ i <= Max(I)
  <2> HIDE DEF I
  <2> QED BY <1>1, GreatestExists
<1> QED BY <1>2, <1>3

LEMMA TwoPlaces ==
  ASSUME NEW S, IsFiniteSet(S), NEW i \in S, NEW j \in S, i # j
  PROVE  Cardinality(S) > 1
<1>1. IsFiniteSet({i}) /\ Cardinality({i}) = 1
  BY FS_Singleton
<1>2. Cardinality({i} \cup {j}) = 2
  BY <1>1, FS_AddElement
<1>3. {i} \cup {j} \subseteq S
  OBVIOUS
<1>4. 2 <= Cardinality(S) /\ Cardinality(S) \in Nat
  BY <1>2, <1>3, FS_Subset, FS_CardinalityType
<1> QED BY <1>4

LEMMA PutEvictsOldest ==
  ASSUME CacheInv, OrderInv, NEW p \in CacheKeys, Put(p)
  PROVE  EvictsOldestStep
<1> SUFFICES ASSUME NEW k \in Cached, items'[k] = NoItem, NEW j \in Cached, items'[j] # NoItem,
                    ~ (Cardinality({m \in 1 .. Len(order) : order[m] = k}) > 1)
             PROVE  LastInsert(j) >= LastInsert(k)
  BY DEF EvictsOldestStep
<1>1. PICK s \in Seq(CacheKeys) : \E n \in 0 .. Len(s) :
        /\ s = NewSlot(p)
        /\ items' = [x \in CacheKeys |->
                       IF x \in ToSet(SubSeq(s, 1, n)) THEN NoItem
                       ELSE IF x = p THEN clock + TTL ELSE items[x]]
  BY PutFacts
<1>2. PICK n \in 0 .. Len(s) :
        /\ s = NewSlot(p)
        /\ items' = [x \in CacheKeys |->
                       IF x \in ToSet(SubSeq(s, 1, n)) THEN NoItem
                       ELSE IF x = p THEN clock + TTL ELSE items[x]]
  BY <1>1
<1>3. k \in CacheKeys /\ items[k] # NoItem /\ j \in CacheKeys /\ items[j] # NoItem
  BY DEF Cached
<1>4. clock + TTL # NoItem
  BY CacheAssumption DEF CacheInv, NoItem
<1>5. k \in ToSet(SubSeq(s, 1, n)) /\ j \notin ToSet(SubSeq(s, 1, n))
  BY <1>2, <1>3, <1>4
<1>6. PICK a : a = SubSeq(s, 1, n)
  OBVIOUS
<1>7. /\ Len(s) \in Nat /\ n \in Nat /\ n <= Len(s)
      /\ a \in Seq(CacheKeys) /\ Len(a) = n /\ \A i \in 1 .. n : a[i] = s[i]
  BY <1>6, SubSeqProperties
<1>8. PICK x \in 1 .. n : s[x] = k
  BY <1>5, <1>6, <1>7 DEF ToSet
<1>9. ASSUME NEW y \in 1 .. n PROVE s[y] # j
  <2>1. a[y] \in ToSet(a)
    BY <1>7, SlotInSet
  <2> QED BY <1>5, <1>6, <1>7, <2>1
<1>10. /\ order \in Seq(CacheKeys) /\ Len(order) \in Nat
       /\ \A i \in 1 .. Len(order) : s[i] = order[i]
       /\ \A i \in 1 .. Len(s) : i \in 1 .. Len(order) \/ (s[i] = p /\ p \notin Cached)
  <2>1. order \in Seq(CacheKeys)
    BY DEF CacheInv
  <2>2. CASE p \in Cached
    <3>1. s = order
      BY <1>2, <2>2 DEF NewSlot
    <3> QED BY <2>1, <3>1
  <2>3. CASE p \notin Cached
    <3>1. s = Append(order, p)
      BY <1>2, <2>3 DEF NewSlot
    <3>2. /\ Len(s) = Len(order) + 1 /\ Len(order) \in Nat /\ s[Len(order) + 1] = p
          /\ \A i \in 1 .. Len(order) : s[i] = order[i]
      BY <2>1, <3>1
    <3>3. \A i \in 1 .. Len(s) : i \in 1 .. Len(order) \/ i = Len(order) + 1
      BY <3>2
    <3> QED BY <2>1, <2>3, <3>2, <3>3
  <2> QED BY <2>1, <2>2, <2>3
<1>11. x \in 1 .. Len(order) /\ order[x] = k
  <2>1. x \in 1 .. Len(s)
    BY <1>7
  <2>2. x \in 1 .. Len(order)
    BY <1>8, <1>10, <2>1
  <2> QED BY <1>8, <1>10, <2>2
<1>12. PICK y \in 1 .. Len(order) : order[y] = j
  <2>1. j \in ToSet(order)
    BY DEF CacheInv, CacheBounded
  <2> QED BY <2>1 DEF ToSet
<1>13. y > n
  <2> SUFFICES ASSUME ~ (y > n) PROVE FALSE
    OBVIOUS
  <2>1. y \in 1 .. n
    BY <1>7
  <2> QED BY <1>9, <1>10, <1>12, <2>1
<1>14. inserted \in Seq(CacheKeys) /\ Len(inserted) \in Nat
  BY DEF OrderInv
<1>15. PICK d \in 0 .. Len(inserted) :
         Len(order) = Len(inserted) - d /\ \A i \in 1 .. Len(order) : order[i] = inserted[d + i]
  BY DEF OrderInv, IsEndOf
<1>16. d + y \in 1 .. Len(inserted) /\ inserted[d + y] = j
  BY <1>10, <1>12, <1>14, <1>15
<1>17. d + x \in 1 .. Len(inserted) /\ inserted[d + x] = k
  BY <1>10, <1>11, <1>14, <1>15
<1>18. LastInsert(j) \in Nat /\ d + y <= LastInsert(j)
  BY <1>14, <1>16, LastInsertFacts
<1>19. /\ LastInsert(k) \in 1 .. Len(inserted) /\ inserted[LastInsert(k)] = k
       /\ d + x <= LastInsert(k)
  BY <1>14, <1>17, LastInsertFacts
<1>20. PICK l \in 1 .. Len(inserted) : l = LastInsert(k)
  BY <1>19
<1>21. l = d + x
  <2>1. l - d \in 1 .. Len(order) /\ d + (l - d) = l
    BY <1>10, <1>14, <1>15, <1>19, <1>20
  <2>2. order[l - d] = k
    BY <1>15, <1>19, <1>20, <2>1
  <2>3. IsFiniteSet({m \in 1 .. Len(order) : order[m] = k})
    <3>0. 1 \in Int /\ Len(order) \in Int
      BY <1>10
    <3>1. IsFiniteSet(1 .. Len(order))
      BY <3>0, FS_Interval
    <3> QED BY <3>1, FS_Subset
  <2>4. l - d = x
    BY <1>11, <2>1, <2>2, <2>3, TwoPlaces
  <2> QED BY <1>14, <2>1, <2>4
<1> QED BY <1>7, <1>10, <1>13, <1>14, <1>18, <1>20, <1>21

(* EvictsOldest for every set of keys, limit and lifetime: Put evicts the  *)
(* entry that came first, but for one that has two slots because it        *)
(* expired and was put again.                                              *)
THEOREM EvictsOldestHolds == CacheSpec => EvictsOldest
<1>1. CacheInit => OrderInv
  BY DEF CacheInit, OrderInv, IsEndOf
<1>2. CacheInv /\ OrderInv /\ [CacheNext]_cacheVars => [EvictsOldestStep]_cacheVars
  <2> SUFFICES ASSUME CacheInv, OrderInv, CacheNext PROVE EvictsOldestStep
    OBVIOUS
  <2>1. CASE UNCHANGED order
    BY <2>1 DEF EvictsOldestStep
  <2>2. ASSUME NEW k \in CacheKeys, Put(k) PROVE EvictsOldestStep
    BY <2>2, PutEvictsOldest
  <2> QED BY <2>1, <2>2 DEF CacheNext, SetEnabled, Get, CacheTick
<1> QED BY <1>1, <1>2, CacheStarts, CacheStep, OrderStep, PTL DEF CacheSpec, EvictsOldest

-----------------------------------------------------------------------------
(* The login limit.  The times that passed are in order and each window is *)
(* what is left of them at the end: what was trimmed is out of the window. *)

InOrder(s) == \A j, k \in 1 .. Len(s) : j <= k => s[j] <= s[k]

IsWindow(w, all, window, t) ==
  /\ w \in Seq(Nat)
  /\ \E n \in 0 .. Len(all) :
       /\ Len(w) = Len(all) - n
       /\ \A k \in 1 .. Len(w) : w[k] = all[n + k]
       /\ \A k \in 1 .. n : all[k] + window <= t

LoginInv ==
  /\ loginNow \in Nat
  /\ passed \in Seq(Nat) /\ InOrder(passed)
  /\ \A k \in 1 .. Len(passed) : passed[k] <= loginNow
  /\ IsWindow(minuteWindow, passed, Minute, loginNow)
  /\ IsWindow(hourWindow, passed, Hour, loginNow)
  /\ LoginBound

(* The slice out of the loop of trimBefore after i times, for each i up to *)
(* n.                                                                      *)
IsOut(out, n, times, window, t) ==
  out = [i \in 0 .. n |-> IF i = 0 THEN <<>>
                          ELSE IF times[i] + window > t THEN Append(out[i - 1], times[i])
                          ELSE out[i - 1]]

LEMMA OutAt ==
  ASSUME NEW times, NEW window, NEW t, NEW n, NEW out, IsOut(out, n, times, window, t),
         NEW i \in 0 .. n
  PROVE  out[i] = IF i = 0 THEN <<>>
                  ELSE IF times[i] + window > t THEN Append(out[i - 1], times[i])
                  ELSE out[i - 1]
<1> DEFINE F(j) == IF j = 0 THEN <<>>
                   ELSE IF times[j] + window > t THEN Append(out[j - 1], times[j])
                   ELSE out[j - 1]
<1>1. out = [j \in 0 .. n |-> F(j)]
  BY DEF IsOut
<1> HIDE DEF F
<1>2. out[i] = F(i)
  BY <1>1
<1> QED BY <1>2 DEF F

LEMMA OutExists ==
  ASSUME NEW times, NEW window, NEW t, NEW n \in Nat
  PROVE  \E out : IsOut(out, n, times, window, t)
<1> DEFINE D == {m \in Nat : ~ \E out : IsOut(out, m, times, window, t)}
<1> SUFFICES ASSUME D # {} PROVE FALSE
  OBVIOUS
<1>1. PICK m \in D : \A k \in D : m <= k
  <2>1. D \subseteq Nat
    OBVIOUS
  <2> HIDE DEF D
  <2> QED BY <2>1, LeastBelow
<1>2. m \in Nat
  BY <1>1
<1> HIDE DEF D
<1>3. CASE m = 0
  <2>1. IsOut([i \in 0 .. 0 |-> <<>>], 0, times, window, t)
    BY DEF IsOut
  <2> QED BY <1>1, <1>3, <2>1 DEF D
<1>4. CASE m > 0
  <2>1. m - 1 \in Nat /\ m - 1 \notin D
    BY <1>1, <1>2, <1>4
  <2>2. PICK f : IsOut(f, m - 1, times, window, t)
    BY <2>1 DEF D
  <2> DEFINE g == [i \in 0 .. m |-> IF i = m THEN (IF times[m] + window > t
                                                   THEN Append(f[m - 1], times[m])
                                                   ELSE f[m - 1])
                                    ELSE f[i]]
  <2>3. ASSUME NEW i \in 0 .. m
        PROVE  g[i] = IF i = 0 THEN <<>>
                      ELSE IF times[i] + window > t THEN Append(g[i - 1], times[i])
                      ELSE g[i - 1]
    <3>1. CASE i = 0
      BY <1>2, <1>4, <2>2, <3>1 DEF IsOut
    <3>2. CASE i > 0
      <4>1. i - 1 \in 0 .. m /\ i - 1 # m /\ g[i - 1] = f[i - 1]
        BY <1>2, <3>2
      <4>2. CASE i = m
        BY <3>2, <4>1, <4>2
      <4>3. CASE i # m
        <5>1. i \in 0 .. (m - 1) /\ g[i] = f[i]
          BY <1>2, <4>3
        <5>2. f[i] = IF i = 0 THEN <<>>
                     ELSE IF times[i] + window > t THEN Append(f[i - 1], times[i])
                     ELSE f[i - 1]
          BY <2>2, <5>1, OutAt
        <5> HIDE DEF g
        <5> QED BY <3>2, <4>1, <5>1, <5>2
      <4> QED BY <4>2, <4>3
    <3> QED BY <3>1, <3>2
  <2>4. DOMAIN g = 0 .. m /\ g = [i \in 0 .. m |-> g[i]]
    OBVIOUS
  <2> HIDE DEF g
  <2>5. IsOut(g, m, times, window, t)
    BY <2>3, <2>4 DEF IsOut
  <2> QED BY <1>1, <2>5 DEF D
<1> QED BY <1>2, <1>3, <1>4

LEMMA TrimIsOut ==
  ASSUME NEW times, NEW window, Len(times) \in Nat
  PROVE  \E out : /\ IsOut(out, Len(times), times, window, loginNow)
                  /\ trimBefore(times, window) = out[Len(times)]
<1> DEFINE f == CHOOSE out : IsOut(out, Len(times), times, window, loginNow)
<1>1. IsOut(f, Len(times), times, window, loginNow)
  BY OutExists
<1>2. trimBefore(times, window) = f[Len(times)]
  BY DEF trimBefore, IsOut
<1> QED BY <1>1, <1>2

(* After i times, out holds those from one place on, and the times before  *)
(* it are no longer in the window.                                         *)
OutTail(out, i, times, window, t) ==
  /\ out[i] \in Seq(Nat)
  /\ \E m \in 0 .. i :
       /\ Len(out[i]) = i - m
       /\ \A k \in 1 .. (i - m) : out[i][k] = times[m + k]
       /\ \A k \in 1 .. m : times[k] + window <= t
       /\ \A k \in (m + 1) .. i : times[k] + window > t

LEMMA OutTailStep ==
  ASSUME NEW times \in Seq(Nat), InOrder(times), NEW window \in Nat, NEW t \in Nat,
         NEW out, IsOut(out, Len(times), times, window, t),
         NEW i \in 1 .. Len(times), OutTail(out, i - 1, times, window, t)
  PROVE  OutTail(out, i, times, window, t)
<1>1. /\ Len(times) \in Nat /\ i \in Nat /\ i - 1 \in Nat /\ times[i] \in Nat
      /\ i \in 0 .. Len(times)
  OBVIOUS
<1>2. out[i] = IF times[i] + window > t THEN Append(out[i - 1], times[i]) ELSE out[i - 1]
  BY <1>1, OutAt
<1>3. PICK s \in Seq(Nat) : s = out[i - 1]
  BY DEF OutTail
<1>4. PICK m \in 0 .. (i - 1) :
        /\ Len(s) = i - 1 - m
        /\ \A k \in 1 .. (i - 1 - m) : s[k] = times[m + k]
        /\ \A k \in 1 .. m : times[k] + window <= t
        /\ \A k \in (m + 1) .. (i - 1) : times[k] + window > t
  BY <1>3 DEF OutTail
<1>5. CASE times[i] + window > t
  <2>1. PICK u \in Seq(Nat) : u = out[i] /\ u = Append(s, times[i])
    <3>1. Append(s, times[i]) \in Seq(Nat)
      BY <1>1, <1>3
    <3>2. out[i] = Append(out[i - 1], times[i])
      BY <1>2, <1>5, Zenon
    <3> QED BY <1>3, <3>1, <3>2
  <2>2. Len(u) = i - m /\ \A k \in 1 .. (i - m) : u[k] = times[m + k]
    <3>1. /\ Len(u) = Len(s) + 1 /\ u[Len(s) + 1] = times[i]
          /\ \A k \in 1 .. Len(s) : u[k] = s[k]
      BY <1>1, <2>1
    <3>2. m \in Nat /\ Len(s) + 1 = i - m /\ m + (Len(s) + 1) = i
      BY <1>1, <1>4
    <3>3. \A k \in 1 .. (i - m) : k = i - m \/ k \in 1 .. (i - 1 - m)
      <4>1. i \in Int /\ m \in Int
        BY <1>1
      <4> QED BY <4>1
    <3>4. ASSUME NEW k \in 1 .. (i - m) PROVE u[k] = times[m + k]
      <4>1. CASE k = i - m
        BY <3>1, <3>2, <4>1
      <4>2. CASE k \in 1 .. (i - 1 - m)
        BY <1>4, <3>1, <4>2
      <4> QED BY <3>3, <4>1, <4>2
    <3> QED BY <3>1, <3>2, <3>4
  <2>3. \A k \in (m + 1) .. i : times[k] + window > t
    BY <1>1, <1>4, <1>5
  <2>4. m \in 0 .. i
    BY <1>1
  <2> QED BY <1>4, <2>1, <2>2, <2>3, <2>4 DEF OutTail
<1>6. CASE ~ (times[i] + window > t)
  <2>1. \A k \in 1 .. i : times[k] + window <= t
    <3> SUFFICES ASSUME NEW k \in 1 .. i PROVE times[k] + window <= t
      OBVIOUS
    <3>1. times[k] <= times[i] /\ times[k] \in Nat
      <4>1. k \in 1 .. Len(times) /\ k <= i
        BY <1>1
      <4>2. times[k] <= times[i]
        BY <4>1 DEF InOrder
      <4>3. times[k] \in Nat
        BY <4>1
      <4> QED BY <4>2, <4>3
    <3>2. PICK a \in Nat : a = times[k]
      BY <3>1
    <3>3. PICK b \in Nat : b = times[i]
      BY <1>1
    <3>4. a <= b /\ ~ (b + window > t)
      BY <1>6, <3>1, <3>2, <3>3
    <3>5. a + window <= t
      BY <3>4
    <3> QED BY <3>2, <3>5
  <2>2. m = i - 1
    <3> SUFFICES ASSUME m # i - 1 PROVE FALSE
      OBVIOUS
    <3>1. i - 1 \in (m + 1) .. (i - 1) /\ i - 1 \in 1 .. i /\ times[i - 1] \in Nat
      BY <1>1
    <3> QED BY <1>4, <2>1, <3>1
  <2>3. out[i] = s /\ Len(s) = 0
    BY <1>1, <1>2, <1>3, <1>4, <1>6, <2>2
  <2>4. i \in 0 .. i /\ Len(s) = i - i /\ (\A k \in 1 .. (i - i) : s[k] = times[i + k])
        /\ (\A k \in (i + 1) .. i : times[k] + window > t)
    BY <1>1, <2>3
  <2> QED BY <2>1, <2>3, <2>4 DEF OutTail
<1> QED BY <1>5, <1>6

LEMMA OutTails ==
  ASSUME NEW times \in Seq(Nat), InOrder(times), NEW window \in Nat, NEW t \in Nat,
         NEW out, IsOut(out, Len(times), times, window, t)
  PROVE  OutTail(out, Len(times), times, window, t)
<1> DEFINE D == {i \in 0 .. Len(times) : ~ OutTail(out, i, times, window, t)}
<1> SUFFICES ASSUME D # {} PROVE FALSE
  OBVIOUS
<1>1. PICK i \in D : \A k \in D : i <= k
  <2>1. D \subseteq Nat
    OBVIOUS
  <2> HIDE DEF D
  <2> QED BY <2>1, LeastBelow
<1>2. i \in 0 .. Len(times) /\ ~ OutTail(out, i, times, window, t) /\ Len(times) \in Nat
  BY <1>1
<1>3. CASE i = 0
  <2>1. out[0] = <<>>
    BY <1>2, <1>3, OutAt
  <2>2. 0 \in 0 .. 0 /\ <<>> \in Seq(Nat) /\ Len(<<>>) = 0
    OBVIOUS
  <2>3. OutTail(out, 0, times, window, t)
    <3>1. out[0] \in Seq(Nat) /\ Len(out[0]) = 0 - 0
      BY <2>1, <2>2
    <3>2. \A k \in 1 .. (0 - 0) : out[0][k] = times[0 + k]
      OBVIOUS
    <3>3. (\A k \in 1 .. 0 : times[k] + window <= t) /\ (\A k \in (0 + 1) .. 0 : times[k] + window > t)
      OBVIOUS
    <3> QED BY <2>2, <3>1, <3>2, <3>3 DEF OutTail
  <2> QED BY <1>2, <1>3, <2>3
<1>4. CASE i > 0
  <2>1. i \in 1 .. Len(times) /\ i - 1 \in 0 .. Len(times) /\ i - 1 \notin D
    BY <1>1, <1>2, <1>4
  <2>2. OutTail(out, i - 1, times, window, t)
    BY <2>1
  <2> HIDE DEF D
  <2> QED BY <1>2, <2>1, <2>2, OutTailStep
<1> QED BY <1>2, <1>3, <1>4

(* What trimBefore leaves of a window is one again, and all of it counts.  *)
LEMMA TrimFacts ==
  ASSUME NEW all \in Seq(Nat), InOrder(all), NEW window \in Nat, loginNow \in Nat,
         NEW w, IsWindow(w, all, window, loginNow)
  PROVE  IsWindow(trimBefore(w, window), all, window, loginNow)
<1>1. PICK n \in 0 .. Len(all) :
        /\ Len(w) = Len(all) - n
        /\ \A k \in 1 .. Len(w) : w[k] = all[n + k]
        /\ \A k \in 1 .. n : all[k] + window <= loginNow
  BY DEF IsWindow
<1>2. w \in Seq(Nat) /\ Len(w) \in Nat /\ Len(all) \in Nat /\ n \in Nat
  BY DEF IsWindow
<1>3. InOrder(w)
  <2> SUFFICES ASSUME NEW j \in 1 .. Len(w), NEW k \in 1 .. Len(w), j <= k
               PROVE  w[j] <= w[k]
    BY DEF InOrder
  <2>1. n + j \in 1 .. Len(all) /\ n + k \in 1 .. Len(all) /\ n + j <= n + k
    BY <1>1, <1>2
  <2>2. all[n + j] <= all[n + k]
    BY <2>1 DEF InOrder
  <2> QED BY <1>1, <2>2
<1>4. PICK out : /\ IsOut(out, Len(w), w, window, loginNow)
                 /\ trimBefore(w, window) = out[Len(w)]
  BY <1>2, TrimIsOut
<1>5. OutTail(out, Len(w), w, window, loginNow)
  BY <1>2, <1>3, <1>4, OutTails
<1>6. PICK s : s = out[Len(w)]
  OBVIOUS
<1>7. s \in Seq(Nat)
  BY <1>5, <1>6 DEF OutTail
<1>8. PICK m \in 0 .. Len(w) :
        /\ Len(s) = Len(w) - m
        /\ \A k \in 1 .. (Len(w) - m) : s[k] = w[m + k]
        /\ \A k \in 1 .. m : w[k] + window <= loginNow
  BY <1>5, <1>6 DEF OutTail
<1>9. n + m \in 0 .. Len(all) /\ Len(s) = Len(all) - (n + m)
  BY <1>1, <1>2, <1>8
<1>10. \A k \in 1 .. Len(s) : s[k] = all[(n + m) + k]
  <2> SUFFICES ASSUME NEW k \in 1 .. Len(s) PROVE s[k] = all[(n + m) + k]
    OBVIOUS
  <2>1. m + k \in 1 .. Len(w) /\ k \in 1 .. (Len(w) - m) /\ n + (m + k) = (n + m) + k
    BY <1>2, <1>8
  <2> QED BY <1>1, <1>8, <2>1
<1>11. \A k \in 1 .. (n + m) : all[k] + window <= loginNow
  <2> SUFFICES ASSUME NEW k \in 1 .. (n + m) PROVE all[k] + window <= loginNow
    OBVIOUS
  <2>1. CASE k <= n
    BY <1>1, <1>2, <2>1
  <2>2. CASE k > n
    <3>1. k - n \in 1 .. m /\ k - n \in 1 .. Len(w) /\ n + (k - n) = k
      BY <1>2, <2>2
    <3> QED BY <1>1, <1>8, <3>1
  <2> QED BY <1>2, <2>1, <2>2
<1>12. IsWindow(s, all, window, loginNow)
  BY <1>7, <1>9, <1>10, <1>11 DEF IsWindow
<1> QED BY <1>4, <1>6, <1>12

-----------------------------------------------------------------------------
Counted(all, t, window) == {k \in 1 .. Len(all) : all[k] <= t /\ all[k] + window > t}

LEMMA CountedFinite ==
  ASSUME NEW all, Len(all) \in Nat, NEW t, NEW window, NEW S, S \subseteq Counted(all, t, window)
  PROVE  /\ IsFiniteSet(S) /\ Cardinality(S) \in Nat
         /\ Cardinality(Counted(all, t, window)) \in Nat
         /\ Cardinality(S) <= Cardinality(Counted(all, t, window))
<1>1. IsFiniteSet(1 .. Len(all))
  BY FS_Interval
<1>2. IsFiniteSet(Counted(all, t, window))
  BY <1>1, FS_Subset DEF Counted
<1> QED BY <1>2, FS_Subset, FS_CardinalityType

(* With the attempt that passes now, the window has at most as many as it  *)
(* had, and one.                                                           *)
LEMMA PassBound ==
  ASSUME NEW all \in Seq(Nat), NEW window \in Nat, NEW now \in Nat, NEW w,
         IsWindow(w, all, window, now), NEW limit \in Nat, ~ (Len(w) >= limit),
         NEW more, more = Append(all, now)
  PROVE  Cardinality(Counted(more, now, window)) <= limit
<1>1. PICK n \in 0 .. Len(all) :
        Len(w) = Len(all) - n /\ \A k \in 1 .. n : all[k] + window <= now
  BY DEF IsWindow
<1>2. Len(w) \in Nat /\ Len(all) \in Nat /\ n \in Nat
  BY DEF IsWindow
<1>3. Counted(more, now, window) \subseteq (n + 1) .. (Len(all) + 1)
  <2> SUFFICES ASSUME NEW k \in Counted(more, now, window)
               PROVE  k \in (n + 1) .. (Len(all) + 1)
    OBVIOUS
  <2>1. Len(more) = Len(all) + 1 /\ \A j \in 1 .. Len(all) : more[j] = all[j]
    OBVIOUS
  <2>2. k \in 1 .. (Len(all) + 1) /\ more[k] + window > now
    BY <2>1 DEF Counted
  <2>3. ~ (k <= n)
    <3> SUFFICES ASSUME k <= n PROVE FALSE
      OBVIOUS
    <3>1. k \in 1 .. n /\ k \in 1 .. Len(all)
      BY <1>2, <2>2
    <3>2. more[k] = all[k] /\ all[k] + window <= now
      BY <1>1, <2>1, <3>1
    <3>3. all[k] \in Nat
      BY <3>1
    <3> QED BY <2>2, <3>2, <3>3
  <2> QED BY <1>2, <2>2, <2>3
<1>4. /\ IsFiniteSet((n + 1) .. (Len(all) + 1))
      /\ Cardinality((n + 1) .. (Len(all) + 1)) = (Len(all) + 1) - (n + 1) + 1
  <2>1. n + 1 \in Int /\ Len(all) + 1 \in Int /\ ~ (n + 1 > Len(all) + 1)
    BY <1>2
  <2> QED BY <2>1, FS_Interval
<1>5. /\ Cardinality(Counted(more, now, window)) \in Nat
      /\ Cardinality(Counted(more, now, window)) <= (Len(all) + 1) - (n + 1) + 1
  BY <1>3, <1>4, FS_Subset, FS_CardinalityType
<1> QED BY <1>1, <1>2, <1>5

(* A window that began earlier does not count the attempt that passes now. *)
LEMMA EarlierSame ==
  ASSUME NEW all, NEW window, NEW now \in Nat, NEW t \in Nat, t < now, NEW more,
         Len(all) \in Nat, Len(more) = Len(all) + 1, more[Len(all) + 1] = now,
         \A j \in 1 .. Len(all) : more[j] = all[j]
  PROVE  Counted(more, t, window) = Counted(all, t, window)
<1>1. /\ Len(more) = Len(all) + 1 /\ Len(all) \in Nat /\ more[Len(all) + 1] = now
      /\ \A j \in 1 .. Len(all) : more[j] = all[j]
  OBVIOUS
<1>2. ASSUME NEW k
      PROVE  k \in Counted(more, t, window) <=> k \in Counted(all, t, window)
  <2>1. CASE k = Len(all) + 1
    BY <1>1, <2>1 DEF Counted
  <2>2. CASE k # Len(all) + 1
    <3>1. k \in 1 .. Len(more) <=> k \in 1 .. Len(all)
      BY <1>1, <2>2
    <3> QED BY <1>1, <3>1 DEF Counted
  <2> QED BY <2>1, <2>2
<1> QED BY <1>2

(* A later window counts no more, when nothing passed meanwhile. *)
LEMMA LaterFewer ==
  ASSUME NEW all \in Seq(Nat), NEW window \in Nat, NEW now \in Nat,
         \A k \in 1 .. Len(all) : all[k] <= now
  PROVE  Counted(all, now + 1, window) \subseteq Counted(all, now, window)
<1> SUFFICES ASSUME NEW k \in Counted(all, now + 1, window)
             PROVE  k \in Counted(all, now, window)
  OBVIOUS
<1>1. k \in 1 .. Len(all) /\ all[k] + window > now + 1 /\ all[k] \in Nat
  BY DEF Counted
<1> QED BY <1>1 DEF Counted

LEMMA LaterWindow ==
  ASSUME NEW all \in Seq(Nat), NEW window \in Nat, NEW now \in Nat, NEW w,
         IsWindow(w, all, window, now)
  PROVE  IsWindow(w, all, window, now + 1)
<1>1. PICK n \in 0 .. Len(all) :
        /\ Len(w) = Len(all) - n
        /\ \A k \in 1 .. Len(w) : w[k] = all[n + k]
        /\ \A k \in 1 .. n : all[k] + window <= now
  BY DEF IsWindow
<1>2. \A k \in 1 .. n : all[k] \in Nat
  OBVIOUS
<1>3. ASSUME NEW k \in 1 .. n PROVE all[k] + window <= now + 1
  <2>1. PICK a \in Nat : a = all[k] /\ a + window <= now
    BY <1>1, <1>2
  <2> QED BY <2>1
<1> QED BY <1>1, <1>3 DEF IsWindow

LEMMA LongerWindow ==
  ASSUME NEW all \in Seq(Nat), NEW window \in Nat, NEW now \in Nat, NEW w,
         IsWindow(w, all, window, now), NEW more, more = Append(all, now),
         NEW v, v = Append(w, now)
  PROVE  IsWindow(v, more, window, now)
<1>1. PICK n \in 0 .. Len(all) :
        /\ Len(w) = Len(all) - n
        /\ \A k \in 1 .. Len(w) : w[k] = all[n + k]
        /\ \A k \in 1 .. n : all[k] + window <= now
  BY DEF IsWindow
<1>2. w \in Seq(Nat) /\ Len(w) \in Nat /\ Len(all) \in Nat /\ n \in Nat
  BY DEF IsWindow
<1>3. /\ Len(more) = Len(all) + 1 /\ more[Len(all) + 1] = now
      /\ \A j \in 1 .. Len(all) : more[j] = all[j]
  OBVIOUS
<1>4. /\ v \in Seq(Nat) /\ Len(v) = Len(w) + 1 /\ v[Len(w) + 1] = now
      /\ \A j \in 1 .. Len(w) : v[j] = w[j]
  BY <1>2
<1>5. n \in 0 .. Len(more) /\ Len(v) = Len(more) - n
  BY <1>1, <1>2, <1>3, <1>4
<1>6. ASSUME NEW k \in 1 .. Len(v) PROVE v[k] = more[n + k]
  <2>1. CASE k = Len(w) + 1
    <3>1. n + k = Len(all) + 1
      BY <1>1, <1>2, <2>1
    <3> QED BY <1>3, <1>4, <2>1, <3>1
  <2>2. CASE k # Len(w) + 1
    <3>1. k \in 1 .. Len(w) /\ n + k \in 1 .. Len(all)
      BY <1>1, <1>2, <1>4, <2>2
    <3> QED BY <1>1, <1>3, <1>4, <3>1
  <2> QED BY <2>1, <2>2
<1>7. \A k \in 1 .. n : more[k] + window <= now
  BY <1>1, <1>2, <1>3
<1> QED BY <1>4, <1>5, <1>6, <1>7 DEF IsWindow

LEMMA LoginTrims ==
  ASSUME LoginInv
  PROVE  /\ IsWindow(trimBefore(minuteWindow, Minute), passed, Minute, loginNow)
         /\ IsWindow(trimBefore(hourWindow, Hour), passed, Hour, loginNow)
  BY TrimFacts, LoginAssumption DEF LoginInv

LEMMA LoginSame ==
  ASSUME LoginInv, UNCHANGED <<loginNow, passed>>,
         IsWindow(minuteWindow', passed, Minute, loginNow),
         IsWindow(hourWindow', passed, Hour, loginNow)
  PROVE  LoginInv'
<1>1. LoginBound'
  BY DEF LoginInv, LoginBound, Within
<1> QED BY <1>1 DEF LoginInv, InOrder

LEMMA middlewareKeeps ==
  ASSUME LoginInv, middleware
  PROVE  LoginInv'
<1> DEFINE minute == trimBefore(minuteWindow, Minute)
           hour == trimBefore(hourWindow, Hour)
<1>1. IsWindow(minute, passed, Minute, loginNow) /\ IsWindow(hour, passed, Hour, loginNow)
  BY LoginTrims
<1>2. UNCHANGED loginNow
  BY DEF middleware
<1>3. CASE Len(minute) >= PerMinute \/ Len(hour) >= PerHour
  <2>1. minuteWindow' = minute /\ hourWindow' = hour /\ UNCHANGED passed
    BY <1>3 DEF middleware
  <2> HIDE DEF minute, hour
  <2> QED BY <1>1, <1>2, <2>1, LoginSame
<1>4. CASE ~ (Len(minute) >= PerMinute \/ Len(hour) >= PerHour)
  <2>1. /\ minuteWindow' = Append(minute, loginNow)
        /\ hourWindow' = Append(hour, loginNow)
        /\ passed' = Append(passed, loginNow)
    BY <1>4 DEF middleware
  <2>2. ~ (Len(minute) >= PerMinute) /\ ~ (Len(hour) >= PerHour)
    BY <1>4
  <2> HIDE DEF minute, hour
  <2>3. /\ loginNow \in Nat /\ passed \in Seq(Nat) /\ Minute \in Nat /\ Hour \in Nat
        /\ PerMinute \in Nat /\ PerHour \in Nat
    BY LoginAssumption DEF LoginInv
  <2>4. PICK more : more = passed'
    OBVIOUS
  <2>5. /\ IsWindow(minuteWindow', more, Minute, loginNow)
        /\ IsWindow(hourWindow', more, Hour, loginNow)
    <3>1. IsWindow(minuteWindow', more, Minute, loginNow)
      BY <1>1, <2>1, <2>3, <2>4, LongerWindow
    <3>2. IsWindow(hourWindow', more, Hour, loginNow)
      BY <1>1, <2>1, <2>3, <2>4, LongerWindow
    <3> QED BY <3>1, <3>2
  <2>6. more \in Seq(Nat) /\ \A k \in 1 .. Len(more) : more[k] <= loginNow
    BY <2>1, <2>3, <2>4 DEF LoginInv
  <2>7. InOrder(more)
    <3> SUFFICES ASSUME NEW j \in 1 .. Len(more), NEW k \in 1 .. Len(more), j <= k
                 PROVE  more[j] <= more[k]
      BY DEF InOrder
    <3>1. /\ Len(more) = Len(passed) + 1 /\ Len(passed) \in Nat
          /\ more[Len(passed) + 1] = loginNow
          /\ \A i \in 1 .. Len(passed) : more[i] = passed[i]
      BY <2>1, <2>3, <2>4
    <3>2. CASE k = Len(passed) + 1
      BY <2>6, <3>1, <3>2
    <3>3. CASE k # Len(passed) + 1
      <4>1. j \in 1 .. Len(passed) /\ k \in 1 .. Len(passed)
        BY <3>1, <3>3
      <4> QED BY <3>1, <4>1 DEF LoginInv, InOrder
    <3> QED BY <3>2, <3>3
  <2>8. ASSUME NEW t \in 0 .. loginNow
        PROVE  /\ Cardinality(Counted(more, t, Minute)) <= PerMinute
               /\ Cardinality(Counted(more, t, Hour)) <= PerHour
    <3>1. CASE t = loginNow
      <4>1. Cardinality(Counted(more, loginNow, Minute)) <= PerMinute
        BY <1>1, <2>1, <2>2, <2>3, <2>4, PassBound
      <4>2. Cardinality(Counted(more, loginNow, Hour)) <= PerHour
        BY <1>1, <2>1, <2>2, <2>3, <2>4, PassBound
      <4> QED BY <3>1, <4>1, <4>2
    <3>2. CASE t # loginNow
      <4>1. /\ Counted(more, t, Minute) = Counted(passed, t, Minute)
            /\ Counted(more, t, Hour) = Counted(passed, t, Hour)
        <5>0. t \in Nat /\ t < loginNow
          BY <2>3, <3>2
        <5>1. /\ Len(passed) \in Nat /\ Len(more) = Len(passed) + 1
              /\ more[Len(passed) + 1] = loginNow
              /\ \A j \in 1 .. Len(passed) : more[j] = passed[j]
          BY <2>1, <2>3, <2>4
        <5>2. Counted(more, t, Minute) = Counted(passed, t, Minute)
          BY <2>3, <5>0, <5>1, EarlierSame
        <5>3. Counted(more, t, Hour) = Counted(passed, t, Hour)
          BY <2>3, <5>0, <5>1, EarlierSame
        <5> QED BY <5>2, <5>3
      <4> QED BY <4>1 DEF LoginInv, LoginBound, Within, Counted
    <3> QED BY <3>1, <3>2
  <2>9. LoginBound'
    BY <1>2, <2>4, <2>8 DEF LoginBound, Within, Counted
  <2> QED BY <1>2, <2>3, <2>4, <2>5, <2>6, <2>7, <2>9 DEF LoginInv, InOrder, IsWindow
<1> QED BY <1>3, <1>4

LEMMA loginCleanupKeeps ==
  ASSUME LoginInv, loginCleanup
  PROVE  LoginInv'
<1> DEFINE minute == trimBefore(minuteWindow, Minute)
           hour == trimBefore(hourWindow, Hour)
<1>1. IsWindow(minute, passed, Minute, loginNow) /\ IsWindow(hour, passed, Hour, loginNow)
  BY LoginTrims
<1>2. minuteWindow' = minute /\ hourWindow' = hour /\ UNCHANGED <<loginNow, passed>>
  BY DEF loginCleanup, Idle
<1> HIDE DEF minute, hour
<1> QED BY <1>1, <1>2, LoginSame

LEMMA LoginTickKeeps ==
  ASSUME LoginInv, LoginTick
  PROVE  LoginInv'
<1>1. loginNow' = loginNow + 1 /\ UNCHANGED <<minuteWindow, hourWindow, passed>>
  BY DEF LoginTick
<1>2. /\ loginNow \in Nat /\ passed \in Seq(Nat) /\ Minute \in Nat /\ Hour \in Nat
      /\ \A k \in 1 .. Len(passed) : passed[k] <= loginNow
      /\ PerMinute \in Nat /\ PerHour \in Nat /\ Len(passed) \in Nat
  BY LoginAssumption DEF LoginInv
<1>3. /\ IsWindow(minuteWindow, passed, Minute, loginNow + 1)
      /\ IsWindow(hourWindow, passed, Hour, loginNow + 1)
  BY <1>2, LaterWindow DEF LoginInv
<1>4. ASSUME NEW t \in 0 .. loginNow
      PROVE  /\ Cardinality(Counted(passed, t, Minute)) <= PerMinute
             /\ Cardinality(Counted(passed, t, Hour)) <= PerHour
  BY DEF LoginInv, LoginBound, Within, Counted
<1>5. /\ Cardinality(Counted(passed, loginNow + 1, Minute)) <= PerMinute
      /\ Cardinality(Counted(passed, loginNow + 1, Hour)) <= PerHour
  <2>1. loginNow \in 0 .. loginNow
    BY <1>2
  <2>2. /\ Counted(passed, loginNow + 1, Minute) \subseteq Counted(passed, loginNow, Minute)
        /\ Counted(passed, loginNow + 1, Hour) \subseteq Counted(passed, loginNow, Hour)
    BY <1>2, LaterFewer
  <2>3. /\ Cardinality(Counted(passed, loginNow + 1, Minute)) \in Nat
        /\ Cardinality(Counted(passed, loginNow, Minute)) \in Nat
        /\ Cardinality(Counted(passed, loginNow + 1, Minute))
             <= Cardinality(Counted(passed, loginNow, Minute))
    BY <1>2, <2>2, CountedFinite
  <2>4. /\ Cardinality(Counted(passed, loginNow + 1, Hour)) \in Nat
        /\ Cardinality(Counted(passed, loginNow, Hour)) \in Nat
        /\ Cardinality(Counted(passed, loginNow + 1, Hour))
             <= Cardinality(Counted(passed, loginNow, Hour))
    BY <1>2, <2>2, CountedFinite
  <2> QED BY <1>2, <1>4, <2>1, <2>3, <2>4
<1>6. \A t \in 0 .. (loginNow + 1) :
        /\ Cardinality(Counted(passed, t, Minute)) <= PerMinute
        /\ Cardinality(Counted(passed, t, Hour)) <= PerHour
  <2>1. \A t \in 0 .. (loginNow + 1) : t \in 0 .. loginNow \/ t = loginNow + 1
    BY <1>2
  <2> QED BY <1>4, <1>5, <2>1
<1>7. LoginBound'
  BY <1>1, <1>6 DEF LoginBound, Within, Counted
<1>8. \A k \in 1 .. Len(passed) : passed[k] <= loginNow + 1
  BY <1>2
<1> QED BY <1>1, <1>2, <1>3, <1>7, <1>8 DEF LoginInv, InOrder

(* LoginBound for every limit and every window: whatever the cleanup drops *)
(* and wherever the minute or the hour begins, at most PerMinute attempts  *)
(* pass in a minute and PerHour in an hour.                                *)
THEOREM LoginBoundHolds == LoginSpec => []LoginBound
<1>1. LoginInit => LoginInv
  <2> SUFFICES ASSUME LoginInit PROVE LoginInv
    OBVIOUS
  <2>1. loginNow = 0 /\ passed = <<>> /\ minuteWindow = <<>> /\ hourWindow = <<>>
    BY DEF LoginInit
  <2>2. \A w, t : IsWindow(<<>>, <<>>, w, t)
    BY DEF IsWindow
  <2>3. ASSUME NEW w, NEW t PROVE Within(t, w) = 0
    <3>1. {k \in 1 .. Len(passed) : passed[k] <= t /\ passed[k] + w > t} = {}
      BY <2>1
    <3>2. Cardinality({}) = 0
      BY FS_EmptySet
    <3> QED BY <3>1, <3>2, Zenon DEF Within
  <2>4. LoginBound
    BY <2>3, LoginAssumption DEF LoginBound
  <2> QED BY <2>1, <2>2, <2>4 DEF LoginInv, InOrder
<1>2. LoginInv /\ [LoginNext]_loginVars => LoginInv'
  <2> SUFFICES ASSUME LoginInv, [LoginNext]_loginVars PROVE LoginInv'
    OBVIOUS
  <2>1. CASE UNCHANGED loginVars
    BY <2>1, LoginSame DEF loginVars, LoginInv
  <2> QED BY <2>1, middlewareKeeps, loginCleanupKeeps, LoginTickKeeps DEF LoginNext
<1>3. LoginInv => LoginBound
  BY DEF LoginInv
<1> QED BY <1>1, <1>2, <1>3, PTL DEF LoginSpec

-----------------------------------------------------------------------------
(* The log queues: where an entry is.                                      *)

(* The entries of a kind on their way, the oldest first. *)
Way(k) == table[k] \o batch[k] \o channel[k]

QueueTypes ==
  /\ channel \in [LogKinds -> Seq(Nat)] /\ batch \in [LogKinds -> Seq(Nat)]
  /\ table \in [LogKinds -> Seq(Nat)]
  /\ failed \in [LogKinds -> SUBSET Nat] /\ refused \in [LogKinds -> SUBSET Nat]
  /\ logged \in [LogKinds -> Nat]
  /\ consumer \in [LogKinds -> {"receiving", "inserting", "last insert", "ended"}]

Ascending(s) == \A i, j \in 1..Len(s) : i < j => s[i] < s[j]

(* What EntriesAccounted says of one kind. *)
Accounted(k) ==
  /\ Ascending(Way(k))
  /\ ToSet(Way(k)) \cup failed[k] \cup refused[k] = 1..logged[k]
  /\ ToSet(Way(k)) \cap (failed[k] \cup refused[k]) = {}
  /\ consumer[k] = "ended" => batch[k] = <<>>

QueueInv == QueueTypes /\ \A k \in LogKinds : Accounted(k)

LEMMA SetOfSeq ==
  ASSUME NEW s \in Seq(Nat)
  PROVE  /\ ToSet(s) = {s[i] : i \in 1..Len(s)}
         /\ ToSet(s) \subseteq Nat /\ Len(s) \in Nat
  BY DEF ToSet

LEMMA SetOfConcat ==
  ASSUME NEW s \in Seq(Nat), NEW t \in Seq(Nat)
  PROVE  s \o t \in Seq(Nat) /\ ToSet(s \o t) = ToSet(s) \cup ToSet(t)
<1>1. s \o t \in Seq(Nat)
  BY ConcatProperties
<1>2. Range(s \o t) = Range(s) \cup Range(t)
  BY RangeConcatenation
<1> QED BY <1>1, <1>2 DEF ToSet, Range

(* A sequence is ascending if its two parts are, one below the other. *)
LEMMA AscendingConcat ==
  ASSUME NEW s \in Seq(Nat), NEW t \in Seq(Nat)
  PROVE  Ascending(s \o t) <=> /\ Ascending(s) /\ Ascending(t)
                               /\ \A x \in ToSet(s), y \in ToSet(t) : x < y
<1> DEFINE m == Len(s)
           n == Len(t)
<1>1. m \in Nat /\ n \in Nat /\ Len(s \o t) = m + n
  BY ConcatProperties
<1>2. /\ \A i \in 1..m : (s \o t)[i] = s[i] /\ i \in 1..(m + n) /\ s[i] \in ToSet(s)
      /\ \A i \in 1..n : (s \o t)[m + i] = t[i] /\ m + i \in 1..(m + n) /\ t[i] \in ToSet(t)
  BY <1>1, SetOfSeq, ConcatProperties
<1>3. \A i \in 1..(m + n) : i \in 1..m \/ \E j \in 1..n : i = m + j
  <2>1. ASSUME NEW i \in 1..(m + n), i \notin 1..m PROVE i - m \in 1..n /\ i = m + (i - m)
    BY <1>1, <2>1
  <2> QED BY <2>1
<1>4. ASSUME Ascending(s \o t)
      PROVE  /\ Ascending(s) /\ Ascending(t)
             /\ \A x \in ToSet(s), y \in ToSet(t) : x < y
  <2>1. \A i, j \in 1..(m + n) : i < j => (s \o t)[i] < (s \o t)[j]
    BY <1>1, <1>4 DEF Ascending
  <2> HIDE DEF m, n
  <2>2. ASSUME NEW i \in 1..m, NEW j \in 1..m, i < j PROVE s[i] < s[j]
    BY <1>2, <2>1, <2>2
  <2>3. ASSUME NEW i \in 1..n, NEW j \in 1..n, i < j PROVE t[i] < t[j]
    <3>1. m + i < m + j
      BY <1>1, <2>3
    <3> QED BY <1>2, <2>1, <3>1
  <2>4. ASSUME NEW i \in 1..m, NEW j \in 1..n PROVE s[i] < t[j]
    <3>1. i < m + j
      BY <1>1
    <3> QED BY <1>2, <2>1, <3>1
  <2>5. Ascending(s) /\ Ascending(t)
    BY <2>2, <2>3 DEF Ascending, m, n
  <2>6. ASSUME NEW x \in ToSet(s), NEW y \in ToSet(t) PROVE x < y
    <3>1. PICK i \in 1..m : x = s[i]
      BY <2>6, SetOfSeq DEF m
    <3>2. PICK j \in 1..n : y = t[j]
      BY <2>6, SetOfSeq DEF n
    <3> QED BY <2>4, <3>1, <3>2
  <2> QED BY <2>5, <2>6
<1>5. ASSUME Ascending(s), Ascending(t), \A x \in ToSet(s), y \in ToSet(t) : x < y
      PROVE  Ascending(s \o t)
  <2>1. /\ \A i, j \in 1..m : i < j => s[i] < s[j]
        /\ \A i, j \in 1..n : i < j => t[i] < t[j]
    BY <1>5 DEF Ascending
  <2>2. SUFFICES ASSUME NEW i \in 1..(m + n), NEW j \in 1..(m + n), i < j
                 PROVE  (s \o t)[i] < (s \o t)[j]
    BY <1>1 DEF Ascending
  <2> HIDE DEF m, n
  <2>3. CASE i \in 1..m /\ j \in 1..m
    BY <1>2, <2>1, <2>2, <2>3
  <2>4. CASE i \in 1..m /\ j \notin 1..m
    <3>1. PICK q \in 1..n : j = m + q
      BY <1>3, <2>4
    <3> QED BY <1>2, <1>5, <2>4, <3>1
  <2>5. CASE i \notin 1..m
    <3>1. PICK p \in 1..n : i = m + p
      BY <1>3, <2>5
    <3>2. j \notin 1..m
      BY <1>1, <2>2, <2>5
    <3>3. PICK q \in 1..n : j = m + q
      BY <1>3, <3>2
    <3>4. p < q
      BY <1>1, <2>2, <3>1, <3>3
    <3> QED BY <1>2, <2>1, <3>1, <3>3, <3>4
  <2> QED BY <2>3, <2>4, <2>5
<1> QED BY <1>4, <1>5

(* The three parts of the way. *)
LEMMA WayParts ==
  ASSUME NEW t \in Seq(Nat), NEW b \in Seq(Nat), NEW c \in Seq(Nat)
  PROVE  /\ t \o b \o c \in Seq(Nat) /\ t \o b \in Seq(Nat)
         /\ ToSet(t \o b \o c) = ToSet(t) \cup ToSet(b) \cup ToSet(c)
         /\ Ascending(t \o b \o c) <=>
              /\ Ascending(t) /\ Ascending(b) /\ Ascending(c)
              /\ \A x \in ToSet(t), y \in ToSet(b) : x < y
              /\ \A x \in ToSet(t) \cup ToSet(b), y \in ToSet(c) : x < y
<1>1. t \o b \in Seq(Nat) /\ ToSet(t \o b) = ToSet(t) \cup ToSet(b)
  BY SetOfConcat
<1>2. t \o b \o c \in Seq(Nat) /\ ToSet(t \o b \o c) = ToSet(t \o b) \cup ToSet(c)
  BY <1>1, SetOfConcat
<1>3. Ascending(t \o b \o c) <=> /\ Ascending(t \o b) /\ Ascending(c)
                                 /\ \A x \in ToSet(t \o b), y \in ToSet(c) : x < y
  BY <1>1, AscendingConcat
<1>4. Ascending(t \o b) <=> /\ Ascending(t) /\ Ascending(b)
                            /\ \A x \in ToSet(t), y \in ToSet(b) : x < y
  BY AscendingConcat
<1> QED BY <1>1, <1>2, <1>3, <1>4, Zenon

LEMMA EmptyIsAscending == Ascending(<<>>) /\ ToSet(<<>>) = {} /\ <<>> \in Seq(Nat)
  BY DEF Ascending, ToSet

LEMMA OneIsAscending ==
  ASSUME NEW e \in Nat
  PROVE  Ascending(<<e>>) /\ ToSet(<<e>>) = {e} /\ <<e>> \in Seq(Nat)
  BY DEF Ascending, ToSet

(* The other kinds of entry stay as they are. *)
LEMMA OneKind ==
  ASSUME QueueInv, NEW k \in LogKinds, QueueTypes', Accounted(k)',
         \A x \in LogKinds \ {k} :
           /\ channel'[x] = channel[x] /\ batch'[x] = batch[x] /\ table'[x] = table[x]
           /\ failed'[x] = failed[x] /\ refused'[x] = refused[x] /\ logged'[x] = logged[x]
           /\ consumer'[x] = consumer[x]
  PROVE  QueueInv'
<1>1. ASSUME NEW x \in LogKinds PROVE Accounted(x)'
  <2>1. CASE x = k
    BY <2>1
  <2>2. CASE x # k
    BY <2>2 DEF QueueInv, Accounted, Way
  <2> QED BY <2>1, <2>2
<1> QED BY <1>1 DEF QueueInv

LEMMA EnqueueKeeps ==
  ASSUME QueueInv, NEW k \in LogKinds, Enqueue(k)
  PROVE  QueueInv'
<1>1. PICK t \in Seq(Nat), b \in Seq(Nat), c \in Seq(Nat), n \in Nat :
        t = table[k] /\ b = batch[k] /\ c = channel[k] /\ n = logged[k]
  BY DEF QueueInv, QueueTypes
<1>2. PICK e \in Nat : e = n + 1
  OBVIOUS
<1>3. /\ UNCHANGED <<batch, consumer, table, failed>>
      /\ logged' \in [LogKinds -> Nat] /\ logged'[k] = e
      /\ \A x \in LogKinds \ {k} : logged'[x] = logged[x]
  <2>1. logged' = [logged EXCEPT ![k] = e]
    BY <1>1, <1>2 DEF Enqueue
  <2> QED BY <2>1 DEF QueueInv, QueueTypes, Enqueue
<1>4. /\ Ascending(t \o b \o c)
      /\ ToSet(t \o b \o c) \cup failed[k] \cup refused[k] = 1..n
      /\ ToSet(t \o b \o c) \cap (failed[k] \cup refused[k]) = {}
      /\ consumer[k] = "ended" => b = <<>>
  BY <1>1 DEF QueueInv, Accounted, Way
<1>5. 1..e = (1..n) \cup {e} /\ e \notin 1..n /\ \A x \in 1..n : x < e
  BY <1>1, <1>2
<1>6. CASE ~Full(k)
  <2>1. /\ channel' = [channel EXCEPT ![k] = Append(c, e)] /\ UNCHANGED refused
    BY <1>1, <1>2, <1>6 DEF Enqueue
  <2>2. Append(c, e) = c \o <<e>> /\ Append(c, e) \in Seq(Nat)
    BY AppendIsConcat, AppendProperties
  <2>3. PICK d \in Seq(Nat) : d = Append(c, e)
    BY <2>2
  <2>4. /\ channel' \in [LogKinds -> Seq(Nat)] /\ channel'[k] = d
        /\ \A x \in LogKinds \ {k} : channel'[x] = channel[x]
    BY <2>1, <2>3 DEF QueueInv, QueueTypes
  <2>5. QueueTypes'
    BY <1>3, <2>1, <2>4 DEF QueueInv, QueueTypes
  <2>6. /\ ToSet(d) = ToSet(c) \cup {e}
        /\ Ascending(d) <=> Ascending(c) /\ \A x \in ToSet(c), y \in {e} : x < y
    <3>1. PICK o \in Seq(Nat) : o = <<e>>
      BY OneIsAscending
    <3>2. Ascending(o) /\ ToSet(o) = {e}
      BY <3>1, OneIsAscending
    <3>3. d = c \o o
      BY <2>2, <2>3, <3>1
    <3>4. ToSet(c \o o) = ToSet(c) \cup ToSet(o)
      BY SetOfConcat
    <3>5. Ascending(c \o o) <=> /\ Ascending(c) /\ Ascending(o)
                                /\ \A x \in ToSet(c), y \in ToSet(o) : x < y
      BY AscendingConcat
    <3> QED BY <3>2, <3>3, <3>4, <3>5, Zenon
  <2>7. /\ ToSet(t \o b \o c) = ToSet(t) \cup ToSet(b) \cup ToSet(c)
        /\ ToSet(t \o b \o d) = ToSet(t) \cup ToSet(b) \cup ToSet(d)
    BY WayParts
  <2>8. \A x \in ToSet(t) \cup ToSet(b) \cup ToSet(c) : x < e
    BY <1>4, <1>5, <2>7
  <2>9. Ascending(t \o b \o d)
    <3>1. /\ Ascending(t) /\ Ascending(b) /\ Ascending(c)
          /\ \A x \in ToSet(t), y \in ToSet(b) : x < y
          /\ \A x \in ToSet(t) \cup ToSet(b), y \in ToSet(c) : x < y
      BY <1>4, WayParts
    <3>2. Ascending(d)
      BY <2>6, <2>8, <3>1
    <3>3. \A x \in ToSet(t) \cup ToSet(b), y \in ToSet(d) : x < y
      BY <2>6, <2>8, <3>1
    <3> QED BY <3>1, <3>2, <3>3, WayParts
  <2>10. /\ ToSet(t \o b \o d) \cup failed[k] \cup refused[k] = 1..e
         /\ ToSet(t \o b \o d) \cap (failed[k] \cup refused[k]) = {}
    BY <1>4, <1>5, <2>6, <2>7
  <2>11. Accounted(k)'
    BY <1>1, <1>3, <1>4, <2>1, <2>4, <2>9, <2>10 DEF Accounted, Way
  <2> QED BY <1>3, <2>1, <2>4, <2>5, <2>11, OneKind
<1>7. CASE Full(k)
  <2>1. refused' = [refused EXCEPT ![k] = refused[k] \cup {e}] /\ UNCHANGED channel
    BY <1>1, <1>2, <1>7 DEF Enqueue
  <2>2. /\ refused' \in [LogKinds -> SUBSET Nat] /\ refused'[k] = refused[k] \cup {e}
        /\ \A x \in LogKinds \ {k} : refused'[x] = refused[x]
    BY <2>1 DEF QueueInv, QueueTypes
  <2>3. QueueTypes'
    BY <1>3, <2>1, <2>2 DEF QueueInv, QueueTypes
  <2>4. /\ ToSet(t \o b \o c) \cup failed[k] \cup refused'[k] = 1..e
        /\ ToSet(t \o b \o c) \cap (failed[k] \cup refused'[k]) = {}
    BY <1>4, <1>5, <2>2
  <2>5. Accounted(k)'
    BY <1>1, <1>3, <1>4, <2>1, <2>4 DEF Accounted, Way
  <2> QED BY <1>3, <2>1, <2>2, <2>3, <2>5, OneKind
<1> QED BY <1>6, <1>7

(* Concatenation, position by position.                                    *)
LEMMA ConcatLeft ==
  ASSUME NEW s \in Seq(Nat), NEW t \in Seq(Nat), NEW m \in Nat, NEW n \in Nat,
         m = Len(s), n = Len(t), NEW i \in 1..(m + n), i <= m
  PROVE  (s \o t)[i] = s[i]
<1>1. (s \o t)[i] = IF i <= m THEN s[i] ELSE t[i - m]
  BY ConcatProperties, Zenon
<1> QED BY <1>1, Zenon

LEMMA ConcatRight ==
  ASSUME NEW s \in Seq(Nat), NEW t \in Seq(Nat), NEW m \in Nat, NEW n \in Nat,
         m = Len(s), n = Len(t), NEW i \in 1..(m + n), m < i
  PROVE  (s \o t)[i] = t[i - m]
<1>1. (s \o t)[i] = IF i <= m THEN s[i] ELSE t[i - m]
  BY ConcatProperties, Zenon
<1>2. ~(i <= m)
  OBVIOUS
<1> QED BY <1>1, <1>2, Zenon

LEMMA ConcatSame ==
  ASSUME NEW u \in Seq(Nat), NEW v \in Seq(Nat), NEW w \in Seq(Nat),
         NEW x \in Seq(Nat), NEW y \in Seq(Nat), x = u \o v, y = v \o w,
         NEW a \in Nat, NEW b \in Nat, NEW c \in Nat, a = Len(u), b = Len(v), c = Len(w),
         NEW i \in 1..(a + b + c)
  PROVE  (x \o w)[i] = (u \o y)[i]
<1>1. PICK d \in Nat, e \in Nat : d = a + b /\ e = b + c /\ d = Len(x) /\ e = Len(y)
  BY ConcatProperties
<1>2. i \in 1..(d + c) /\ i \in 1..(a + e) /\ i \in Nat
  BY <1>1
<1>3. CASE i <= a
  <2>1. i <= d /\ i \in 1..(a + b)
    BY <1>1, <1>3
  <2>2. (x \o w)[i] = x[i]
    BY <1>1, <1>2, <2>1, ConcatLeft
  <2>3. x[i] = u[i]
    BY <1>3, <2>1, ConcatLeft
  <2>4. (u \o y)[i] = u[i]
    BY <1>1, <1>2, <1>3, ConcatLeft
  <2> QED BY <2>2, <2>3, <2>4
<1>4. CASE a < i /\ i <= d
  <2>1. i \in 1..(a + b) /\ i - a \in 1..(b + c) /\ i - a <= b
    BY <1>1, <1>2, <1>4
  <2>2. (x \o w)[i] = x[i]
    BY <1>1, <1>2, <1>4, ConcatLeft
  <2>3. x[i] = v[i - a]
    BY <1>4, <2>1, ConcatRight
  <2>4. (u \o y)[i] = y[i - a]
    BY <1>1, <1>2, <1>4, ConcatRight
  <2>5. y[i - a] = v[i - a]
    BY <2>1, ConcatLeft
  <2> QED BY <2>2, <2>3, <2>4, <2>5
<1>5. CASE d < i
  <2>1. a < i /\ i - a \in 1..(b + c) /\ b < i - a /\ (i - a) - b = i - d
    BY <1>1, <1>2, <1>5
  <2>2. (x \o w)[i] = w[i - d]
    BY <1>1, <1>2, <1>5, ConcatRight
  <2>3. (u \o y)[i] = y[i - a]
    BY <1>1, <1>2, <2>1, ConcatRight
  <2>4. ASSUME NEW j \in 1..(b + c), b < j
        PROVE  (v \o w)[j] = w[j - b]
    BY <2>4, ConcatRight
  <2>5. y[i - a] = w[(i - a) - b]
    BY <2>1, <2>4
  <2> QED BY <2>1, <2>2, <2>3, <2>5
<1>6. i <= a \/ (a < i /\ i <= d) \/ d < i
  BY <1>1, <1>2
<1> QED BY <1>3, <1>4, <1>5, <1>6

LEMMA ConcatEqual ==
  ASSUME NEW u \in Seq(Nat), NEW v \in Seq(Nat), NEW w \in Seq(Nat),
         NEW x \in Seq(Nat), NEW y \in Seq(Nat), x = u \o v, y = v \o w
  PROVE  x \o w = u \o y
<1>1. PICK a \in Nat, b \in Nat, c \in Nat : a = Len(u) /\ b = Len(v) /\ c = Len(w)
  BY LenProperties
<1>2. x \o w \in Seq(Nat) /\ u \o y \in Seq(Nat)
  BY ConcatProperties
<1>3. Len(x \o w) = a + b + c /\ Len(u \o y) = a + b + c
  BY <1>1, ConcatProperties
<1>4. ASSUME NEW i \in 1..Len(x \o w) PROVE (x \o w)[i] = (u \o y)[i]
  <2>1. i \in 1..(a + b + c)
    BY <1>3
  <2> QED BY <1>1, <2>1, ConcatSame
<1> QED BY <1>2, <1>3, <1>4, SeqEqual

LEMMA ConcatAgrees ==
  ASSUME NEW u \in Seq(Nat), NEW v \in Seq(Nat), NEW w \in Seq(Nat)
  PROVE  (u \o v) \o w = u \o (v \o w)
<1>1. u \o v \in Seq(Nat) /\ v \o w \in Seq(Nat)
  BY ConcatProperties
<1> QED BY <1>1, ConcatEqual

(* Receiving moves the oldest entry of the channel to the end of the batch. *)
LEMMA ReceiveKeepsWay ==
  ASSUME NEW t \in Seq(Nat), NEW b \in Seq(Nat), NEW c \in Seq(Nat), c # <<>>
  PROVE  \E d \in Seq(Nat), r \in Seq(Nat) :
           d = Append(b, Head(c)) /\ r = Tail(c) /\ t \o d \o r = t \o b \o c
<1>1. Head(c) \in Nat /\ Tail(c) \in Seq(Nat) /\ c = <<Head(c)>> \o Tail(c)
  BY HeadTailProperties
<1>2. PICK e \in Nat, r \in Seq(Nat) : e = Head(c) /\ r = Tail(c)
  BY <1>1
<1>3. PICK o \in Seq(Nat) : o = <<e>>
  BY OneIsAscending
<1>4. Append(b, e) = b \o o /\ Append(b, e) \in Seq(Nat)
  BY <1>3, AppendIsConcat, AppendProperties
<1>5. t \o (b \o o) = (t \o b) \o o
  BY ConcatAgrees, ZenonT(40)
<1>6. t \o b \in Seq(Nat)
  BY ConcatProperties
<1>7. ((t \o b) \o o) \o r = (t \o b) \o (o \o r)
  BY <1>6, ConcatAgrees
<1>8. PICK d \in Seq(Nat) : d = Append(b, e)
  BY <1>4
<1>9. t \o d \o r = t \o b \o c
  BY <1>1, <1>2, <1>3, <1>4, <1>5, <1>7, <1>8, Zenon
<1> QED BY <1>2, <1>8, <1>9, Zenon

LEMMA ConsumeKeeps ==
  ASSUME QueueInv, NEW k \in LogKinds, NEW size, Consume(k, size)
  PROVE  QueueInv'
<1>1. PICK t \in Seq(Nat), b \in Seq(Nat), c \in Seq(Nat) :
        t = table[k] /\ b = batch[k] /\ c = channel[k]
  BY DEF QueueInv, QueueTypes
<1>2. /\ UNCHANGED <<table, failed, refused, logged>>
      /\ consumer[k] = "receiving"
  BY DEF Consume
<1>3. /\ Ascending(t \o b \o c)
      /\ ToSet(t \o b \o c) \cup failed[k] \cup refused[k] = 1..logged[k]
      /\ ToSet(t \o b \o c) \cap (failed[k] \cup refused[k]) = {}
  BY <1>1 DEF QueueInv, Accounted, Way
<1>4. CASE /\ channel[k] # <<>>
           /\ channel' = [channel EXCEPT ![k] = Tail(channel[k])]
           /\ batch' = [batch EXCEPT ![k] = Append(batch[k], Head(channel[k]))]
           /\ consumer' = [consumer EXCEPT ![k] =
                             IF Len(batch'[k]) >= size THEN "inserting" ELSE consumer[k]]
  <2>1. c # <<>>
    BY <1>1, <1>4
  <2>2. PICK d \in Seq(Nat), r \in Seq(Nat) :
          d = Append(b, Head(c)) /\ r = Tail(c) /\ t \o d \o r = t \o b \o c
    BY <2>1, ReceiveKeepsWay, ZenonT(40)
  <2>3. /\ channel' \in [LogKinds -> Seq(Nat)] /\ channel'[k] = r
        /\ \A x \in LogKinds \ {k} : channel'[x] = channel[x]
        /\ batch' \in [LogKinds -> Seq(Nat)] /\ batch'[k] = d
        /\ \A x \in LogKinds \ {k} : batch'[x] = batch[x]
    <3>1. channel' = [channel EXCEPT ![k] = r] /\ batch' = [batch EXCEPT ![k] = d]
      BY <1>1, <1>4, <2>2
    <3> QED BY <3>1 DEF QueueInv, QueueTypes
  <2>4. /\ consumer' \in [LogKinds -> {"receiving", "inserting", "last insert", "ended"}]
        /\ consumer'[k] # "ended"
        /\ \A x \in LogKinds \ {k} : consumer'[x] = consumer[x]
    <3>1. PICK next \in {"receiving", "inserting"} : consumer' = [consumer EXCEPT ![k] = next]
      BY <1>2, <1>4
    <3> QED BY <3>1 DEF QueueInv, QueueTypes
  <2>5. QueueTypes'
    BY <1>2, <2>3, <2>4 DEF QueueInv, QueueTypes
  <2>6. Accounted(k)'
    BY <1>1, <1>2, <1>3, <2>2, <2>3, <2>4 DEF Accounted, Way
  <2> QED BY <1>2, <2>3, <2>4, <2>5, <2>6, OneKind
<1>5. CASE /\ \/ consumer' = [consumer EXCEPT ![k] = "inserting"]
              \/ consumer' = DoneReceived(k)
           /\ UNCHANGED <<channel, batch>>
  <2>1. PICK next \in {"inserting", "last insert", "ended"} :
          /\ consumer' = [consumer EXCEPT ![k] = next]
          /\ next = "ended" => b = <<>>
    BY <1>1, <1>5 DEF DoneReceived
  <2>2. /\ consumer' \in [LogKinds -> {"receiving", "inserting", "last insert", "ended"}]
        /\ consumer'[k] = next
        /\ \A x \in LogKinds \ {k} : consumer'[x] = consumer[x]
    BY <2>1 DEF QueueInv, QueueTypes
  <2>3. QueueTypes'
    BY <1>2, <1>5, <2>2 DEF QueueInv, QueueTypes
  <2>4. Accounted(k)'
    BY <1>1, <1>2, <1>3, <1>5, <2>1, <2>2 DEF Accounted, Way
  <2> QED BY <1>2, <1>5, <2>2, <2>3, <2>4, OneKind
<1> QED BY <1>4, <1>5 DEF Consume

(* What is left of an ascending batch is ascending. *)
LEMMA RemaindersAscend ==
  ASSUME NEW b \in Seq(Nat), Ascending(b), NEW rows \in Remainders(b)
  PROVE  rows \in Seq(Nat) /\ Ascending(rows) /\ ToSet(rows) \subseteq ToSet(b)
<1>0. PICK n \in 0..Len(b) :
        \E row \in [1..n -> DOMAIN b] :
          /\ \A i, j \in 1..n : i < j => row[i] < row[j]
          /\ rows = [i \in 1..n |-> b[row[i]]]
  BY DEF Remainders
<1>1. PICK row \in [1..n -> DOMAIN b] :
        /\ \A i, j \in 1..n : i < j => row[i] < row[j]
        /\ rows = [i \in 1..n |-> b[row[i]]]
  BY <1>0
<1>2. DOMAIN b = 1..Len(b) /\ Len(b) \in Nat /\ n \in Nat
  BY LenProperties
<1>3. \A i \in 1..n : row[i] \in 1..Len(b) /\ rows[i] = b[row[i]] /\ rows[i] \in Nat
  BY <1>1, <1>2, ElementOfSeq
<1>4. rows \in [1..n -> Nat]
  BY <1>1, <1>3
<1>5. rows \in Seq(Nat) /\ Len(rows) = n
  BY <1>2, <1>4, LenProperties, SeqDef
<1>6. Ascending(rows)
  <2> SUFFICES ASSUME NEW i \in 1..n, NEW j \in 1..n, i < j PROVE rows[i] < rows[j]
    BY <1>5 DEF Ascending
  <2>1. row[i] < row[j] /\ row[i] \in 1..Len(b) /\ row[j] \in 1..Len(b)
    BY <1>1, <1>3
  <2>2. b[row[i]] < b[row[j]]
    BY <2>1 DEF Ascending
  <2> QED BY <1>3, <2>2
<1>7. ToSet(rows) \subseteq ToSet(b)
  <2>1. ToSet(rows) = {rows[i] : i \in 1..n} /\ ToSet(b) = {b[i] : i \in 1..Len(b)}
    BY <1>5, SetOfSeq
  <2> QED BY <1>3, <2>1
<1> QED BY <1>5, <1>6, <1>7

LEMMA InsertKeeps ==
  ASSUME QueueInv, NEW k \in LogKinds, InsertBatch(k)
  PROVE  QueueInv'
<1>1. PICK t \in Seq(Nat), b \in Seq(Nat), c \in Seq(Nat), e \in Seq(Nat) :
        t = table[k] /\ b = batch[k] /\ c = channel[k] /\ e = <<>>
  <2>1. table[k] \in Seq(Nat) /\ batch[k] \in Seq(Nat) /\ channel[k] \in Seq(Nat)
    BY DEF QueueInv, QueueTypes
  <2> QED BY <2>1, EmptyIsAscending, Zenon
<1>2. /\ UNCHANGED <<channel, refused, logged>>
      /\ batch' \in [LogKinds -> Seq(Nat)] /\ batch'[k] = e
      /\ \A x \in LogKinds \ {k} : batch'[x] = batch[x]
  <2>1. batch' = [batch EXCEPT ![k] = e]
    BY <1>1 DEF InsertBatch, Flushed
  <2> QED BY <2>1 DEF InsertBatch, QueueInv, QueueTypes
<1>3. /\ consumer' \in [LogKinds -> {"receiving", "inserting", "last insert", "ended"}]
      /\ \A x \in LogKinds \ {k} : consumer'[x] = consumer[x]
  BY DEF InsertBatch, QueueInv, QueueTypes
<1>4. /\ Ascending(t \o b \o c)
      /\ ToSet(t \o b \o c) \cup failed[k] \cup refused[k] = 1..logged[k]
      /\ ToSet(t \o b \o c) \cap (failed[k] \cup refused[k]) = {}
  BY <1>1 DEF QueueInv, Accounted, Way
<1>5. /\ ToSet(t \o b \o c) = ToSet(t) \cup ToSet(b) \cup ToSet(c)
      /\ ToSet(t) \subseteq Nat /\ ToSet(b) \subseteq Nat /\ ToSet(c) \subseteq Nat
  BY WayParts, SetOfSeq
<1>6. /\ Ascending(t) /\ Ascending(b) /\ Ascending(c)
      /\ \A x \in ToSet(t), y \in ToSet(b) : x < y
      /\ \A x \in ToSet(t) \cup ToSet(b), y \in ToSet(c) : x < y
  BY <1>4, WayParts
<1>7. PICK rows \in Remainders(b) :
        /\ table' = [table EXCEPT ![k] = t \o rows]
        /\ failed' = [failed EXCEPT ![k] = failed[k] \cup (ToSet(b) \ ToSet(rows))]
  BY <1>1 DEF InsertBatch
<1>8. rows \in Seq(Nat) /\ Ascending(rows) /\ ToSet(rows) \subseteq ToSet(b)
  BY <1>6, RemaindersAscend
<1>9. PICK u \in Seq(Nat) : u = t \o rows
  BY <1>8, WayParts
<1>10. /\ table' \in [LogKinds -> Seq(Nat)] /\ table'[k] = u
       /\ \A x \in LogKinds \ {k} : table'[x] = table[x]
  <2>1. table' = [table EXCEPT ![k] = u]
    BY <1>7, <1>9
  <2> QED BY <2>1 DEF QueueInv, QueueTypes
<1>11. /\ failed' \in [LogKinds -> SUBSET Nat]
       /\ failed'[k] = failed[k] \cup (ToSet(b) \ ToSet(rows))
       /\ \A x \in LogKinds \ {k} : failed'[x] = failed[x]
  BY <1>5, <1>7 DEF QueueInv, QueueTypes
<1>12. QueueTypes'
  BY <1>2, <1>3, <1>10, <1>11 DEF QueueInv, QueueTypes
<1>13. u \o e \o c = t \o rows \o c
  BY <1>1, <1>9, ConcatEmptySeq
<1>14. /\ ToSet(t \o rows \o c) = ToSet(t) \cup ToSet(rows) \cup ToSet(c)
       /\ Ascending(t \o rows \o c)
  <2>1. PICK d \in Seq(Nat) : d = rows
    BY <1>8
  <2>2. /\ Ascending(d) /\ \A x \in ToSet(t), y \in ToSet(d) : x < y
        /\ \A x \in ToSet(t) \cup ToSet(d), y \in ToSet(c) : x < y
    BY <1>6, <1>8, <2>1
  <2>3. ToSet(t \o d \o c) = ToSet(t) \cup ToSet(d) \cup ToSet(c)
    BY WayParts
  <2>4. Ascending(t \o d \o c)
    BY <1>6, <2>2, WayParts
  <2> QED BY <2>1, <2>3, <2>4
<1>15. ToSet(t) \cap ToSet(b) = {} /\ ToSet(c) \cap ToSet(b) = {}
  BY <1>5, <1>6
<1>16. /\ ToSet(t \o rows \o c) \cup failed'[k] \cup refused[k] = 1..logged[k]
       /\ ToSet(t \o rows \o c) \cap (failed'[k] \cup refused[k]) = {}
  BY <1>4, <1>5, <1>8, <1>11, <1>14, <1>15
<1>17. Accounted(k)'
  BY <1>1, <1>2, <1>10, <1>13, <1>14, <1>16 DEF Accounted, Way
<1> QED BY <1>2, <1>3, <1>10, <1>11, <1>12, <1>17, OneKind

LEMMA QueueStep == QueueInv /\ [LogNext]_logVars => QueueInv'
<1> SUFFICES ASSUME QueueInv, [LogNext]_logVars PROVE QueueInv'
  OBVIOUS
<1>1. CASE UNCHANGED logVars \/ CloseDone \/ CloseStore
  <2>1. UNCHANGED <<channel, batch, consumer, table, failed, refused, logged>>
    BY <1>1 DEF logVars, CloseDone, CloseStore
  <2> QED BY <2>1 DEF QueueInv, QueueTypes, Accounted, Way
<1>2. "request" \in LogKinds /\ "refresh" \in LogKinds /\ "event" \in LogKinds
  BY DEF LogKinds
<1>3. CASE LogRequest \/ LogRefresh \/ LogEvent
  BY <1>2, <1>3, EnqueueKeeps DEF LogRequest, LogRefresh, LogEvent
<1>4. CASE consumeRequestLogs \/ consumeRefreshLogs \/ consumeAccountEvents
  BY <1>2, <1>4, ConsumeKeeps DEF consumeRequestLogs, consumeRefreshLogs, consumeAccountEvents
<1>5. CASE InsertRequestBatch \/ InsertRefreshBatch \/ InsertEventBatch
  BY <1>2, <1>5, InsertKeeps DEF InsertRequestBatch, InsertRefreshBatch, InsertEventBatch
<1> QED BY <1>1, <1>3, <1>4, <1>5 DEF LogNext

LEMMA QueueStarts == LogInit => QueueInv
<1> SUFFICES ASSUME LogInit PROVE QueueInv
  OBVIOUS
<1>1. QueueTypes
  BY DEF LogInit, QueueTypes
<1>2. ASSUME NEW k \in LogKinds PROVE Accounted(k)
  <2>1. Way(k) = <<>>
    <3>1. table[k] = <<>> /\ batch[k] = <<>> /\ channel[k] = <<>>
      BY DEF LogInit
    <3>2. <<>> \o <<>> \o <<>> = <<>>
      OBVIOUS
    <3> QED BY <3>1, <3>2 DEF Way
  <2>2. 1..0 = {} /\ logged[k] = 0 /\ failed[k] = {} /\ refused[k] = {} /\ batch[k] = <<>>
    BY DEF LogInit
  <2> QED BY <2>1, <2>2, EmptyIsAscending DEF Accounted
<1> QED BY <1>1, <1>2 DEF QueueInv

(* Every entry logged is in the table once and in order, on its way, or    *)
(* dropped by a full channel, a failed insert or a failed row of one, for  *)
(* every buffer and batch size (db.go, LogRequest and its like, the        *)
(* consumers, Close; logstore_sqlite.go, the inserts).                     *)
THEOREM EntriesAccountedHolds == LogSpec => []EntriesAccounted
<1>1. LogSpec => []QueueInv
  BY QueueStarts, QueueStep, PTL DEF LogSpec
<1>2. QueueInv => EntriesAccounted
  BY DEF QueueInv, Accounted, Ascending, Way, EntriesAccounted
<1> QED BY <1>1, <1>2, PTL

-----------------------------------------------------------------------------
(* The tunnel manager: no child process is lost, and what runs is what is  *)
(* saved, whatever calls of operators overlap.                             *)

CallSteps == {"idle", "stop", "kill", "quick", "named", "save", "exit"}
CallOps == {"none", "enable", "half", "shutdown"}
CallRecord == [step : CallSteps, op : CallOps, mode : TunnelModes, kill : SUBSET Nat]
CaptureRecord == [step : {"waits", "saves", "ended"}, mode : TunnelModes]

(* The types, in the form the proofs use. *)
TunnelTypes ==
  /\ children \in Seq(BOOLEAN) /\ capture \in Seq(CaptureRecord)
  /\ Len(capture) = Len(children)
  /\ quickCmd \in Nat /\ namedCmd \in Nat
  /\ config \in TunnelModes
  /\ tcall \in [TunnelCallers -> CallRecord]
  /\ gateway \in {"up", "down"}
  /\ crossed \in BOOLEAN /\ cutOff \in BOOLEAN

(* Where a call is agrees with what it does: only one that has taken the   *)
(* commands over holds processes to kill, only Shutdown comes to exit, and *)
(* only a hybrid call without its quick tunnel is half done.               *)
CallShape ==
  \A c \in TunnelCallers :
    /\ CallIn(c, "idle") => tcall[c] = NoTunnelCall
    /\ ~CallIn(c, "kill") => tcall[c].kill = {}
    /\ CallIn(c, "exit") => tcall[c].op = "shutdown"
    /\ tcall[c].op = "shutdown" => tcall[c].step \in {"stop", "kill", "exit"}
    /\ tcall[c].op = "half" => tcall[c].step \in {"named", "save"}

(* A gateway that ended holds nothing. *)
DownIsEmpty ==
  gateway = "down" => /\ quickCmd = NoCmd /\ namedCmd = NoCmd
                      /\ \A c \in TunnelCallers : CallIn(c, "idle")

(* Shutdown runs alone unless it cut a call off, so no command appears     *)
(* behind its stopAll.                                                     *)
ShutdownAlone ==
  \A c \in TunnelCallers : (tcall[c].op = "shutdown" /\ ~cutOff) =>
    /\ \A d \in TunnelCallers \ {c} : CallIn(d, "idle")
    /\ ~CallIn(c, "stop") => quickCmd = NoCmd /\ namedCmd = NoCmd

(* Calls that did not cross run one at a time, and between its stopAll and *)
(* its save the commands of a call are those of its mode.                  *)
CallAlone ==
  ~crossed =>
    \A c \in TunnelCallers : ~CallIn(c, "idle") =>
      /\ \A d \in TunnelCallers \ {c} : CallIn(d, "idle")
      /\ tcall[c].step \in {"kill", "quick", "exit"} => quickCmd = NoCmd /\ namedCmd = NoCmd
      /\ CallIn(c, "named") => /\ namedCmd = NoCmd
                               /\ HasNamed(tcall[c].mode)
                               /\ quickCmd # NoCmd =>
                                    tcall[c].mode = "hybrid" /\ tcall[c].op # "half"
      /\ CallIn(c, "quick") => HasQuick(tcall[c].mode)
      /\ CallIn(c, "save") => /\ quickCmd # NoCmd => HasQuick(tcall[c].mode)
                              /\ namedCmd # NoCmd => HasNamed(tcall[c].mode)

TunnelInv ==
  /\ TunnelTypes /\ CallShape /\ DownIsEmpty /\ ShutdownAlone /\ CallAlone
  /\ NoOrphan /\ RunsWhatIsSaved

-----------------------------------------------------------------------------
(* The steps that change one call, or the sequences of processes.          *)

LEMMA ListOfFlags ==
  ASSUME NEW n \in Nat, NEW f \in [1 .. n -> BOOLEAN]
  PROVE  f \in Seq(BOOLEAN) /\ Len(f) = n
  OBVIOUS

LEMMA OneCall ==
  ASSUME TunnelTypes, NEW c \in TunnelCallers, NEW r \in CallRecord,
         tcall' = [tcall EXCEPT ![c] = r]
  PROVE  /\ tcall' \in [TunnelCallers -> CallRecord]
         /\ tcall'[c] = r
         /\ \A d \in TunnelCallers \ {c} : tcall'[d] = tcall[d]
  BY DEF TunnelTypes

LEMMA Spawned ==
  ASSUME TunnelTypes, NEW kind \in {"quick", "named"}, Spawn(kind)
  PROVE  /\ children' \in Seq(BOOLEAN) /\ capture' \in Seq(CaptureRecord)
         /\ Len(capture') = Len(children') /\ Len(children') = Len(children) + 1
         /\ Alive' = Alive \cup {Len(children) + 1}
         /\ Alive \subseteq 1 .. Len(children)
<1>1. [NoCapture EXCEPT !.step = IF kind = "quick" THEN "waits" ELSE @] \in CaptureRecord
  BY DEF NoCapture, CaptureRecord, TunnelModes
<1>2. /\ children' \in Seq(BOOLEAN) /\ capture' \in Seq(CaptureRecord)
      /\ Len(capture') = Len(children') /\ Len(children') = Len(children) + 1
      /\ children'[Len(children) + 1] = TRUE
      /\ \A p \in 1 .. Len(children) : children'[p] = children[p]
  BY <1>1 DEF Spawn, TunnelTypes
<1>3. Len(children) \in Nat
  BY DEF TunnelTypes
<1> QED BY <1>2, <1>3 DEF Alive

LEMMA IdleCall ==
  /\ NoTunnelCall \in CallRecord
  /\ NoTunnelCall.step = "idle" /\ NoTunnelCall.op = "none" /\ NoTunnelCall.kill = {}
  BY DEF NoTunnelCall, CallRecord, CallSteps, CallOps, TunnelModes

-----------------------------------------------------------------------------
(* The steps of a call                                                     *)

LEMMA StartCallKeeps ==
  ASSUME TunnelInv, NEW c \in TunnelCallers, NEW op \in {"enable", "shutdown"},
         NEW mode \in TunnelModes, StartCall(c, op, mode)
  PROVE  TunnelInv'
<1> DEFINE r == [step |-> "stop", op |-> op, mode |-> mode, kill |-> {}]
<1>1. r \in CallRecord
  BY DEF CallRecord, CallSteps, CallOps
<1>2. /\ tcall' \in [TunnelCallers -> CallRecord]
      /\ tcall'[c] = r
      /\ \A d \in TunnelCallers \ {c} : tcall'[d] = tcall[d]
  BY <1>1, OneCall DEF StartCall, TunnelInv
<1>3. TunnelTypes'
  BY <1>2 DEF TunnelInv, TunnelTypes, StartCall
<1>4. CallShape'
  BY <1>2 DEF TunnelInv, CallShape, CallIn
<1>5. DownIsEmpty'
  BY DEF StartCall, DownIsEmpty
<1>6. ShutdownAlone'
  BY <1>2 DEF TunnelInv, TunnelTypes, ShutdownAlone, StartCall, CallIn, InCall
<1>7. CallAlone'
  BY <1>2 DEF TunnelInv, TunnelTypes, CallAlone, StartCall, CallIn, InCall
<1>8. NoOrphan'
  <2>1. tcall[c].kill = {}
    BY DEF TunnelInv, CallShape, StartCall, CallIn
  <2> QED BY <1>2, <2>1 DEF TunnelInv, NoOrphan, StartCall, Alive, TunnelTypes
<1>9. RunsWhatIsSaved'
  BY <1>2 DEF RunsWhatIsSaved, InCall, CallIn
<1> QED BY <1>3, <1>4, <1>5, <1>6, <1>7, <1>8, <1>9 DEF TunnelInv

LEMMA stopAllKeeps ==
  ASSUME TunnelInv, NEW c \in TunnelCallers, stopAll(c)
  PROVE  TunnelInv'
<1> DEFINE r == [tcall[c] EXCEPT !.step = "kill", !.kill = {quickCmd, namedCmd} \ {NoCmd}]
<1>1. /\ r \in CallRecord
      /\ r.step = "kill" /\ r.op = tcall[c].op /\ r.mode = tcall[c].mode
      /\ r.kill = {quickCmd, namedCmd} \ {NoCmd}
  BY DEF TunnelInv, TunnelTypes, CallRecord, CallSteps
<1>2. tcall' = [tcall EXCEPT ![c] = r]
  BY DEF stopAll, TunnelInv, TunnelTypes
<1> HIDE DEF r
<1>3. /\ tcall' \in [TunnelCallers -> CallRecord]
      /\ tcall'[c] = r
      /\ \A d \in TunnelCallers \ {c} : tcall'[d] = tcall[d]
  BY <1>1, <1>2, OneCall DEF TunnelInv
<1>4. TunnelTypes'
  BY <1>3 DEF TunnelInv, TunnelTypes, stopAll, NoCmd
<1>5. CallShape'
  BY <1>1, <1>3 DEF TunnelInv, CallShape, CallIn, stopAll
<1>6. DownIsEmpty'
  BY DEF TunnelInv, stopAll, DownIsEmpty, CallIn
<1>7. ShutdownAlone'
  BY <1>1, <1>3 DEF TunnelInv, ShutdownAlone, stopAll, CallIn
<1>8. CallAlone'
  BY <1>1, <1>3 DEF TunnelInv, CallAlone, stopAll, CallIn
<1>9. NoOrphan'
  <2>1. tcall[c].kill = {}
    BY DEF TunnelInv, CallShape, stopAll, CallIn
  <2>2. NoCmd \notin Alive
    BY DEF Alive, NoCmd
  <2>3. Alive' = Alive /\ cutOff' = cutOff /\ left' = left
    BY DEF stopAll, Alive
  <2>4. (UNION {tcall[d].kill : d \in TunnelCallers}) \cup ({quickCmd, namedCmd} \ {NoCmd})
          \subseteq UNION {tcall'[d].kill : d \in TunnelCallers}
    BY <1>1, <1>3, <2>1
  <2> QED BY <2>2, <2>3, <2>4 DEF TunnelInv, NoOrphan
<1>10. RunsWhatIsSaved'
  BY <1>1, <1>3 DEF RunsWhatIsSaved, InCall, CallIn
<1> QED BY <1>4, <1>5, <1>6, <1>7, <1>8, <1>9, <1>10 DEF TunnelInv

LEMMA killGracefullyKeeps ==
  ASSUME TunnelInv, NEW c \in TunnelCallers, killGracefully(c)
  PROVE  TunnelInv'
<1> DEFINE r == [tcall[c] EXCEPT !.step = AfterStop(c), !.kill = {}]
<1>0. /\ AfterStop(c) \in {"exit", "quick", "named", "save"}
      /\ AfterStop(c) = "exit" <=> tcall[c].op = "shutdown"
      /\ AfterStop(c) = "quick" => HasQuick(tcall[c].mode)
      /\ AfterStop(c) = "named" => HasNamed(tcall[c].mode)
  BY DEF AfterStop
<1>1. /\ r \in CallRecord
      /\ r.step = AfterStop(c) /\ r.op = tcall[c].op /\ r.mode = tcall[c].mode
      /\ r.kill = {}
  BY <1>0 DEF TunnelInv, TunnelTypes, CallRecord, CallSteps
<1>2. tcall' = [tcall EXCEPT ![c] = r]
  BY DEF killGracefully, TunnelInv, TunnelTypes
<1> HIDE DEF r
<1>3. /\ tcall' \in [TunnelCallers -> CallRecord]
      /\ tcall'[c] = r
      /\ \A d \in TunnelCallers \ {c} : tcall'[d] = tcall[d]
  BY <1>1, <1>2, OneCall DEF TunnelInv
<1>4. /\ children' \in Seq(BOOLEAN) /\ Len(children') = Len(children)
      /\ Alive' = Alive \ tcall[c].kill
  <2> DEFINE n == Len(children)
  <2>1. n \in Nat /\ children \in Seq(BOOLEAN)
    BY DEF TunnelInv, TunnelTypes
  <2>2. children' = [p \in 1 .. n |-> children[p] /\ p \notin tcall[c].kill]
    BY DEF killGracefully
  <2>3. \A p \in 1 .. n : (children[p] /\ p \notin tcall[c].kill) \in BOOLEAN
    OBVIOUS
  <2> HIDE DEF n
  <2>4. children' \in Seq(BOOLEAN) /\ Len(children') = n
    <3>1. children' \in [1 .. n -> BOOLEAN]
      BY <2>2, <2>3
    <3> QED BY <2>1, <3>1, ListOfFlags
  <2> QED BY <2>1, <2>2, <2>4 DEF Alive, n
<1>5. TunnelTypes'
  BY <1>3, <1>4 DEF TunnelInv, TunnelTypes, killGracefully
<1>6. CallShape'
  BY <1>0, <1>1, <1>3 DEF TunnelInv, CallShape, CallIn, killGracefully
<1>7. DownIsEmpty'
  BY DEF TunnelInv, killGracefully, DownIsEmpty, CallIn
<1>8. ShutdownAlone'
  BY <1>1, <1>3 DEF TunnelInv, ShutdownAlone, killGracefully, CallIn
<1>9. CallAlone'
  BY <1>0, <1>1, <1>3 DEF TunnelInv, CallAlone, killGracefully, CallIn
<1>10. NoOrphan'
  BY <1>1, <1>3, <1>4 DEF TunnelInv, NoOrphan, killGracefully
<1>11. RunsWhatIsSaved'
  BY <1>0, <1>1, <1>3 DEF RunsWhatIsSaved, InCall, CallIn
<1> QED BY <1>5, <1>6, <1>7, <1>8, <1>9, <1>10, <1>11 DEF TunnelInv

LEMMA startQuickKeeps ==
  ASSUME TunnelInv, NEW c \in TunnelCallers, startQuick(c)
  PROVE  TunnelInv'
<1> DEFINE r == [tcall[c] EXCEPT !.step = AfterQuick(c)]
<1>0. /\ AfterQuick(c) \in {"named", "save"}
      /\ AfterQuick(c) = "named" => HasNamed(tcall[c].mode)
  BY DEF AfterQuick
<1>1. /\ r \in CallRecord
      /\ r.step = AfterQuick(c) /\ r.op = tcall[c].op /\ r.mode = tcall[c].mode
      /\ r.kill = tcall[c].kill
  BY <1>0 DEF TunnelInv, TunnelTypes, CallRecord, CallSteps
<1>2. tcall' = [tcall EXCEPT ![c] = r]
  BY DEF startQuick, CallGoes, TunnelInv, TunnelTypes
<1> HIDE DEF r
<1>3. /\ tcall' \in [TunnelCallers -> CallRecord]
      /\ tcall'[c] = r
      /\ \A d \in TunnelCallers \ {c} : tcall'[d] = tcall[d]
  BY <1>1, <1>2, OneCall DEF TunnelInv
<1>4. /\ children' \in Seq(BOOLEAN) /\ capture' \in Seq(CaptureRecord)
      /\ Len(capture') = Len(children')
      /\ Alive' = Alive \cup {Len(children) + 1}
      /\ Len(children) \in Nat
  BY Spawned DEF startQuick, TunnelInv, TunnelTypes
<1>5. TunnelTypes'
  BY <1>3, <1>4 DEF TunnelInv, TunnelTypes, startQuick
<1>6. CallShape'
  BY <1>0, <1>1, <1>3 DEF TunnelInv, CallShape, CallIn, startQuick
<1>7. DownIsEmpty'
  BY DEF TunnelInv, startQuick, DownIsEmpty, CallIn
<1>8. ShutdownAlone'
  BY <1>0, <1>1, <1>3 DEF TunnelInv, ShutdownAlone, CallShape, startQuick, CallIn
<1>9. CallAlone'
  <2>1. tcall[c].op # "half"
    BY DEF TunnelInv, CallShape, CallIn, startQuick
  <2> QED BY <1>0, <1>1, <1>3, <2>1 DEF TunnelInv, CallAlone, startQuick, CallIn, HasQuick, HasNamed
<1>10. NoOrphan'
  <2>1. NoCmd \notin Alive
    BY DEF Alive, NoCmd
  <2>2. \A d \in TunnelCallers : tcall'[d].kill = tcall[d].kill
    BY <1>1, <1>3
  <2> QED BY <1>4, <2>1, <2>2 DEF TunnelInv, NoOrphan, startQuick
<1>11. RunsWhatIsSaved'
  BY <1>0, <1>1, <1>3 DEF RunsWhatIsSaved, InCall, CallIn
<1> QED BY <1>5, <1>6, <1>7, <1>8, <1>9, <1>10, <1>11 DEF TunnelInv

LEMMA startQuickFailsKeeps ==
  ASSUME TunnelInv, NEW c \in TunnelCallers, startQuickFails(c)
  PROVE  TunnelInv'
<1>0. CallIn(c, "quick") /\ tcall[c].kill = {} /\ tcall[c].op # "shutdown"
  BY DEF TunnelInv, CallShape, CallIn, startQuickFails
<1>1. PICK r \in CallRecord :
        /\ tcall' = [tcall EXCEPT ![c] = r]
        /\ r.kill = {}
        /\ \/ r = NoTunnelCall
           \/ r.step = "named" /\ r.op = "half" /\ r.mode = tcall[c].mode
                /\ tcall[c].mode = "hybrid"
  <2>2. LET r == [tcall[c] EXCEPT !.step = "named", !.op = "half"]
        IN  /\ r \in CallRecord /\ r.kill = {} /\ r.step = "named" /\ r.op = "half"
            /\ r.mode = tcall[c].mode
            /\ [tcall EXCEPT ![c].step = "named", ![c].op = "half"] = [tcall EXCEPT ![c] = r]
    BY <1>0 DEF TunnelInv, TunnelTypes, CallRecord, CallSteps, CallOps
  <2> QED BY <2>2, IdleCall DEF startQuickFails, CallEnds
<1>2. /\ tcall' \in [TunnelCallers -> CallRecord]
      /\ tcall'[c] = r
      /\ \A d \in TunnelCallers \ {c} : tcall'[d] = tcall[d]
  BY <1>1, OneCall DEF TunnelInv
<1>3. TunnelTypes'
  BY <1>2 DEF TunnelInv, TunnelTypes, startQuickFails
<1>4. CallShape'
  BY <1>1, <1>2, IdleCall DEF TunnelInv, CallShape, CallIn
<1>5. DownIsEmpty'
  BY <1>0 DEF TunnelInv, startQuickFails, DownIsEmpty, CallIn
<1>6. ShutdownAlone'
  BY <1>0, <1>1, <1>2, IdleCall DEF TunnelInv, ShutdownAlone, startQuickFails, CallIn
<1>7. CallAlone'
  BY <1>0, <1>1, <1>2, IdleCall DEF TunnelInv, CallAlone, startQuickFails, CallIn, HasNamed
<1>8. NoOrphan'
  <2>1. \A d \in TunnelCallers : tcall'[d].kill = tcall[d].kill
    BY <1>0, <1>1, <1>2
  <2> QED BY <2>1 DEF TunnelInv, NoOrphan, startQuickFails, Alive
<1>9. RunsWhatIsSaved'
  <2>1. crossed \/ (quickCmd = NoCmd /\ namedCmd = NoCmd)
    BY <1>0 DEF TunnelInv, CallAlone, CallIn
  <2> QED BY <2>1 DEF RunsWhatIsSaved, startQuickFails
<1> QED BY <1>3, <1>4, <1>5, <1>6, <1>7, <1>8, <1>9 DEF TunnelInv

LEMMA startNamedKeeps ==
  ASSUME TunnelInv, NEW c \in TunnelCallers, startNamed(c)
  PROVE  TunnelInv'
<1> DEFINE r == [tcall[c] EXCEPT !.step = "save"]
<1>0. CallIn(c, "named") /\ namedCmd = NoCmd
  BY DEF startNamed, NamedFree
<1>1. /\ r \in CallRecord
      /\ r.step = "save" /\ r.op = tcall[c].op /\ r.mode = tcall[c].mode
      /\ r.kill = tcall[c].kill
  BY DEF TunnelInv, TunnelTypes, CallRecord, CallSteps
<1>2. tcall' = [tcall EXCEPT ![c] = r]
  BY DEF startNamed, CallGoes, TunnelInv, TunnelTypes
<1> HIDE DEF r
<1>3. /\ tcall' \in [TunnelCallers -> CallRecord]
      /\ tcall'[c] = r
      /\ \A d \in TunnelCallers \ {c} : tcall'[d] = tcall[d]
  BY <1>1, <1>2, OneCall DEF TunnelInv
<1>4. /\ children' \in Seq(BOOLEAN) /\ capture' \in Seq(CaptureRecord)
      /\ Len(capture') = Len(children')
      /\ Alive' = Alive \cup {Len(children) + 1}
      /\ Len(children) \in Nat
  BY Spawned DEF startNamed, TunnelInv, TunnelTypes
<1>5. TunnelTypes'
  BY <1>3, <1>4 DEF TunnelInv, TunnelTypes, startNamed
<1>6. CallShape'
  BY <1>0, <1>1, <1>3 DEF TunnelInv, CallShape, CallIn
<1>7. DownIsEmpty'
  BY <1>0 DEF TunnelInv, startNamed, DownIsEmpty, CallIn
<1>8. ShutdownAlone'
  BY <1>0, <1>1, <1>3 DEF TunnelInv, ShutdownAlone, CallShape, startNamed, CallIn
<1>9. CallAlone'
  BY <1>0, <1>1, <1>3 DEF TunnelInv, CallAlone, startNamed, CallIn, HasQuick, HasNamed
<1>10. NoOrphan'
  <2>1. NoCmd \notin Alive
    BY DEF Alive, NoCmd
  <2>2. \A d \in TunnelCallers : tcall'[d].kill = tcall[d].kill
    BY <1>1, <1>3
  <2> QED BY <1>0, <1>4, <2>1, <2>2 DEF TunnelInv, NoOrphan, startNamed
<1>11. RunsWhatIsSaved'
  BY <1>1, <1>3 DEF RunsWhatIsSaved, InCall, CallIn
<1> QED BY <1>5, <1>6, <1>7, <1>8, <1>9, <1>10, <1>11 DEF TunnelInv

LEMMA startNamedFailsKeeps ==
  ASSUME TunnelInv, NEW c \in TunnelCallers, startNamedFails(c)
  PROVE  TunnelInv'
<1>0. CallIn(c, "named") /\ tcall[c].kill = {} /\ tcall[c].op # "shutdown"
  BY DEF TunnelInv, CallShape, CallIn, startNamedFails
<1>1. PICK r \in CallRecord :
        /\ tcall' = [tcall EXCEPT ![c] = r]
        /\ r.kill = {}
        /\ \/ r = NoTunnelCall /\ (tcall[c].mode # "hybrid" \/ tcall[c].op = "half")
           \/ r.step = "save" /\ r.op = tcall[c].op /\ r.mode = tcall[c].mode
                /\ tcall[c].mode = "hybrid"
  <2>2. LET r == [tcall[c] EXCEPT !.step = "save"]
        IN  /\ r \in CallRecord /\ r.kill = {} /\ r.step = "save" /\ r.op = tcall[c].op
            /\ r.mode = tcall[c].mode
            /\ [tcall EXCEPT ![c].step = "save"] = [tcall EXCEPT ![c] = r]
    BY <1>0 DEF TunnelInv, TunnelTypes, CallRecord, CallSteps, CallOps
  <2> QED BY <2>2, IdleCall DEF startNamedFails, CallEnds, CallGoes
<1>2. /\ tcall' \in [TunnelCallers -> CallRecord]
      /\ tcall'[c] = r
      /\ \A d \in TunnelCallers \ {c} : tcall'[d] = tcall[d]
  BY <1>1, OneCall DEF TunnelInv
<1>3. TunnelTypes'
  BY <1>2 DEF TunnelInv, TunnelTypes, startNamedFails
<1>4. CallShape'
  BY <1>0, <1>1, <1>2, IdleCall DEF TunnelInv, CallShape, CallIn
<1>5. DownIsEmpty'
  BY <1>0 DEF TunnelInv, startNamedFails, DownIsEmpty, CallIn
<1>6. ShutdownAlone'
  BY <1>0, <1>1, <1>2, IdleCall DEF TunnelInv, ShutdownAlone, startNamedFails, CallIn
<1>7. CallAlone'
  BY <1>0, <1>1, <1>2, IdleCall DEF TunnelInv, CallAlone, startNamedFails, CallIn, HasNamed, HasQuick
<1>8. NoOrphan'
  <2>1. \A d \in TunnelCallers : tcall'[d].kill = tcall[d].kill
    BY <1>0, <1>1, <1>2
  <2> QED BY <2>1 DEF TunnelInv, NoOrphan, startNamedFails, Alive
<1>9. RunsWhatIsSaved'
  <2>1. CASE r.step = "save"
    BY <1>2, <2>1 DEF RunsWhatIsSaved, InCall, CallIn
  <2>2. CASE tcall[c].mode # "hybrid" \/ tcall[c].op = "half"
    <3>1. crossed \/ (quickCmd = NoCmd /\ namedCmd = NoCmd)
      BY <1>0, <2>2 DEF TunnelInv, CallAlone, CallIn
    <3> QED BY <3>1 DEF RunsWhatIsSaved, startNamedFails
  <2> QED BY <1>1, <2>1, <2>2
<1> QED BY <1>3, <1>4, <1>5, <1>6, <1>7, <1>8, <1>9 DEF TunnelInv

(* SaveConfig and its failure end the call. *)
LEMMA SaveKeeps ==
  ASSUME TunnelInv, NEW c \in TunnelCallers, SaveConfig(c) \/ SaveConfigFails(c)
  PROVE  TunnelInv'
<1>0. CallIn(c, "save") /\ tcall[c].kill = {} /\ tcall[c].op # "shutdown"
  BY DEF TunnelInv, CallShape, CallIn, SaveConfig, SaveConfigFails
<1>1. /\ tcall' = [tcall EXCEPT ![c] = NoTunnelCall]
      /\ config' \in {config, tcall[c].mode}
      /\ (crossed' = crossed /\ config' = tcall[c].mode) \/ crossed'
      /\ crossed => crossed'
      /\ UNCHANGED <<quickCmd, namedCmd, children, capture, gateway, left, cutOff>>
      /\ crossed' \in BOOLEAN
  BY DEF TunnelInv, TunnelTypes, SaveConfig, SaveConfigFails, CallEnds
<1>2. /\ tcall' \in [TunnelCallers -> CallRecord]
      /\ tcall'[c] = NoTunnelCall
      /\ \A d \in TunnelCallers \ {c} : tcall'[d] = tcall[d]
  BY <1>1, IdleCall, OneCall DEF TunnelInv
<1>3. TunnelTypes'
  BY <1>1, <1>2 DEF TunnelInv, TunnelTypes, CallRecord
<1>4. CallShape'
  BY <1>2, IdleCall DEF TunnelInv, CallShape, CallIn
<1>5. DownIsEmpty'
  BY <1>0, <1>1 DEF TunnelInv, DownIsEmpty, CallIn
<1>6. ShutdownAlone'
  BY <1>0, <1>1, <1>2, IdleCall DEF TunnelInv, ShutdownAlone, CallIn
<1>7. CallAlone'
  BY <1>0, <1>1, <1>2, IdleCall DEF TunnelInv, CallAlone, CallIn
<1>8. NoOrphan'
  <2>1. \A d \in TunnelCallers : tcall'[d].kill = tcall[d].kill
    BY <1>0, <1>2, IdleCall
  <2> QED BY <1>1, <2>1 DEF TunnelInv, NoOrphan, Alive
<1>9. RunsWhatIsSaved'
  BY <1>0, <1>1 DEF TunnelInv, CallAlone, CallIn, RunsWhatIsSaved
<1> QED BY <1>3, <1>4, <1>5, <1>6, <1>7, <1>8, <1>9 DEF TunnelInv

(* Shutdown leaves a process only if it cut a call off. *)
LEMMA ExitKeeps ==
  ASSUME TunnelInv, NEW c \in TunnelCallers, Exit(c)
  PROVE  TunnelInv'
<1>1. \A d \in TunnelCallers : tcall'[d] = NoTunnelCall
  BY DEF Exit
<1>2. /\ tcall' \in [TunnelCallers -> CallRecord]
      /\ quickCmd' = NoCmd /\ namedCmd' = NoCmd /\ gateway' = "down"
      /\ UNCHANGED <<children, config, crossed, cutOff>> /\ left' = left \cup Alive
  BY IdleCall DEF Exit
<1>3. capture' \in Seq(CaptureRecord) /\ Len(capture') = Len(capture)
  <2> DEFINE n == Len(capture)
  <2>1. n \in Nat /\ NoCapture \in CaptureRecord
    BY DEF TunnelInv, TunnelTypes, NoCapture, CaptureRecord, TunnelModes
  <2>2. capture' = [p \in 1 .. n |-> NoCapture]
    BY DEF Exit
  <2> HIDE DEF n
  <2>3. capture' \in Seq(CaptureRecord) /\ Len(capture') = n
    BY <2>1, <2>2, IsASeq
  <2> QED BY <2>3 DEF n
<1>4. TunnelTypes'
  BY <1>2, <1>3 DEF TunnelInv, TunnelTypes, NoCmd
<1>5. CallShape'
  BY <1>1, IdleCall DEF CallShape, CallIn
<1>6. DownIsEmpty' /\ ShutdownAlone' /\ CallAlone'
  BY <1>1, <1>2, IdleCall DEF DownIsEmpty, ShutdownAlone, CallAlone, CallIn
<1>7. NoOrphan'
  <2>1. CASE cutOff
    BY <1>2, <2>1 DEF NoOrphan, Alive
  <2>2. CASE ~cutOff
    <3>1. tcall[c].op = "shutdown" /\ tcall[c].step = "exit"
      BY DEF TunnelInv, CallShape, Exit, CallIn
    <3>2. /\ \A d \in TunnelCallers : tcall[d].kill = {}
          /\ quickCmd = NoCmd /\ namedCmd = NoCmd
      BY <2>2, <3>1 DEF TunnelInv, ShutdownAlone, CallShape, CallIn
    <3>3. Alive = {}
      BY <2>2, <3>2 DEF TunnelInv, NoOrphan, Alive, NoCmd
    <3>4. Alive' = Alive
      BY <1>2 DEF Alive
    <3> QED BY <3>3, <3>4 DEF NoOrphan
  <2> QED BY <2>1, <2>2
<1>8. RunsWhatIsSaved'
  BY <1>2 DEF RunsWhatIsSaved
<1> QED BY <1>4, <1>5, <1>6, <1>7, <1>8 DEF TunnelInv

LEMMA AutoStartKeeps ==
  ASSUME TunnelInv, NEW c \in TunnelCallers, AutoStart(c)
  PROVE  TunnelInv'
<1> DEFINE r == IF config = "none" THEN NoTunnelCall ELSE
                 [step |-> "stop", op |-> "enable", mode |-> config, kill |-> {}]
<1>1. /\ r \in CallRecord /\ r.kill = {}
      /\ (r.step = "stop" /\ r.op = "enable") \/ r = NoTunnelCall
  BY IdleCall DEF TunnelInv, TunnelTypes, CallRecord, CallSteps, CallOps
<1>2. tcall' = [tcall EXCEPT ![c] = r]
  BY DEF AutoStart
<1> HIDE DEF r
<1>3. /\ tcall' \in [TunnelCallers -> CallRecord]
      /\ tcall'[c] = r
      /\ \A d \in TunnelCallers \ {c} : tcall'[d] = tcall[d]
  BY <1>1, <1>2, OneCall DEF TunnelInv
<1>4. /\ quickCmd = NoCmd /\ namedCmd = NoCmd
      /\ \A d \in TunnelCallers : tcall[d] = NoTunnelCall
      /\ gateway' = "up"
      /\ UNCHANGED <<quickCmd, namedCmd, children, config, capture, crossed, left, cutOff>>
  BY DEF TunnelInv, DownIsEmpty, CallShape, AutoStart
<1>5. TunnelTypes'
  BY <1>3, <1>4 DEF TunnelInv, TunnelTypes
<1>6. CallShape'
  BY <1>1, <1>3, <1>4, IdleCall DEF CallShape, CallIn
<1>7. DownIsEmpty' /\ ShutdownAlone' /\ CallAlone'
  BY <1>1, <1>3, <1>4, IdleCall DEF DownIsEmpty, ShutdownAlone, CallAlone, CallIn
<1>8. NoOrphan'
  <2>1. \A d \in TunnelCallers : tcall'[d].kill = tcall[d].kill
    BY <1>1, <1>3, <1>4, IdleCall
  <2> QED BY <1>4, <2>1 DEF TunnelInv, NoOrphan, Alive
<1>9. RunsWhatIsSaved'
  BY <1>4 DEF RunsWhatIsSaved
<1> QED BY <1>5, <1>6, <1>7, <1>8, <1>9 DEF TunnelInv

-----------------------------------------------------------------------------
(* The goroutine that waits for a URL, and a process that ends: no call    *)
(* and no command changes, and the saved mode only with crossed.           *)
LEMMA ProcessStepKeeps ==
  ASSUME TunnelInv, NEW p \in 1 .. Len(children),
         CaptureLoads(p) \/ CaptureSaves(p) \/ CaptureTimesOut(p) \/ ChildExits(p)
  PROVE  TunnelInv'
<1>0. /\ children \in Seq(BOOLEAN) /\ capture \in Seq(CaptureRecord)
      /\ p \in 1 .. Len(capture) /\ capture[p] \in CaptureRecord
      /\ Len(capture) = Len(children)
  BY DEF TunnelInv, TunnelTypes
<1>1. UNCHANGED <<quickCmd, namedCmd, tcall, gateway, left, cutOff>>
  BY DEF CaptureLoads, CaptureSaves, CaptureTimesOut, ChildExits
<1>2. capture' \in Seq(CaptureRecord) /\ Len(capture') = Len(capture)
  <2>1. /\ [step |-> "saves", mode |-> config] \in CaptureRecord
        /\ NoCapture \in CaptureRecord
    BY DEF TunnelInv, TunnelTypes, NoCapture, CaptureRecord, TunnelModes
  <2> QED BY <1>0, <2>1 DEF CaptureLoads, CaptureSaves, CaptureTimesOut, ChildExits
<1>3. /\ children' \in Seq(BOOLEAN) /\ Len(children') = Len(children)
      /\ Alive' \subseteq Alive
  <2>1. CASE ChildExits(p)
    <3>1. children' = [children EXCEPT ![p] = FALSE]
      BY <2>1 DEF ChildExits
    <3>2. /\ children' \in Seq(BOOLEAN) /\ Len(children') = Len(children)
          /\ \A q \in 1 .. Len(children) : children'[q] => children[q]
      <4>1. PICK e \in BOOLEAN : ~e /\ children' = [children EXCEPT ![p] = e]
        BY <3>1, Zenon
      <4>2. /\ children' \in Seq(BOOLEAN) /\ Len(children') = Len(children)
            /\ \A q \in 1 .. Len(children) : children'[q] = IF q = p THEN e ELSE children[q]
        BY <1>0, <4>1, ExceptSeq
      <4> QED BY <4>1, <4>2
    <3> QED BY <3>2 DEF Alive
  <2>2. CASE children' = children
    BY <1>0, <2>2 DEF Alive
  <2> QED BY <2>1, <2>2 DEF CaptureLoads, CaptureSaves, CaptureTimesOut
<1>4. /\ config' \in TunnelModes /\ crossed' \in BOOLEAN
      /\ crossed => crossed'
      /\ config' = config \/ crossed'
  BY <1>0 DEF TunnelInv, TunnelTypes, CaptureRecord, CaptureLoads, CaptureSaves,
              CaptureTimesOut, ChildExits
<1>5. TunnelTypes'
  BY <1>1, <1>2, <1>3, <1>4, <1>0 DEF TunnelInv, TunnelTypes
<1>6. CallShape' /\ DownIsEmpty' /\ ShutdownAlone'
  BY <1>1 DEF TunnelInv, CallShape, DownIsEmpty, ShutdownAlone, CallIn
<1>7. CallAlone'
  BY <1>1, <1>4 DEF TunnelInv, CallAlone, CallIn
<1>8. NoOrphan'
  BY <1>1, <1>3 DEF TunnelInv, NoOrphan
<1>9. RunsWhatIsSaved'
  BY <1>1, <1>4 DEF TunnelInv, RunsWhatIsSaved, InCall, CallIn
<1> QED BY <1>5, <1>6, <1>7, <1>8, <1>9 DEF TunnelInv

-----------------------------------------------------------------------------
LEMMA TunnelInvInit == TunnelInit => TunnelInv
<1> SUFFICES ASSUME TunnelInit PROVE TunnelInv
  OBVIOUS
<1>1. \A c \in TunnelCallers : tcall[c] = NoTunnelCall
  BY DEF TunnelInit
<1>2. TunnelTypes
  <2>1. tcall \in [TunnelCallers -> CallRecord]
    BY IdleCall DEF TunnelInit
  <2>2. /\ children \in Seq(BOOLEAN) /\ capture \in Seq(CaptureRecord)
        /\ Len(capture) = Len(children)
    BY DEF TunnelInit
  <2> QED BY <2>1, <2>2 DEF TunnelInit, TunnelTypes, NoCmd, TunnelModes
<1>3. CallShape /\ DownIsEmpty /\ ShutdownAlone /\ CallAlone
  BY <1>1, IdleCall DEF TunnelInit, CallShape, DownIsEmpty, ShutdownAlone, CallAlone, CallIn
<1>4. NoOrphan
  BY DEF TunnelInit, NoOrphan, Alive
<1>5. RunsWhatIsSaved
  BY DEF TunnelInit, RunsWhatIsSaved
<1> QED BY <1>2, <1>3, <1>4, <1>5 DEF TunnelInv

LEMMA TunnelInvStep == TunnelInv /\ [TunnelNext]_tunnelVars => TunnelInv'
<1> SUFFICES ASSUME TunnelInv, [TunnelNext]_tunnelVars PROVE TunnelInv'
  OBVIOUS
<1>1. ASSUME NEW c \in TunnelCallers, TunnelCall(c) PROVE TunnelInv'
  <2>1. ASSUME NEW mode \in TunnelModes, HandleTunnelEnable(c, mode) PROVE TunnelInv'
    BY <2>1, StartCallKeeps DEF HandleTunnelEnable
  <2>2. CASE Disable(c)
    BY <2>2, StartCallKeeps DEF Disable, TunnelModes
  <2>3. CASE Restart(c)
    BY <2>3, StartCallKeeps DEF Restart, TunnelInv, TunnelTypes
  <2>4. CASE Shutdown(c)
    BY <2>4, StartCallKeeps DEF Shutdown, TunnelModes
  <2>5. CASE stopAll(c) \/ killGracefully(c)
    BY <2>5, stopAllKeeps, killGracefullyKeeps
  <2>6. CASE startQuick(c) \/ startQuickFails(c)
    BY <2>6, startQuickKeeps, startQuickFailsKeeps
  <2>7. CASE startNamed(c) \/ startNamedFails(c)
    BY <2>7, startNamedKeeps, startNamedFailsKeeps
  <2>8. CASE SaveConfig(c) \/ SaveConfigFails(c)
    BY <2>8, SaveKeeps
  <2>9. CASE Exit(c) \/ AutoStart(c)
    BY <2>9, ExitKeeps, AutoStartKeeps
  <2> QED BY <1>1, <2>1, <2>2, <2>3, <2>4, <2>5, <2>6, <2>7, <2>8, <2>9 DEF TunnelCall
<1>2. CASE UNCHANGED tunnelVars
  BY <1>2 DEF tunnelVars, TunnelInv, TunnelTypes, CallShape, DownIsEmpty, ShutdownAlone,
              CallAlone, NoOrphan, RunsWhatIsSaved, CallIn, InCall, Alive
<1> QED BY <1>1, <1>2, ProcessStepKeeps DEF TunnelNext

LEMMA TunnelInvHolds == TunnelSpec => []TunnelInv
  BY TunnelInvInit, TunnelInvStep, PTL DEF TunnelSpec

(* The manager never loses a cloudflared process, however many calls of    *)
(* Enable, Disable, Restart and Shutdown overlap: each that runs is a      *)
(* command of the manager or about to be killed, unless Shutdown cut a     *)
(* call off (stopAll, startQuick, startNamed, Shutdown).                   *)
THEOREM NoOrphanHolds == TunnelSpec => []NoOrphan
<1>1. TunnelInv => NoOrphan
  BY DEF TunnelInv
<1> QED BY <1>1, TunnelInvHolds, PTL

(* Calls that do not overlap leave the commands running that the saved     *)
(* mode names, through the halves of a hybrid start that fail, a URL       *)
(* capture and restarts (Enable, SaveConfig, captureQuickURL, AutoStart).  *)
THEOREM RunsWhatIsSavedHolds == TunnelSpec => []RunsWhatIsSaved
<1>1. TunnelInv => RunsWhatIsSaved
  BY DEF TunnelInv
<1> QED BY <1>1, TunnelInvHolds, PTL
=============================================================================
