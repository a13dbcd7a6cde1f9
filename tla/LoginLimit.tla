----------------------------- MODULE LoginLimit -----------------------------
(***************************************************************************)
(* The limit on login attempts from one address: login_limiter.go.         *)
(* Attempts that pass are kept in two windows; a goroutine drops the entry *)
(* of an address that has none left.                                       *)
(***************************************************************************)
EXTENDS Naturals, Sequences, FiniteSets

CONSTANTS
  Minute, Hour,           \* the lengths of the windows
  PerMinute, PerHour,     \* attempts allowed in each: 5 and 20
  MaxLoginTime            \* bound: time

ASSUME LoginAssumption ==
  /\ Minute \in Nat \ {0} /\ Hour \in Nat /\ Minute <= Hour
  /\ PerMinute \in Nat \ {0} /\ PerHour \in Nat \ {0} /\ MaxLoginTime \in Nat

VARIABLES
  minuteWindow, hourWindow,   \* loginEntry
  loginNow,
  passed                      \* history: the attempts that passed

loginVars == <<minuteWindow, hourWindow, loginNow, passed>>

LoginInit ==
  /\ minuteWindow = <<>> /\ hourWindow = <<>>
  /\ loginNow = 0
  /\ passed = <<>>

\* The loop over the window: the slice out after its first i times.
trimBefore(times, window) ==
  LET out[i \in 0 .. Len(times)] ==
        IF i = 0 THEN <<>>
        ELSE IF times[i] + window > loginNow THEN Append(out[i - 1], times[i])
        ELSE out[i - 1]
  IN  out[Len(times)]

middleware ==
  LET minute == trimBefore(minuteWindow, Minute)
      hour == trimBefore(hourWindow, Hour)
  IN  /\ IF Len(minute) >= PerMinute \/ Len(hour) >= PerHour
         THEN minuteWindow' = minute /\ hourWindow' = hour /\ UNCHANGED passed
         ELSE /\ minuteWindow' = Append(minute, loginNow)
              /\ hourWindow' = Append(hour, loginNow)
              /\ passed' = Append(passed, loginNow)
      /\ UNCHANGED loginNow

\* Mutant of Idle: an entry is dropped with its short window.
Idle_Minute(minute, hour) == minute = <<>>

Idle(minute, hour) == hour = <<>>

loginCleanup ==
  LET minute == trimBefore(minuteWindow, Minute)
      hour == trimBefore(hourWindow, Hour)
  IN  /\ minuteWindow' = minute
      /\ hourWindow' = IF Idle(minute, hour) THEN <<>> ELSE hour
      /\ UNCHANGED <<loginNow, passed>>

LoginTick ==
  /\ loginNow < MaxLoginTime
  /\ loginNow' = loginNow + 1
  /\ UNCHANGED <<minuteWindow, hourWindow, passed>>

LoginNext == middleware \/ loginCleanup \/ LoginTick

LoginSpec == LoginInit /\ [][LoginNext]_loginVars

-----------------------------------------------------------------------------
(* Properties                                                              *)

LoginTypeOK == \A k \in 1 .. Len(hourWindow) : hourWindow[k] \in 0 .. loginNow

Within(t, window) ==
  Cardinality({k \in 1 .. Len(passed) : passed[k] <= t /\ passed[k] + window > t})

\* No minute has more than PerMinute attempts and no hour more than PerHour,
\* wherever it begins and whatever the cleanup dropped ("5 attempts per
\* minute, 20 per hour per client IP", loginLimiter).
LoginBound ==
  \A t \in 0 .. loginNow : Within(t, Minute) <= PerMinute /\ Within(t, Hour) <= PerHour
=============================================================================
