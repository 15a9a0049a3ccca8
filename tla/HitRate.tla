-------------------------------- MODULE HitRate --------------------------------
(***************************************************************************)
(* The watch over the providers' caches (Observe in                        *)
(* internal/engine/cache/cache.go): what is reported of a request goes     *)
(* into a window, and an alarm is raised when the rate over it collapses.  *)
(*                                                                         *)
(* An observation is [read, input] in tokens.                              *)
(***************************************************************************)
EXTENDS Naturals, Sequences, SequencesExt

CONSTANTS
  Observers,    \* callers of Observe
  Window,       \* config.ObservationWindow; the rate that is low is less than a half
  MaxObserved   \* bound: observations

VARIABLES
  rates,         \* the window: the last observations
  alarmActive,   \* m.alarmActive
  observe,       \* where each caller is, and what it read under the lock
  alarms,        \* history: the alarms raised and taken back, and by whom
  observed       \* bound: observations so far

rateVars == <<rates, alarmActive, alarms, observe, observed>>

\* rateLocked over the last observations: too few, unmeasured, low or healthy.
Rate(observations) ==
  LET tokens(f) == FoldLeft(LAMBDA n, o : n + o[f], 0, observations)
  IN IF Len(observations) < Window THEN "few"
     ELSE IF tokens("input") = 0 THEN "unmeasured"
     ELSE IF 2 * tokens("read") < tokens("input") THEN "low" ELSE "healthy"

LastOf(observations) ==
  SubSeq(observations, IF Len(observations) > Window THEN 2 ELSE 1, Len(observations))

Observe(o) ==
  /\ observe[o].at = "idle" /\ observed < MaxObserved
  /\ observed' = observed + 1
  /\ \E i \in {0, 2} : \E r \in {0, i} :
       rates' = LastOf(Append(rates, [read |-> r, input |-> i]))
  /\ observe' = [observe EXCEPT ![o] =
       [at |-> "decide", rate |-> Rate(rates'),
        recovered |-> alarmActive /\ Rate(rates') = "healthy"]]
  /\ UNCHANGED <<alarmActive, alarms>>

\* What follows from the rate, after the lock was given up: alarmActive is read without it.
DecideAlarm(o) ==
  /\ observe[o].at = "decide"
  /\ observe' = [observe EXCEPT ![o].at =
       IF observe[o].rate = "low" /\ ~alarmActive THEN "raise"
       ELSE IF observe[o].recovered THEN "recover" ELSE "idle"]
  /\ UNCHANGED <<rates, alarmActive, alarms, observed>>

\* mutant: that the alarm is outstanding is not noted.
RaiseOnly(o) ==
  /\ observe[o].at = "raise"
  /\ alarms' = Append(alarms, [is |-> "raised", by |-> o])
  /\ observe' = [observe EXCEPT ![o].at = "idle"]
  /\ UNCHANGED <<rates, alarmActive, observed>>

\* The alarm is recorded and noted under the lock; nobody looks again.
RaiseAlarm(o) ==
  /\ observe[o].at = "raise"
  /\ alarms' = Append(alarms, [is |-> "raised", by |-> o])
  /\ alarmActive' = TRUE
  /\ observe' = [observe EXCEPT ![o].at = "idle"]
  /\ UNCHANGED <<rates, observed>>

\* The alarm is armed again.
ArmAlarm(o) ==
  /\ observe[o].at = "recover"
  /\ alarms' = Append(alarms, [is |-> "recovered", by |-> o])
  /\ alarmActive' = FALSE
  /\ observe' = [observe EXCEPT ![o].at = "idle"]
  /\ UNCHANGED <<rates, observed>>

-----------------------------------------------------------------------------
RateInit ==
  /\ rates = <<>> /\ alarmActive = FALSE /\ alarms = <<>> /\ observed = 0
  /\ observe = [o \in Observers |-> [at |-> "idle", rate |-> "few", recovered |-> FALSE]]

RateNext ==
  \E o \in Observers : Observe(o) \/ DecideAlarm(o) \/ RaiseAlarm(o) \/ ArmAlarm(o)

RateSpec == RateInit /\ [][RateNext]_rateVars

-----------------------------------------------------------------------------
(* Properties *)

\* The state is what the declarations allow.
RateTypeOK == alarmActive \in BOOLEAN /\ Len(rates) <= Window

\* A caller reports a collapse of the hit rate once: between two alarms it raised, it or
\* another caller found the rate healthy and armed the alarm again.  Two callers may each
\* report the same collapse, for alarmActive is read outside of the lock.
AlarmOnce ==
  \A i, j \in DOMAIN alarms :
    i < j /\ alarms[i] = alarms[j] /\ alarms[i].is = "raised" =>
      \E k \in i .. j : alarms[k].is = "recovered"
=============================================================================
