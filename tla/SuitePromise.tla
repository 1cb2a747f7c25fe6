---------------------------- MODULE SuitePromise ----------------------------
(***************************************************************************)
(* What a CheckSuite promises to its user: a run for every tick that is    *)
(* due and for every value of the run-now annotation, made once, and       *)
(* recorded in the status after it was made.  Nothing is said of caches,   *)
(* conflicts, retries or restarts: module CheckSuite shows that the        *)
(* controller implements this for suites whose policy is Allow, whose      *)
(* schedule fires, and whose history limits keep the runs in question.     *)
(***************************************************************************)
EXTENDS Integers

CONSTANTS RunNames, Triggers, MaxTime, None

VARIABLES now, gone, trigger, asked, creations, lastScheduleTime, lastManualTrigger

vars == <<now, gone, trigger, asked, creations, lastScheduleTime, lastManualTrigger>>

Init ==
    /\ now = 0 /\ gone = FALSE
    /\ trigger = None /\ asked = {}
    /\ creations = [n \in RunNames |-> 0]
    /\ lastScheduleTime = None /\ lastManualTrigger = None

Tick ==
    /\ now < MaxTime /\ now' = now + 1
    /\ UNCHANGED <<gone, trigger, asked, creations, lastScheduleTime, lastManualTrigger>>

Ask(v) ==
    /\ ~gone
    /\ trigger' = v /\ asked' = asked \cup {v}
    /\ UNCHANGED <<now, gone, creations, lastScheduleTime, lastManualTrigger>>

Delete ==
    /\ ~gone /\ gone' = TRUE
    /\ UNCHANGED <<now, trigger, asked, creations, lastScheduleTime, lastManualTrigger>>

\* A run is made: for a tick that is due, or for a value that was asked for.
\* Once, unless it is for a suite that is gone, whose runs do not stay.
Make(n) ==
    /\ IF n \in Triggers THEN n \in asked ELSE n <= now
    /\ gone \/ creations[n] = 0
    /\ creations' = [creations EXCEPT ![n] = @ + 1]
    /\ UNCHANGED <<now, gone, trigger, asked, lastScheduleTime, lastManualTrigger>>

\* What was made is recorded: a later tick, the current trigger, or both.
Record(tick, value) ==
    /\ ~gone
    /\ tick # lastScheduleTime =>
         /\ creations[tick] > 0
         /\ lastScheduleTime # None => lastScheduleTime < tick
    /\ value # lastManualTrigger => value = trigger /\ creations[value] > 0
    /\ lastScheduleTime' = tick /\ lastManualTrigger' = value
    /\ UNCHANGED <<now, gone, trigger, asked, creations>>

\* The current trigger is served, in two steps.
Serve ==
    /\ ~gone /\ trigger # None /\ trigger # lastManualTrigger
    /\ \/ Make(trigger)
       \/ \E t \in (RunNames \ Triggers) \cup {lastScheduleTime} : Record(t, trigger)

PromiseNext ==
    \/ Tick
    \/ Delete
    \/ \E v \in Triggers : Ask(v)
    \/ \E n \in RunNames : Make(n)
    \/ \E t \in (RunNames \ Triggers) \cup {lastScheduleTime},
          v \in Triggers \cup {lastManualTrigger} : Record(t, v)

Spec == Init /\ [][PromiseNext]_vars /\ WF_vars(Serve)
=============================================================================
