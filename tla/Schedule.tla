------------------------------ MODULE Schedule ------------------------------
(***************************************************************************)
(* Schedules, as the suite controller uses them: functions that give the   *)
(* first tick after a time.  Parsing and evaluating an expression is the   *)
(* cron library's, in UTC.  The ticks of a five-field expression do not    *)
(* depend on when one asks; those of @every d do, being d after the time   *)
(* asked about.  For an expression that parses and never fires, such as 30 *)
(* February, the library gives the zero time.                              *)
(***************************************************************************)
EXTENDS Integers, FiniteSets

CONSTANTS
    MaxTime,         \* bound: times are 0 .. MaxTime
    Schedules,       \* the expressions that parse, of five fields or @every
    Next,            \* sched.Next: schedule -> time -> the first tick after it
    MaxMissedScans,  \* cap of the missed-tick scan (the code says 80)
    None

Times == 0 .. MaxTime

\* time.Time{}, long before every other time.
Zero == -1

fires(s) == \E t \in Times : Next[s][t] # Zero

ASSUME TimeAssumption == MaxTime \in Nat
\* A schedule that fires once fires after every time.
ASSUME NextAssumption ==
    /\ Next \in [Schedules -> [Times \cup {Zero} -> Nat \cup {Zero}]]
    /\ \A s \in Schedules :
         IF fires(s) THEN \A t \in Times : Next[s][t] > t ELSE Next[s][Zero] = Zero
ASSUME ScanAssumption == MaxMissedScans \in Nat \ {0}
ASSUME NoneAssumption == None \notin Int /\ None \notin Schedules

ticksOf(s) == {Next[s][t] : t \in Times} \ {Zero}

\* Does T hold the next tick after e, and with a tick the next one after it?
closed(s, e, T) == Next[s][e] \in T /\ \A t \in T \cap Times : Next[s][t] \in T

\* The ticks after a time e, each the next one after the one before it: the
\* least set of ticks that is closed.
series == [s \in Schedules |-> [e \in Times |->
    {t \in ticksOf(s) : \A T \in SUBSET ticksOf(s) : closed(s, e, T) => t \in T}]]

\* The ticks in (earliest, now].
missedTicks(s, earliest, now) == {t \in series[s][earliest] : t <= now}

\* Does the scan of these ticks reach its cap?  The zero time is never after
\* now, so that a schedule that never fires takes the scan to its cap as well.
capped(s, earliest, now) ==
    ~fires(s) \/ Cardinality(missedTicks(s, earliest, now)) > MaxMissedScans

\* The tick that mostRecentScheduleTime returns: the most recent one, or the
\* one at which the scan reached its cap.
lastMissed(s, earliest, now) ==
    LET missed == missedTicks(s, earliest, now)
        scanned == IF capped(s, earliest, now) THEN MaxMissedScans + 1
                   ELSE Cardinality(missed)
    IN  IF ~fires(s) THEN Zero
        ELSE IF missed = {} THEN None
        ELSE CHOOSE t \in missed :
                 Cardinality({u \in missed : u <= t}) = scanned

\* The next tick that it returns: the first of the series after now, or at the
\* cap what the schedule answers for now.
nextTick(s, earliest, now) ==
    LET later == {t \in series[s][earliest] : t > now}
    IN  IF capped(s, earliest, now) THEN Next[s][now]
        ELSE CHOOSE t \in later : \A u \in later : t <= u
=============================================================================
