---------------------------- MODULE ScheduleScan ----------------------------
(***************************************************************************)
(* The loop of mostRecentScheduleTime                                      *)
(* (internal/controller/checksuite_controller.go), one step per iteration. *)
(***************************************************************************)
EXTENDS Schedule

VARIABLES
    sched, earliest, now,   \* arguments
    t, count,        \* loop variables
    last,            \* lastMissed
    next, tooMany,   \* the other results
    done

arguments == <<sched, earliest, now>>
vars == <<arguments, t, count, last, next, tooMany, done>>

Init ==
    /\ sched \in Schedules /\ earliest \in Times /\ now \in Times
    /\ t = Next[sched][earliest]
    /\ count = 0
    /\ last = None
    /\ next = None /\ tooMany = FALSE
    /\ done = FALSE

\* BUG: a tick at the present instant is left for later.
tickDueBefore == t < now

tickDue == t <= now

\* BUG: the scan stops at the first tick.
atCapAtOnce == count >= 0

\* BUG: the cap is compared before the iteration is counted.
atCapLate == count > MaxMissedScans

\* Is this iteration one too many?
atCap == count + 1 > MaxMissedScans

\* One missed tick, and more may follow.
Scan ==
    /\ ~done /\ tickDue /\ ~atCap
    /\ last' = t
    /\ count' = count + 1
    /\ t' = Next[sched][t]
    /\ UNCHANGED <<arguments, next, tooMany, done>>

\* The cap: return this tick, and the next one after now.
ReturnAtCap ==
    /\ ~done /\ tickDue /\ atCap
    /\ last' = t
    /\ count' = count + 1
    /\ next' = Next[sched][now] /\ tooMany' = TRUE /\ done' = TRUE
    /\ UNCHANGED <<arguments, t>>

Return ==
    /\ ~done /\ ~tickDue
    /\ next' = t /\ done' = TRUE
    /\ UNCHANGED <<arguments, t, count, last, tooMany>>

ScanNext == Scan \/ ReturnAtCap \/ Return

Spec == Init /\ [][ScanNext]_vars

-----------------------------------------------------------------------------
\* Type invariant; the scan makes at most MaxMissedScans + 1 iterations.
TypeOK ==
    /\ sched \in Schedules /\ earliest \in Times /\ now \in Times
    /\ t \in Nat \cup {Zero}
    /\ count \in 0 .. MaxMissedScans + 1
    /\ last \in Times \cup {Zero, None}
    /\ next \in Nat \cup {Zero, None}
    /\ tooMany \in BOOLEAN /\ done \in BOOLEAN

\* An uncapped scan returns the most recent missed tick, or none if there is
\* none: no tick is passed over.
MostRecentUnlessCapped ==
    done /\ ~tooMany =>
        IF last = None THEN missedTicks(sched, earliest, now) = {}
        ELSE /\ last \in missedTicks(sched, earliest, now)
             /\ \A s \in missedTicks(sched, earliest, now) : s <= last

\* Whatever is returned as missed is a tick of (earliest, now], and the next
\* tick to wait for is later than both and passes over none of the series, unless
\* the scan was capped: nothing fires early, and nothing twice.  A schedule that
\* never fires gives the zero time for both, which no suite can take for a tick.
ReturnsDueTick ==
    done => IF fires(sched)
            THEN /\ next > now
                 /\ last # None => last \in missedTicks(sched, earliest, now)
                 /\ ~tooMany => /\ next > earliest
                                /\ \A k \in series[sched][earliest] : k > now => next <= k
            ELSE last = Zero /\ next = Zero /\ tooMany

\* The loop computes the operators that module CheckSuite uses.
ScanIsLastMissed ==
    done => /\ last = lastMissed(sched, earliest, now)
            /\ next = nextTick(sched, earliest, now)
=============================================================================
