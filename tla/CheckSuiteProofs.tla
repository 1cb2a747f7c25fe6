-------------------------- MODULE CheckSuiteProofs --------------------------
(***************************************************************************)
(* Theorems about module CheckSuite, for every set of schedules, policies  *)
(* and triggers, every limit and every bound, whatever the caches show and *)
(* whenever users, faults and restarts interfere.                          *)
(***************************************************************************)
EXTENDS CheckSuite, ScheduleProofs

\* What a reconcile has read and decided, by where it is.
RecOK ==
    /\ pc # "idle" => rec.suite \in SuiteType /\ rec.status \in SuiteType
    /\ pc = "manual" => rec.suite.trigger \in Triggers
    /\ pc = "create" => rec.tick \in RunNames \ Triggers

Typed == TypeOK /\ RecOK

-----------------------------------------------------------------------------
(* Names, ticks and runs.                                                  *)

\* Scheduled runs are named after times, and there are finitely many names.
LEMMA Names ==
    /\ RunNames \ Triggers \subseteq Times /\ Triggers \subseteq RunNames
    /\ Times \cap Triggers = {}
    /\ IsFiniteSet(RunNames) /\ Cardinality(RunNames) \in Nat
<1>1. \A s \in Schedules : ticksOf(s) \subseteq Nat
    BY NextAssumption DEF ticksOf
<1>2. {t \in Ticks : t <= MaxTime} \subseteq Times
    BY <1>1, TimeAssumption DEF Ticks, Times
<1>3. IsFiniteSet({t \in Ticks : t <= MaxTime})
    <2>1. IsFiniteSet(Times)
        BY FS_Interval, TimeAssumption DEF Times
    <2> QED
        BY <1>2, <2>1, FS_Subset
<1>4. IsFiniteSet(RunNames)
    BY <1>3, FS_Union, TriggersAssumption DEF RunNames
<1>5. Times \subseteq Int
    BY DEF Times
<1> QED
    BY <1>2, <1>4, <1>5, FS_CardinalityType, TriggersAssumption DEF RunNames

\* The runs of a class are finitely many.
LEMMA ClassFinite ==
    ASSUME NEW rs, NEW phases
    PROVE  /\ withPhase(rs, phases) \subseteq RunNames
           /\ IsFiniteSet(withPhase(rs, phases))
           /\ Cardinality(withPhase(rs, phases)) \in Nat
           /\ Cardinality(withPhase(rs, phases)) <= Cardinality(RunNames)
<1>1. withPhase(rs, phases) \subseteq RunNames
    BY DEF withPhase
<1> QED
    BY <1>1, Names, FS_Subset, FS_CardinalityType

\* A missed tick that a reconcile takes names a run; it is later than the last
\* one handled and not in the future.
LEMMA MissedName ==
    ASSUME NEW s \in Schedules, NEW e \in Times, NEW n \in Times,
           lastMissed(s, e, n) \notin {None, Zero}
    PROVE  /\ fires(s)
           /\ lastMissed(s, e, n) \in missedTicks(s, e, n)
           /\ lastMissed(s, e, n) \in RunNames \ Triggers
           /\ lastMissed(s, e, n) \in Times
           /\ e < lastMissed(s, e, n) /\ lastMissed(s, e, n) <= n
<1>1. fires(s) /\ lastMissed(s, e, n) \in missedTicks(s, e, n)
    BY LastMissedIsMissed
<1> DEFINE tick == lastMissed(s, e, n)
<1> HIDE DEF tick
<1>2. tick \in Times /\ tick \in ticksOf(s) /\ e < tick /\ tick <= n
    BY <1>1, MissedTick DEF tick
<1>3. tick \in RunNames
    BY <1>2, TimeAssumption DEF RunNames, Ticks, Times
<1> QED
    BY <1>1, <1>2, <1>3, Names DEF tick

-----------------------------------------------------------------------------
(* Type correctness.                                                       *)

LEMMA TypedInit == Init => Typed
<1> SUFFICES ASSUME Init PROVE Typed
    OBVIOUS
<1>1. suite \in SuiteType
    <2>1. PICK x \in Expressions, p \in Policies, suspended \in BOOLEAN :
              suite = NewSuite(x, p, suspended)
        BY DEF Init
    <2> QED
        BY <2>1 DEF NewSuite, SuiteType
<1>2. NoRuns \in [RunNames -> RunType]
    BY DEF NoRuns, NoRun, RunType
<1>3. NoRec \in RecType
    BY <1>2, TimeAssumption DEF NoRec, RecType, Times
<1>4. now \in Times /\ edits \in 0 .. MaxEdits /\ faults \in 0 .. MaxFaults
    BY TimeAssumption, BoundsAssumption DEF Init, Times
<1> QED
    BY <1>1, <1>2, <1>3, <1>4 DEF Init, Typed, TypeOK, RecOK

\* Runs and empty records have their types.
LEMMA RunTypes ==
    /\ NoRun \in RunType /\ NoRuns \in [RunNames -> RunType] /\ NoRec \in RecType
    /\ now \in Times => NewRun \in RunType
    /\ \A D : runs \in [RunNames -> RunType] /\ deleteRuns(D) => runs' \in [RunNames -> RunType]
<1>1. NoRun \in RunType /\ NoRuns \in [RunNames -> RunType]
    BY DEF NoRuns, NoRun, RunType
<1>2. NoRec \in RecType
    BY <1>1, TimeAssumption DEF NoRec, RecType, Times
<1>3. now \in Times => NewRun \in RunType
    BY DEF NewRun, RunType
<1>4. ASSUME NEW D, runs \in [RunNames -> RunType], deleteRuns(D)
      PROVE  runs' \in [RunNames -> RunType]
    BY <1>1, <1>4 DEF deleteRuns
<1> QED
    BY <1>1, <1>2, <1>3, <1>4

\* A reconcile's end is typed, with a fault or without one.
LEMMA EndTyped ==
    ASSUME Typed, NEW requeue \in BOOLEAN, EndReconcile(requeue)
    PROVE  pc' = "idle" /\ rec' \in RecType /\ queued' \in BOOLEAN
BY RunTypes DEF EndReconcile, Typed, TypeOK

LEMMA FaultTyped ==
    ASSUME Typed, Fault
    PROVE  pc' = "idle" /\ rec' \in RecType /\ queued' \in BOOLEAN /\ faults' \in 0 .. MaxFaults
<1>1. faults \in 0 .. MaxFaults /\ faults < MaxFaults /\ faults' = faults + 1 /\ EndReconcile(TRUE)
    BY DEF Fault, Typed, TypeOK
<1>2. faults' \in 0 .. MaxFaults
    BY <1>1, BoundsAssumption
<1> QED
    BY <1>1, <1>2, EndTyped

\* What a tick is taken from.
LEMMA MissedTickType ==
    ASSUME Typed, pc \in {"schedule", "update"}, parses(rec.suite)
    PROVE  /\ earliest \in Times /\ rec.now \in Times /\ rec.suite.schedule \in Schedules
           /\ missedTick \in Times \cup {Zero, None}
           /\ missedTick \notin {Zero, None} => missedTick \in RunNames \ Triggers
<1>1. /\ rec.suite.lastScheduleTime \in Times \cup {None}
      /\ rec.now \in Times /\ rec.suite.schedule \in Schedules
    BY DEF Typed, TypeOK, RecOK, RecType, SuiteType, parses
<1>2. earliest \in Times
    BY <1>1, TimeAssumption DEF earliest, Times
<1> QED
    BY <1>1, <1>2, MissedName DEF missedTick

LEMMA GcTyped ==
    ASSUME Typed, pc \in {"gcSucceeded", "gcFailed"}, GcSucceeded \/ GcFailed
    PROVE  Typed'
<1>1. PICK class, limit, next :
          /\ gcRuns(class, limit, next)
          /\ next \in {"gcFailed", "manual", "schedule"}
          /\ next = "manual" => triggerPending
    BY DEF GcSucceeded, GcFailed
<1>2. UNCHANGED <<suite, creations, asked, cache, current, timer, now, edits>>
    BY <1>1 DEF gcRuns
<1>3. runs' \in [RunNames -> RunType]
    BY <1>1, RunTypes DEF gcRuns, Typed, TypeOK
<1>4. CASE Fault
    BY <1>2, <1>3, <1>4, FaultTyped DEF Typed, TypeOK, RecOK
<1>5. CASE pc' = next /\ UNCHANGED <<rec, queued, faults>>
    <2>1. triggerPending => rec.suite.trigger \in Triggers
        BY DEF triggerPending, Typed, RecOK, SuiteType
    <2> QED
        BY <1>1, <1>2, <1>3, <1>5, <2>1 DEF Typed, TypeOK, RecOK
<1> QED
    BY <1>1, <1>4, <1>5 DEF gcRuns

LEMMA CreateTyped ==
    ASSUME Typed, NEW name \in RunNames, NEW next \in {"schedule", "update"},
           NEW status \in SuiteType, pc \in {"manual", "create"},
           createRun(name, next, status)
    PROVE  Typed'
<1>1. UNCHANGED <<suite, asked, cache, current, timer, now, edits>>
    BY DEF createRun
<1>2. runs' \in [RunNames -> RunType] /\ creations' \in [RunNames -> 0 .. 2]
    <2>1. CASE exists(name)
        BY <2>1 DEF createRun, Typed, TypeOK
    <2>2. CASE ~exists(name)
        <3>1. /\ runs' = [runs EXCEPT ![name] = NewRun] /\ NewRun \in RunType
              /\ creations' = [creations EXCEPT ![name] = IF @ = 2 THEN 2 ELSE @ + 1]
            BY <2>2, RunTypes DEF createRun, Typed, TypeOK
        <3> QED
            BY <3>1 DEF Typed, TypeOK
    <2> QED
        BY <2>1, <2>2
<1>3. CASE Fault
    BY <1>1, <1>2, <1>3, FaultTyped DEF Typed, TypeOK, RecOK
<1>4. CASE EndReconcile(TRUE) /\ UNCHANGED faults
    BY <1>1, <1>2, <1>4, EndTyped DEF Typed, TypeOK, RecOK
<1>5. CASE /\ pc' = next
           /\ rec' = [rec EXCEPT !.status = [status EXCEPT !.active = @ \cup {name}],
                                 !.refs = @ + 1]
           /\ UNCHANGED <<queued, faults>>
    <2>1. [status EXCEPT !.active = @ \cup {name}] \in SuiteType
        BY DEF SuiteType
    <2>2. rec \in RecType /\ rec.refs + 1 \in Nat /\ rec.suite \in SuiteType
        BY DEF Typed, TypeOK, RecOK, RecType
    <2>3. rec' \in RecType /\ rec'.suite = rec.suite /\ rec'.status \in SuiteType
        BY <1>5, <2>1, <2>2 DEF RecType
    <2> QED
        BY <1>1, <1>2, <1>5, <2>2, <2>3 DEF Typed, TypeOK, RecOK
<1> QED
    BY <1>3, <1>4, <1>5 DEF createRun

LEMMA ScheduleTyped ==
    ASSUME Typed, pc = "schedule", NotScheduled \/ InvalidSchedule \/ SkipTick \/ TakeTick
    PROVE  Typed'
<1>1. /\ rec \in RecType /\ rec.suite \in SuiteType /\ rec.status \in SuiteType
    BY DEF Typed, TypeOK, RecOK
<1>2. CASE NotScheduled
    BY <1>2 DEF NotScheduled, apiVars, Typed, TypeOK, RecOK
<1>3. CASE InvalidSchedule
    <2>1. rec' = [rec EXCEPT !.status = [@ EXCEPT !.scheduleValid = FALSE]]
        BY <1>3 DEF InvalidSchedule
    <2>2. [rec.status EXCEPT !.scheduleValid = FALSE] \in SuiteType
        BY <1>1 DEF SuiteType
    <2>3. rec' \in RecType /\ rec'.suite = rec.suite /\ rec'.status \in SuiteType
        BY <1>1, <2>1, <2>2 DEF RecType
    <2> QED
        BY <1>1, <1>3, <2>3 DEF InvalidSchedule, apiVars, Typed, TypeOK, RecOK
<1>4. CASE SkipTick
    <2>1. missedTick \in Times \cup {Zero, None}
        BY <1>4, MissedTickType DEF SkipTick
    <2> DEFINE time == IF missedTick = None THEN rec.status.lastScheduleTime
                       ELSE marshalled(missedTick)
               st == [rec.status EXCEPT !.scheduleValid = TRUE, !.lastScheduleTime = time]
    <2>2. rec' = [rec EXCEPT !.status = st]
        BY <1>1, <1>4 DEF SkipTick, RecType, SuiteType
    <2>3. time \in Times \cup {None}
        BY <1>1, <2>1 DEF SuiteType, marshalled
    <2> HIDE DEF time
    <2>4. st \in SuiteType
        BY <1>1, <2>3 DEF SuiteType
    <2> HIDE DEF st
    <2>5. rec' \in RecType /\ rec'.suite = rec.suite /\ rec'.status \in SuiteType
        BY <1>1, <2>2, <2>4 DEF RecType
    <2> QED
        BY <1>1, <1>4, <2>5 DEF SkipTick, apiVars, Typed, TypeOK, RecOK
<1>5. CASE TakeTick
    <2>1. /\ UNCHANGED <<suite, creations, asked, cache, current, timer, now, edits>>
          /\ runs' \in [RunNames -> RunType]
        BY <1>5, RunTypes DEF TakeTick, Typed, TypeOK
    <2>2. CASE Fault
        BY <2>1, <2>2, FaultTyped DEF Typed, TypeOK, RecOK
    <2>3. CASE ~Fault
        <3>1. missedTick \in RunNames \ Triggers
            BY <1>5, MissedTickType DEF TakeTick, stale
        <3>2. missedTick \in Times
            BY <3>1, Names
        <3> DEFINE st == [rec.status EXCEPT !.scheduleValid = TRUE]
        <3>3. st \in SuiteType
            BY <1>1 DEF SuiteType
        <3>4. rec' = [rec EXCEPT !.status = st, !.tick = missedTick]
            BY <1>1, <1>5, <2>3 DEF TakeTick, RecType, SuiteType
        <3> HIDE DEF st
        <3>5. /\ rec' \in RecType /\ rec'.suite = rec.suite /\ rec'.status \in SuiteType
              /\ rec'.tick = missedTick
            BY <1>1, <3>2, <3>3, <3>4 DEF RecType
        <3> QED
            BY <1>1, <1>5, <2>1, <2>3, <3>1, <3>5 DEF TakeTick, Typed, TypeOK, RecOK
    <2> QED
        BY <2>2, <2>3
<1> QED
    BY <1>2, <1>3, <1>4, <1>5

\* The timer is set within the bound.
LEMMA TimerTyped ==
    ASSUME Typed, NEW s \in Schedules, NEW e \in Times, NEW since \in Times
    PROVE  requeueAt(nextTick(s, e, since), since) \in Times \cup {None}
<1>1. nextTick(s, e, since) \in Int
    BY NextTickIs DEF Zero
<1>2. now \in Times /\ timer \in Times \cup {None}
    BY DEF Typed, TypeOK
<1> DEFINE next == nextTick(s, e, since)
<1> HIDE DEF next
<1>3. next \in Int
    BY <1>1 DEF next
<1>4. requeueAt(next, since) \in Times \cup {None}
    BY <1>2, <1>3, TimeAssumption DEF requeueAt, Times
<1> QED
    BY <1>4 DEF next

LEMMA UpdateTyped ==
    ASSUME Typed, UpdateStatus \/ UpdateRefused
    PROVE  Typed'
<1>1. CASE UpdateRefused
    BY <1>1, EndTyped DEF UpdateRefused, apiVars, Typed, TypeOK, RecOK
<1>2. CASE UpdateStatus
    <2>1. /\ UNCHANGED <<runs, creations, asked, cache, now, edits>>
          /\ suite' \in SuiteType /\ current' \in BOOLEAN
        BY <1>2 DEF UpdateStatus, writeStatus, Typed, TypeOK, RecOK
    <2>2. CASE Fault /\ UNCHANGED timer
        BY <2>1, <2>2, FaultTyped DEF Typed, TypeOK, RecOK
    <2>3. CASE /\ EndReconcile(FALSE) /\ UNCHANGED faults
               /\ timer' = IF scheduled(rec.suite) /\ parses(rec.suite)
                           THEN requeueAt(nextTick(rec.suite.schedule, earliest, rec.now), rec.now)
                           ELSE timer
        <3>1. rec.now \in Times /\ timer \in Times \cup {None}
            BY DEF Typed, TypeOK, RecType
        <3>2. timer' \in Times \cup {None}
            BY <1>2, <2>3, <3>1, TimerTyped, MissedTickType DEF UpdateStatus
        <3> QED
            BY <2>1, <2>3, <3>2, EndTyped DEF Typed, TypeOK, RecOK
    <2> QED
        BY <1>2, <2>2, <2>3 DEF UpdateStatus
<1> QED
    BY <1>1, <1>2

LEMMA StartTyped ==
    ASSUME Typed, ReconcileStart
    PROVE  Typed'
<1>1. /\ cache.suite \in SuiteType /\ cache.runs \in [RunNames -> RunType]
      /\ now \in Times /\ current \in BOOLEAN
    BY DEF Typed, TypeOK
<1>2. [cache.suite EXCEPT !.active = activeIn(cache.runs)] \in SuiteType
    BY <1>1, ClassFinite DEF activeIn, SuiteType
<1>3. Cardinality(activeIn(cache.runs)) \in Nat
    BY ClassFinite DEF activeIn
<1>4. rec' \in RecType /\ rec'.suite \in SuiteType /\ rec'.status \in SuiteType
    BY <1>1, <1>2, <1>3 DEF ReconcileStart, RecType
<1> QED
    BY <1>1, <1>4 DEF ReconcileStart, apiVars, Typed, TypeOK, RecOK

\* A user's edit of any field.
LEMMA WriteTyped ==
    ASSUME Typed, NEW field, NEW value, Write(field, value),
           [suite EXCEPT ![field] = value] \in SuiteType,
           asked' \subseteq Triggers
    PROVE  Typed'
<1>1. /\ UNCHANGED <<runs, creations, cache, pc, queued, timer, now, faults>>
      /\ suite' \in SuiteType /\ current' = FALSE /\ edits' = edits + 1 /\ edits < MaxEdits
    BY DEF Write
<1>2. edits' \in 0 .. MaxEdits
    <2>1. edits \in 0 .. MaxEdits
        BY DEF Typed, TypeOK
    <2> QED
        BY <1>1, <2>1, BoundsAssumption
<1>3. rec' \in RecType /\ rec'.suite = rec.suite /\ rec'.status = rec.status /\ rec'.tick = rec.tick
    BY DEF Write, Typed, TypeOK, RecType
<1> QED
    BY <1>1, <1>2, <1>3 DEF Typed, TypeOK, RecOK

\* Users, one edit at a time.
UserEdits ==
    \/ \E v \in Triggers : RunNow(v)
    \/ \E x \in Expressions : SetSchedule(x)
    \/ \E p \in Policies : SetPolicy(p)
    \/ Suspend
    \/ DeleteSuite

LEMMA UserTyped ==
    ASSUME Typed, UserEdits
    PROVE  Typed'
<1>1. suite \in SuiteType /\ asked \subseteq Triggers
    BY DEF Typed, TypeOK
<1>2. ASSUME NEW v \in Triggers, RunNow(v) PROVE Typed'
    <2>1. [suite EXCEPT !["trigger"] = v] \in SuiteType
        BY <1>1 DEF SuiteType
    <2> QED
        BY <1>1, <1>2, <2>1, WriteTyped DEF RunNow
<1>3. ASSUME NEW x \in Expressions, SetSchedule(x) PROVE Typed'
    <2>1. [suite EXCEPT !["schedule"] = x] \in SuiteType
        BY <1>1 DEF SuiteType
    <2> QED
        BY <1>1, <1>3, <2>1, WriteTyped DEF SetSchedule, Edit
<1>4. ASSUME NEW p \in Policies, SetPolicy(p) PROVE Typed'
    <2>1. [suite EXCEPT !["policy"] = p] \in SuiteType
        BY <1>1 DEF SuiteType
    <2> QED
        BY <1>1, <1>4, <2>1, WriteTyped DEF SetPolicy, Edit
<1>5. CASE Suspend
    <2>1. [suite EXCEPT !["suspend"] = ~suite.suspend] \in SuiteType
        BY <1>1 DEF SuiteType
    <2> QED
        BY <1>1, <1>5, <2>1, WriteTyped DEF Suspend, Edit
<1>6. CASE DeleteSuite
    <2>1. [suite EXCEPT !["exists"] = FALSE] \in SuiteType
        BY <1>1 DEF SuiteType
    <2> QED
        BY <1>1, <1>6, <2>1, WriteTyped DEF DeleteSuite, Edit
<1> QED
    BY <1>2, <1>3, <1>4, <1>5, <1>6 DEF UserEdits

\* The runs' own steps, and the garbage collector's.
RunSteps ==
    \/ \E n \in RunNames : CollectRun(n)
    \/ \E n \in RunNames : RunStarts(n)
    \/ \E n \in RunNames : RunEnds(n)

LEMMA RunsTyped ==
    ASSUME Typed, RunSteps
    PROVE  Typed'
<1>1. UNCHANGED <<suite, creations, asked, ctlVars, now, edits, faults>>
    BY DEF RunSteps, CollectRun, RunStarts, RunEnds
<1>2. runs' \in [RunNames -> RunType]
    <2>1. runs \in [RunNames -> RunType] /\ now \in Times
        BY DEF Typed, TypeOK
    <2>2. ASSUME NEW n \in RunNames, CollectRun(n) PROVE runs' \in [RunNames -> RunType]
        BY <2>1, <2>2, RunTypes DEF CollectRun
    <2>3. ASSUME NEW n \in RunNames, RunStarts(n) PROVE runs' \in [RunNames -> RunType]
        <3>1. [runs[n] EXCEPT !.phase = "Running", !.start = now] \in RunType
            BY <2>1 DEF RunType
        <3>2. runs' = [runs EXCEPT ![n] = [runs[n] EXCEPT !.phase = "Running", !.start = now]]
            BY <2>1, <2>3 DEF RunStarts, RunType
        <3> QED
            BY <2>1, <3>1, <3>2
    <2>4. ASSUME NEW n \in RunNames, RunEnds(n) PROVE runs' \in [RunNames -> RunType]
        <3>1. PICK phase \in Verdicts :
                  runs' = [runs EXCEPT ![n].phase = phase,
                                       ![n].start = IF @ = None THEN now ELSE @]
            BY <2>4 DEF RunEnds
        <3>2. [runs[n] EXCEPT !.phase = phase, !.start = IF @ = None THEN now ELSE @] \in RunType
            BY <2>1, VerdictsAssumption DEF RunType
        <3>3. runs' = [runs EXCEPT ![n] =
                          [runs[n] EXCEPT !.phase = phase, !.start = IF @ = None THEN now ELSE @]]
            BY <2>1, <3>1 DEF RunType
        <3> QED
            BY <2>1, <3>2, <3>3
    <2> QED
        BY <2>2, <2>3, <2>4 DEF RunSteps
<1> QED
    BY <1>1, <1>2 DEF ctlVars, Typed, TypeOK, RecOK

\* Watches, the timer, the clock, errors and restarts.
Surroundings ==
    \/ ReconcileGone
    \/ ApiError
    \/ Restart
    \/ SyncSuite
    \/ SyncRuns
    \/ FireTimer
    \/ Tick

LEMMA SurroundingsTyped ==
    ASSUME Typed, Surroundings
    PROVE  Typed'
<1>1. CASE ReconcileGone
    BY <1>1 DEF ReconcileGone, apiVars, Typed, TypeOK, RecOK
<1>2. CASE ApiError
    BY <1>2, FaultTyped DEF ApiError, apiVars, Typed, TypeOK, RecOK
<1>3. CASE Restart
    <2>1. faults' \in 0 .. MaxFaults
        <3>1. faults \in 0 .. MaxFaults /\ faults < MaxFaults /\ faults' = faults + 1
            BY <1>3 DEF Restart, Typed, TypeOK
        <3> QED
            BY <3>1, BoundsAssumption
    <2>2. /\ cache' \in [suite: SuiteType, runs: [RunNames -> RunType]]
          /\ current' \in BOOLEAN
        <3>1. /\ suite \in SuiteType /\ runs \in [RunNames -> RunType] /\ current \in BOOLEAN
              /\ cache \in [suite: SuiteType, runs: [RunNames -> RunType]]
            BY DEF Typed, TypeOK
        <3>2. \/ UNCHANGED <<cache, current>>
              \/ cache' = [suite |-> suite, runs |-> runs] /\ current' = TRUE
            BY <1>3 DEF Restart
        <3>3. CASE UNCHANGED <<cache, current>>
            BY <3>1, <3>3
        <3>4. CASE cache' = [suite |-> suite, runs |-> runs] /\ current' = TRUE
            BY <3>1, <3>4
        <3> QED
            BY <3>2, <3>3, <3>4
    <2> QED
        BY <1>3, <2>1, <2>2, RunTypes DEF Restart, apiVars, Typed, TypeOK, RecOK
<1>4. CASE SyncSuite
    BY <1>4 DEF SyncSuite, apiVars, Typed, TypeOK, RecOK
<1>5. CASE SyncRuns
    BY <1>5 DEF SyncRuns, apiVars, Typed, TypeOK, RecOK
<1>6. CASE FireTimer
    BY <1>6 DEF FireTimer, apiVars, Typed, TypeOK, RecOK
<1>7. CASE Tick
    <2>1. now' \in Times
        BY <1>7, TimeAssumption DEF Tick, Typed, TypeOK, Times
    <2> QED
        BY <1>7, <2>1 DEF Tick, apiVars, ctlVars, Typed, TypeOK, RecOK
<1> QED
    BY <1>1, <1>2, <1>3, <1>4, <1>5, <1>6, <1>7 DEF Surroundings

\* Every step is one of the classes above.
LEMMA StepCases ==
    ASSUME SuiteNext
    PROVE  \/ ReconcileStart
           \/ GcSucceeded \/ GcFailed
           \/ CreateManual \/ CreateScheduled
           \/ NotScheduled \/ InvalidSchedule \/ SkipTick \/ TakeTick
           \/ UpdateStatus \/ UpdateRefused
           \/ Surroundings \/ UserEdits \/ RunSteps
BY DEF SuiteNext, Reconcile, Surroundings, UserEdits, RunSteps

LEMMA TypedNext == Typed /\ [SuiteNext]_vars => Typed'
<1> SUFFICES ASSUME Typed, [SuiteNext]_vars PROVE Typed'
    OBVIOUS
<1>1. CASE GcSucceeded \/ GcFailed
    BY <1>1, GcTyped DEF GcSucceeded, GcFailed
<1>2. CASE CreateManual
    <2>1. rec.suite.trigger \in RunNames /\ rec.suite.trigger \in Triggers
        BY <1>2, Names DEF CreateManual, Typed, RecOK
    <2>2. [rec.status EXCEPT !.lastManualTrigger = rec.suite.trigger] \in SuiteType
        BY <1>2, <2>1 DEF CreateManual, Typed, RecOK, SuiteType
    <2> QED
        BY <1>2, <2>1, <2>2, CreateTyped DEF CreateManual
<1>3. CASE CreateScheduled
    <2>1. rec.tick \in RunNames /\ rec.tick \in Times
        BY <1>3, Names DEF CreateScheduled, Typed, RecOK
    <2>2. [rec.status EXCEPT !.lastScheduleTime = rec.tick] \in SuiteType
        BY <1>3, <2>1 DEF CreateScheduled, Typed, RecOK, SuiteType
    <2> QED
        BY <1>3, <2>1, <2>2, CreateTyped DEF CreateScheduled
<1>4. CASE NotScheduled \/ InvalidSchedule \/ SkipTick \/ TakeTick
    BY <1>4, ScheduleTyped DEF NotScheduled, InvalidSchedule, SkipTick, TakeTick
<1>5. CASE UNCHANGED vars
    BY <1>5 DEF vars, apiVars, ctlVars, Typed, TypeOK, RecOK
<1> QED
    BY <1>1, <1>2, <1>3, <1>4, <1>5, StepCases, StartTyped, UpdateTyped,
       SurroundingsTyped, UserTyped, RunsTyped

\* The suite, its runs, the caches and the reconciler's record have their
\* types.
THEOREM TypeCorrect == Spec => []TypeOK
<1>1. Typed => TypeOK
    BY DEF Typed
<1> QED
    BY <1>1, TypedInit, TypedNext, PTL DEF Spec

-----------------------------------------------------------------------------
(* The last handled tick.                                                  *)

\* Is time a later one than the last one handled?
Later(last, time) == time \in Times /\ (last # None => last \in Times /\ last < time)

\* What a reconcile of st may record as handled: a later tick, nothing new, or,
\* for a schedule that never fires, nothing at all.
Forward(st, time) ==
    \/ time = st.lastScheduleTime
    \/ Later(st.lastScheduleTime, time)
    \/ time = None /\ parses(st) /\ ~fires(st.schedule)

\* What users say of a suite.
SameSpec(a, b) ==
    /\ a.exists = b.exists /\ a.trigger = b.trigger /\ a.schedule = b.schedule
    /\ a.policy = b.policy /\ a.suspend = b.suspend

\* A reconcile that has read st and is at step at has decided status and tick.
Decided(st, status, at, tick) ==
    /\ st.exists /\ SameSpec(status, st)
    /\ at \notin {"create", "update"} => status.lastScheduleTime = st.lastScheduleTime
    /\ at = "create" =>
         /\ status.lastScheduleTime = st.lastScheduleTime
         /\ Later(st.lastScheduleTime, tick)
    /\ at = "update" => Forward(st, status.lastScheduleTime)

\* A reconcile whose copy of the suite is still the current one has it right.
Reads ==
    /\ current => cache.suite = suite
    /\ pc # "idle" => Decided(rec.suite, rec.status, pc, rec.tick)
    /\ pc # "idle" /\ rec.fresh => rec.suite = suite

\* What a step of the reconciler keeps of what it has read.
KeepsReading == rec'.suite = rec.suite /\ rec'.fresh = rec.fresh /\ rec'.now = rec.now
                /\ rec'.runs = rec.runs

\* What the steps of the reconciler decide.
LEMMA GcDecides ==
    ASSUME GcSucceeded \/ GcFailed
    PROVE  /\ UNCHANGED <<suite, creations, asked, cache, current, timer, now, edits>>
           /\ \/ pc' = "idle"
              \/ /\ pc' \in {"gcFailed", "manual", "schedule"} /\ rec' = rec
                 /\ pc' = "manual" => triggerPending
BY DEF GcSucceeded, GcFailed, gcRuns, Fault, EndReconcile

LEMMA CreateDecides ==
    ASSUME Typed, NEW name \in RunNames, NEW next \in {"schedule", "update"},
           NEW status \in SuiteType, pc \in {"manual", "create"},
           createRun(name, next, status)
    PROVE  /\ UNCHANGED <<suite, asked, cache, current, timer, now, edits>>
           /\ \/ pc' = "idle"
              \/ /\ pc' = next /\ KeepsReading /\ rec'.tick = rec.tick
                 /\ SameSpec(rec'.status, status)
                 /\ rec'.status.lastScheduleTime = status.lastScheduleTime
                 /\ rec'.status.lastManualTrigger = status.lastManualTrigger
                 /\ exists(name) \/ runs' = [runs EXCEPT ![name] = NewRun]
<1>1. UNCHANGED <<suite, asked, cache, current, timer, now, edits>>
    BY DEF createRun
<1>2. CASE pc' = "idle"
    BY <1>1, <1>2
<1>3. CASE /\ pc' = next
           /\ rec' = [rec EXCEPT !.status = [status EXCEPT !.active = @ \cup {name}],
                                 !.refs = @ + 1]
    <2> DEFINE st == [status EXCEPT !.active = @ \cup {name}]
    <2>1. /\ SameSpec(st, status)
          /\ st.lastScheduleTime = status.lastScheduleTime
          /\ st.lastManualTrigger = status.lastManualTrigger
        BY DEF SuiteType, SameSpec
    <2>2. rec' = [rec EXCEPT !.status = st, !.refs = @ + 1]
        BY <1>3
    <2> HIDE DEF st
    <2>3. rec'.status = st /\ KeepsReading /\ rec'.tick = rec.tick
        BY <2>2 DEF KeepsReading, Typed, TypeOK, RecType
    <2> QED
        BY <1>1, <1>3, <2>1, <2>3 DEF createRun
<1> QED
    BY <1>2, <1>3 DEF createRun, Fault, EndReconcile

LEMMA InvalidDecides ==
    ASSUME Typed, InvalidSchedule
    PROVE  /\ UNCHANGED <<apiVars, cache, current, now>>
           /\ pc' = "update" /\ KeepsReading /\ SameSpec(rec'.status, rec.status)
           /\ rec'.status.lastScheduleTime = rec.status.lastScheduleTime
           /\ rec'.status.lastManualTrigger = rec.status.lastManualTrigger
<1>1. rec \in RecType /\ rec.status \in SuiteType
    BY DEF InvalidSchedule, Typed, TypeOK, RecOK
<1> DEFINE st == [rec.status EXCEPT !.scheduleValid = FALSE]
<1>2. rec' = [rec EXCEPT !.status = st]
    BY <1>1 DEF InvalidSchedule, RecType, SuiteType
<1>3. /\ SameSpec(st, rec.status)
      /\ st.lastScheduleTime = rec.status.lastScheduleTime
      /\ st.lastManualTrigger = rec.status.lastManualTrigger
    BY <1>1 DEF SuiteType, SameSpec
<1> HIDE DEF st
<1>4. rec'.status = st /\ KeepsReading
    BY <1>1, <1>2 DEF RecType, KeepsReading
<1> QED
    BY <1>3, <1>4 DEF InvalidSchedule

LEMMA SkipDecides ==
    ASSUME Typed, SkipTick
    PROVE  /\ UNCHANGED <<apiVars, cache, current, now>>
           /\ pc' = "update" /\ KeepsReading /\ SameSpec(rec'.status, rec.status)
           /\ rec'.status.lastScheduleTime = IF missedTick = None THEN rec.status.lastScheduleTime
                                             ELSE marshalled(missedTick)
           /\ rec'.status.lastManualTrigger = rec.status.lastManualTrigger
<1>1. rec \in RecType /\ rec.status \in SuiteType
    BY DEF SkipTick, Typed, TypeOK, RecOK
<1> DEFINE time == IF missedTick = None THEN rec.status.lastScheduleTime
                   ELSE marshalled(missedTick)
           st == [rec.status EXCEPT !.scheduleValid = TRUE, !.lastScheduleTime = time]
<1>2. rec' = [rec EXCEPT !.status = st]
    BY <1>1 DEF SkipTick, RecType, SuiteType
<1> HIDE DEF time
<1>3. /\ SameSpec(st, rec.status) /\ st.lastScheduleTime = time
      /\ st.lastManualTrigger = rec.status.lastManualTrigger
    BY <1>1 DEF SuiteType, SameSpec
<1> HIDE DEF st
<1>4. rec'.status = st /\ KeepsReading
    BY <1>1, <1>2 DEF RecType, KeepsReading
<1>5. pc' = "update" /\ UNCHANGED <<apiVars, cache, current, now>>
    BY DEF SkipTick
<1> QED
    BY <1>3, <1>4, <1>5 DEF time

LEMMA TakeDecides ==
    ASSUME Typed, TakeTick
    PROVE  /\ UNCHANGED <<suite, creations, asked, cache, current, timer, now, edits>>
           /\ \/ pc' = "idle"
              \/ /\ pc' = "create" /\ KeepsReading /\ SameSpec(rec'.status, rec.status)
                 /\ rec'.tick = missedTick /\ deleteRuns(replaced)
                 /\ rec'.status.lastScheduleTime = rec.status.lastScheduleTime
                 /\ rec'.status.lastManualTrigger = rec.status.lastManualTrigger
<1>1. rec \in RecType /\ rec.status \in SuiteType
    BY DEF TakeTick, Typed, TypeOK, RecOK
<1>2. UNCHANGED <<suite, creations, asked, cache, current, timer, now, edits>>
    BY DEF TakeTick
<1>3. ASSUME pc' # "idle"
      PROVE  /\ pc' = "create" /\ deleteRuns(replaced)
             /\ rec' = [rec EXCEPT !.tick = missedTick, !.status.scheduleValid = TRUE]
    BY <1>3 DEF TakeTick, Fault, EndReconcile
<1>4. ASSUME pc' # "idle"
      PROVE  /\ KeepsReading /\ SameSpec(rec'.status, rec.status) /\ rec'.tick = missedTick
             /\ rec'.status.lastScheduleTime = rec.status.lastScheduleTime
             /\ rec'.status.lastManualTrigger = rec.status.lastManualTrigger
    <2> DEFINE st == [rec.status EXCEPT !.scheduleValid = TRUE]
    <2>1. rec' = [rec EXCEPT !.tick = missedTick, !.status = st]
        BY <1>1, <1>3, <1>4 DEF RecType, SuiteType
    <2>2. /\ SameSpec(st, rec.status)
          /\ st.lastScheduleTime = rec.status.lastScheduleTime
          /\ st.lastManualTrigger = rec.status.lastManualTrigger
        BY <1>1 DEF SuiteType, SameSpec
    <2> HIDE DEF st
    <2>3. rec'.status = st /\ KeepsReading /\ rec'.tick = missedTick
        BY <1>1, <2>1 DEF RecType, KeepsReading
    <2> QED
        BY <2>2, <2>3
<1> QED
    BY <1>2, <1>3, <1>4

LEMMA ReadsInit == Init => Reads
BY DEF Init, Reads

\* Where a step of the schedule leads.
LEMMA ScheduleReads ==
    ASSUME Typed, Reads, SkipTick \/ TakeTick
    PROVE  pc' # "idle" => Decided(rec.suite, rec'.status, pc', rec'.tick)
<1>1. /\ pc = "schedule" /\ parses(rec.suite)
      /\ rec.suite.exists /\ SameSpec(rec.status, rec.suite)
      /\ rec.status.lastScheduleTime = rec.suite.lastScheduleTime
    BY DEF SkipTick, TakeTick, Reads, Decided
<1>2. /\ earliest \in Times /\ rec.now \in Times /\ rec.suite.schedule \in Schedules
      /\ rec.status.lastScheduleTime \in Times \cup {None}
    BY <1>1, MissedTickType DEF Typed, TypeOK, RecOK, SuiteType
<1>3. ASSUME missedTick \notin {None, Zero}
      PROVE  Later(rec.status.lastScheduleTime, missedTick)
    <2>1. missedTick \in Times /\ earliest < missedTick
        BY <1>2, <1>3, MissedName DEF missedTick
    <2> QED
        BY <1>1, <1>2, <2>1 DEF Later, earliest
<1>4. missedTick = Zero => ~fires(rec.suite.schedule)
    <2>1. CASE fires(rec.suite.schedule)
        <3>1. missedTick \in missedTicks(rec.suite.schedule, earliest, rec.now) \cup {None}
            BY <1>2, <2>1, LastMissedIsMissed DEF missedTick
        <3>2. missedTicks(rec.suite.schedule, earliest, rec.now) \subseteq Times
            BY <1>2, MissedFinite
        <3>3. Zero \notin Times \cup {None}
            BY NoneAssumption DEF Zero, Times
        <3> QED
            BY <3>1, <3>2, <3>3
    <2> QED
        BY <2>1
<1>5. CASE SkipTick
    <2>1. Forward(rec.suite, rec'.status.lastScheduleTime)
        <3>1. CASE missedTick = None
            BY <1>1, <1>5, <3>1, SkipDecides DEF Forward
        <3>2. CASE missedTick = Zero
            BY <1>1, <1>4, <1>5, <3>2, SkipDecides, NoneAssumption DEF Forward, marshalled, Zero
        <3>3. CASE missedTick \notin {None, Zero}
            BY <1>1, <1>3, <1>5, <3>3, SkipDecides DEF Forward, marshalled
        <3> QED
            BY <3>1, <3>2, <3>3
    <2> QED
        BY <1>1, <1>5, <2>1, SkipDecides DEF Decided, SameSpec
<1>6. CASE TakeTick
    <2>1. missedTick \notin {None, Zero}
        BY <1>6 DEF TakeTick, stale
    <2> QED
        BY <1>1, <1>3, <1>6, <2>1, TakeDecides DEF Decided, SameSpec
<1> QED
    BY <1>5, <1>6

\* A user's edit makes the copies old.
LEMMA UserReads ==
    ASSUME Typed, UserEdits
    PROVE  /\ current' = FALSE /\ UNCHANGED <<cache, pc, runs, creations, now>>
           /\ rec'.suite = rec.suite /\ rec'.status = rec.status /\ rec'.tick = rec.tick
           /\ rec'.runs = rec.runs /\ rec'.now = rec.now
           /\ pc # "idle" => ~rec'.fresh
           /\ suite'.lastScheduleTime = suite.lastScheduleTime
           /\ suite'.lastManualTrigger = suite.lastManualTrigger
<1>1. PICK field \in {"trigger", "schedule", "policy", "suspend", "exists"} :
          \E value : Write(field, value)
    BY DEF UserEdits, RunNow, SetSchedule, SetPolicy, Suspend, DeleteSuite, Edit
<1> PICK value : Write(field, value)
    BY <1>1
<1>2. /\ current' = FALSE /\ UNCHANGED <<cache, pc, runs, creations, now>>
      /\ suite' = [suite EXCEPT ![field] = value]
      /\ rec' = IF pc = "idle" THEN rec ELSE [rec EXCEPT !.fresh = FALSE]
    BY DEF Write
<1>3. suite \in SuiteType /\ rec \in RecType
    BY DEF Typed, TypeOK
<1>4. /\ rec'.suite = rec.suite /\ rec'.status = rec.status /\ rec'.tick = rec.tick
      /\ rec'.runs = rec.runs /\ rec'.now = rec.now
      /\ pc # "idle" => ~rec'.fresh
    BY <1>2, <1>3 DEF RecType
<1>5. /\ suite'.lastScheduleTime = suite.lastScheduleTime
      /\ suite'.lastManualTrigger = suite.lastManualTrigger
    BY <1>1, <1>2, <1>3 DEF SuiteType
<1> QED
    BY <1>2, <1>4, <1>5

\* What users write.
LEMMA UserWrites ==
    ASSUME Typed, UserEdits
    PROVE  /\ suite.exists
           /\ suite'.exists = suite.exists \/ (SuiteMayGo /\ suite'.trigger = suite.trigger)
           /\ \/ suite'.trigger = suite.trigger /\ UNCHANGED asked
              \/ /\ suite'.trigger \in Triggers /\ asked' = asked \cup {suite'.trigger}
                 /\ suite'.exists = suite.exists
<1>1. suite \in SuiteType
    BY DEF Typed, TypeOK
<1>2. ASSUME NEW v \in Triggers, RunNow(v)
      PROVE  /\ suite.exists /\ suite'.exists = suite.exists
             /\ suite'.trigger = v /\ asked' = asked \cup {v}
    BY <1>1, <1>2 DEF RunNow, Write, SuiteType
<1>3. ASSUME NEW field \in {"schedule", "policy", "suspend"}, NEW value, Edit(field, value)
      PROVE  /\ suite.exists /\ suite'.exists = suite.exists
             /\ suite'.trigger = suite.trigger /\ UNCHANGED asked
    BY <1>1, <1>3 DEF Edit, Write, SuiteType
<1>4. ASSUME Edit("exists", FALSE)
      PROVE  suite.exists /\ suite'.trigger = suite.trigger /\ UNCHANGED asked
    BY <1>1, <1>4 DEF Edit, Write, SuiteType
<1> QED
    BY <1>2, <1>3, <1>4 DEF UserEdits, SetSchedule, SetPolicy, Suspend, DeleteSuite

\* A status update lands on the version that was read.
LEMMA UpdateWrites ==
    ASSUME Reads, UpdateStatus
    PROVE  /\ suite' = rec.status /\ suite = rec.suite /\ pc = "update" /\ pc' = "idle"
           /\ current' = (current /\ suite' = suite)
           /\ UNCHANGED <<runs, creations, asked, cache, now>>
BY DEF UpdateStatus, writeStatus, Fault, EndReconcile, Reads

\* The steps that leave the suite and the reconcile alone.
LEMMA SurroundingsReads ==
    ASSUME Typed, Reads, Surroundings
    PROVE  /\ UNCHANGED <<suite, runs, creations, asked>>
           /\ current' => cache'.suite = suite
           /\ pc' = "idle" \/ UNCHANGED <<pc, rec>>
<1>1. cache \in [suite: SuiteType, runs: [RunNames -> RunType]] /\ (current => cache.suite = suite)
    BY DEF Typed, TypeOK, Reads
<1> QED
    BY <1>1 DEF Surroundings, ReconcileGone, ApiError, Restart, SyncSuite, SyncRuns, FireTimer,
       Tick, Fault, EndReconcile, apiVars, ctlVars

LEMMA ReadsNext == Typed /\ Reads /\ [SuiteNext]_vars => Reads'
<1> SUFFICES ASSUME Typed, Reads, [SuiteNext]_vars PROVE Reads'
    OBVIOUS
<1>1. CASE ReconcileStart
    <2>1. /\ rec'.suite = cache.suite /\ rec'.fresh = current
          /\ rec'.status = [cache.suite EXCEPT !.active = activeIn(cache.runs)]
          /\ pc' = "gcSucceeded" /\ UNCHANGED <<suite, cache, current>> /\ cache.suite.exists
        BY <1>1 DEF ReconcileStart, apiVars
    <2>2. /\ SameSpec(rec'.status, rec'.suite)
          /\ rec'.status.lastScheduleTime = rec'.suite.lastScheduleTime
        BY <2>1 DEF SameSpec, Typed, TypeOK, SuiteType
    <2> QED
        BY <2>1, <2>2 DEF Reads, Decided
<1>2. CASE GcSucceeded \/ GcFailed
    <2>1. pc \notin {"create", "update", "idle"}
        BY <1>2 DEF GcSucceeded, GcFailed
    <2> QED
        BY <1>2, <2>1, GcDecides DEF Reads, Decided
<1>3. CASE CreateManual
    <2>1. rec.suite.trigger \in RunNames /\ rec.suite.trigger \in Triggers
        BY <1>3, Names DEF CreateManual, Typed, RecOK
    <2> DEFINE st == [rec.status EXCEPT !.lastManualTrigger = rec.suite.trigger]
    <2>2. /\ st \in SuiteType /\ SameSpec(st, rec.status)
          /\ st.lastScheduleTime = rec.status.lastScheduleTime
        BY <1>3, <2>1 DEF CreateManual, Typed, RecOK, SuiteType, SameSpec
    <2>3. pc = "manual" /\ createRun(rec.suite.trigger, "schedule", st)
        BY <1>3 DEF CreateManual
    <2> HIDE DEF st
    <2>4. /\ UNCHANGED <<suite, cache, current>>
          /\ \/ pc' = "idle"
             \/ /\ pc' = "schedule" /\ KeepsReading /\ SameSpec(rec'.status, st)
                /\ rec'.status.lastScheduleTime = st.lastScheduleTime
        BY <2>1, <2>2, <2>3, CreateDecides
    <2> QED
        BY <2>2, <2>3, <2>4 DEF Reads, Decided, SameSpec, KeepsReading
<1>4. CASE CreateScheduled
    <2>1. rec.tick \in RunNames /\ rec.tick \in Times
        BY <1>4, Names DEF CreateScheduled, Typed, RecOK
    <2> DEFINE st == [rec.status EXCEPT !.lastScheduleTime = rec.tick]
    <2>2. /\ st \in SuiteType /\ SameSpec(st, rec.status) /\ st.lastScheduleTime = rec.tick
        BY <1>4, <2>1 DEF CreateScheduled, Typed, RecOK, SuiteType, SameSpec
    <2>3. pc = "create" /\ createRun(rec.tick, "update", st)
        BY <1>4 DEF CreateScheduled
    <2> HIDE DEF st
    <2>4. /\ UNCHANGED <<suite, cache, current>>
          /\ \/ pc' = "idle"
             \/ /\ pc' = "update" /\ KeepsReading /\ SameSpec(rec'.status, st)
                /\ rec'.status.lastScheduleTime = st.lastScheduleTime
        BY <2>1, <2>2, <2>3, CreateDecides
    <2> QED
        BY <2>2, <2>3, <2>4 DEF Reads, Decided, SameSpec, KeepsReading, Forward
<1>5. CASE NotScheduled
    BY <1>5 DEF NotScheduled, apiVars, Reads, Decided, Forward
<1>6. CASE InvalidSchedule
    <2>1. pc = "schedule"
        BY <1>6 DEF InvalidSchedule
    <2> QED
        BY <1>6, <2>1, InvalidDecides DEF apiVars, Reads, Decided, SameSpec, Forward, KeepsReading
<1>7. CASE SkipTick \/ TakeTick
    <2>1. pc = "schedule" /\ UNCHANGED <<suite, cache, current>>
          /\ (pc' # "idle" => KeepsReading)
        BY <1>7, SkipDecides, TakeDecides DEF SkipTick, TakeTick, apiVars
    <2> QED
        BY <1>7, <2>1, ScheduleReads DEF Reads, KeepsReading
<1>8. CASE UpdateStatus
    BY <1>8, UpdateWrites DEF Reads
<1>9. CASE UpdateRefused
    BY <1>9 DEF UpdateRefused, EndReconcile, apiVars, Reads
<1>10. CASE Surroundings
    BY <1>10, SurroundingsReads DEF Reads
<1>11. CASE UserEdits
    BY <1>11, UserReads DEF Reads
<1>12. CASE RunSteps
    <2>1. UNCHANGED <<suite, cache, current, pc, rec>>
        BY <1>12 DEF RunSteps, CollectRun, RunStarts, RunEnds, ctlVars
    <2> QED
        BY <2>1 DEF Reads
<1>13. CASE UNCHANGED vars
    BY <1>13 DEF vars, apiVars, ctlVars, Reads
<1> QED
    BY <1>1, <1>2, <1>3, <1>4, <1>5, <1>6, <1>7, <1>8, <1>9, <1>10, <1>11, <1>12, <1>13, StepCases

LEMMA ReadsInvariant == Spec => [](Typed /\ Reads)
BY TypedInit, TypedNext, ReadsInit, ReadsNext, PTL DEF Spec

\* The suite's record of what it handled changes only when a status update
\* lands.
LEMMA OnlyUpdatesRecord ==
    ASSUME Typed, Reads, [SuiteNext]_vars
    PROVE  \/ /\ UpdateStatus
              /\ suite' = rec.status /\ suite = rec.suite /\ Forward(suite, suite'.lastScheduleTime)
              /\ SameSpec(suite', suite) /\ suite.exists
           \/ /\ UserEdits
              /\ suite'.lastScheduleTime = suite.lastScheduleTime
              /\ suite'.lastManualTrigger = suite.lastManualTrigger
           \/ ~UserEdits /\ ~UpdateStatus /\ UNCHANGED suite
<1>1. CASE UpdateStatus
    BY <1>1, UpdateWrites DEF Reads, Decided
<1>2. CASE UserEdits
    BY <1>2, UserReads
<1>3. CASE ~UpdateStatus /\ ~UserEdits
    BY <1>3, StepCases, SurroundingsReads DEF ReconcileStart, GcSucceeded, GcFailed, gcRuns,
       CreateManual, CreateScheduled, createRun, NotScheduled, InvalidSchedule, SkipTick,
       TakeTick, UpdateRefused, RunSteps, CollectRun, RunStarts, RunEnds, apiVars, vars
<1> QED
    BY <1>1, <1>2, <1>3

\* The last handled tick never goes back, whatever the caches show: the
\* optimistic lock of updateStatus lets only a reconcile of the current suite
\* record one, and the tick it took is a later one.
THEOREM LastScheduleNeverBack == Spec => LastScheduleMonotone
<1>1. ASSUME Typed, Reads, [SuiteNext]_vars, suite.lastScheduleTime # None
      PROVE  \/ /\ suite'.lastScheduleTime # None
                /\ suite'.lastScheduleTime >= suite.lastScheduleTime
             \/ /\ suite'.lastScheduleTime = None
                /\ parses(suite) /\ ~fires(suite.schedule)
    <2>1. suite.lastScheduleTime \in Times /\ None \notin Times
        BY <1>1, NoneAssumption DEF Typed, TypeOK, SuiteType, Times
    <2> QED
        BY <1>1, <2>1, OnlyUpdatesRecord DEF Forward, Later, Times
<1> QED
    BY <1>1, ReadsInvariant, PTL DEF Spec, LastScheduleMonotone

-----------------------------------------------------------------------------
(* Garbage collection, with caches that are fresh when a reconcile starts. *)

\* While the suite's history is trimmed, the runs it may take are still the ones
\* that were read: a finished run changes no more, and nobody else deletes it.
FinishedAsRead ==
    suite.exists =>
      /\ pc = "gcSucceeded" =>
           \A n \in succeededIn(rec.runs) \cup failedIn(rec.runs) : runs[n] = rec.runs[n]
      /\ pc = "gcFailed" => \A n \in failedIn(rec.runs) : runs[n] = rec.runs[n]

\* What a trimming step deletes: some of the excess of its class.
LEMMA GcDeletes ==
    ASSUME GcSucceeded \/ GcFailed
    PROVE  \E D, E, class, limit :
              /\ deleteRuns(D) /\ D \subseteq E /\ E \subseteq class
              /\ isExcess(E, class, rec.runs, limit)
              /\ \/ pc = "gcSucceeded" /\ class = succeededIn(rec.runs) /\ limit = SuccessfulLimit
                 \/ pc = "gcFailed" /\ class = failedIn(rec.runs) /\ limit = FailedLimit
BY DEF GcSucceeded, GcFailed, gcRuns

\* A run that ends was active; no other run changes.
LEMMA RunEndsOne ==
    ASSUME Typed, NEW n \in RunNames, RunEnds(n)
    PROVE  /\ runs[n].phase \in {"", "Running"} /\ runs'[n].phase \in Verdicts
           /\ runs'[n].owned = runs[n].owned
           /\ \A m \in RunNames \ {n} : runs'[m] = runs[m]
<1>1. runs[n].phase \in {"", "Running"} /\ runs \in [RunNames -> RunType]
    BY DEF RunEnds, Typed, TypeOK
<1>2. PICK phase \in Verdicts :
          runs' = [runs EXCEPT ![n].phase = phase, ![n].start = IF @ = None THEN now ELSE @]
    BY DEF RunEnds
<1>3. runs'[n].phase = phase /\ runs'[n].owned = runs[n].owned
    BY <1>1, <1>2 DEF RunType
<1>4. \A m \in RunNames \ {n} : runs'[m] = runs[m]
    BY <1>1, <1>2
<1> QED
    BY <1>1, <1>2, <1>3, <1>4

\* While a reconcile trims the history, nobody but it deletes a run, and no
\* finished run changes.
LEMMA RunStepsKeep ==
    ASSUME Typed, suite.exists, RunSteps, NEW n \in RunNames
    PROVE  /\ runs'[n].phase = "absent" <=> runs[n].phase = "absent"
           /\ runs[n].phase \notin {"", "Running"} => runs'[n] = runs[n]
<1>1. runs \in [RunNames -> RunType] /\ "absent" \notin Verdicts
    BY VerdictsAssumption DEF Typed, TypeOK
<1>2. ASSUME NEW m \in RunNames, RunStarts(m)
      PROVE  /\ runs'[n].phase = "absent" <=> runs[n].phase = "absent"
             /\ runs[n].phase \notin {"", "Running"} => runs'[n] = runs[n]
    <2>1. CASE n = m
        BY <1>1, <1>2, <2>1 DEF RunStarts, RunType
    <2>2. CASE n # m
        BY <1>1, <1>2, <2>2 DEF RunStarts
    <2> QED
        BY <2>1, <2>2
<1>3. ASSUME NEW m \in RunNames, RunEnds(m)
      PROVE  /\ runs'[n].phase = "absent" <=> runs[n].phase = "absent"
             /\ runs[n].phase \notin {"", "Running"} => runs'[n] = runs[n]
    <2>1. CASE n = m
        BY <1>1, <1>3, <2>1, RunEndsOne
    <2>2. CASE n # m
        BY <1>1, <1>3, <2>2 DEF RunEnds
    <2> QED
        BY <2>1, <2>2
<1> QED
    BY <1>2, <1>3 DEF RunSteps, CollectRun

\* Which steps change the runs.
LEMMA WhoChangesRuns ==
    ASSUME Typed, Reads, [SuiteNext]_vars
    PROVE  \/ UNCHANGED <<runs, creations>>
           \/ GcSucceeded \/ GcFailed \/ TakeTick \/ CreateManual \/ CreateScheduled \/ RunSteps
<1>1. CASE Surroundings
    BY <1>1, SurroundingsReads
<1>2. CASE UserEdits
    BY <1>2, UserReads
<1> QED
    BY <1>1, <1>2, StepCases DEF ReconcileStart, NotScheduled, InvalidSchedule, SkipTick,
       UpdateStatus, UpdateRefused, apiVars, vars

\* A run is created where there is none.
LEMMA CreateAdds ==
    ASSUME Typed, NEW name \in RunNames, NEW next, NEW status, createRun(name, next, status),
           NEW n \in RunNames
    PROVE  /\ runs[n].phase # "absent" => runs'[n] = runs[n] /\ creations'[n] = creations[n]
           /\ runs[n].phase = "absent" /\ n # name =>
                runs'[n] = runs[n] /\ creations'[n] = creations[n]
           /\ runs[n].phase = "absent" /\ n = name =>
                runs'[n] = NewRun /\ creations'[n] = (IF creations[n] = 2 THEN 2 ELSE creations[n] + 1)
<1>1. CASE exists(name)
    BY <1>1 DEF createRun, exists
<1>2. CASE ~exists(name)
    BY <1>2 DEF createRun, exists, Typed, TypeOK
<1> QED
    BY <1>1, <1>2

\* A suite that is gone does not come back.
LEMMA SuiteStaysGone ==
    ASSUME Typed, Reads, [SuiteNext]_vars
    PROVE  suite'.exists => suite.exists
BY UserWrites, OnlyUpdatesRecord DEF SameSpec

LEMMA FinishedAsReadNext ==
    ASSUME FreshReads, Typed, Reads, FinishedAsRead, [SuiteNext]_vars
    PROVE  FinishedAsRead'
<1> SUFFICES ASSUME suite'.exists PROVE FinishedAsRead'
    BY DEF FinishedAsRead
<1>1. suite.exists
    BY SuiteStaysGone
<1>2. CASE ReconcileStart
    <2>1. rec'.runs = runs /\ pc' = "gcSucceeded" /\ UNCHANGED runs
        BY <1>2 DEF ReconcileStart, apiVars
    <2> QED
        BY <1>1, <2>1 DEF FinishedAsRead
<1>3. CASE GcSucceeded \/ GcFailed
    <2>1. ASSUME pc' = "gcFailed", NEW n \in failedIn(rec.runs)
          PROVE  runs'[n] = rec.runs[n]
        <3>1. pc = "gcSucceeded" /\ GcSucceeded
            BY <1>3, <2>1, GcDecides DEF GcSucceeded, GcFailed, gcRuns, Fault, EndReconcile, triggerPending
        <3>2. PICK D : deleteRuns(D) /\ D \subseteq succeededIn(rec.runs)
            BY <3>1, GcDeletes
        <3>3. n \notin D /\ n \in RunNames
            BY <2>1, <3>2 DEF failedIn, succeededIn, withPhase
        <3> QED
            BY <1>1, <2>1, <3>1, <3>2, <3>3 DEF deleteRuns, FinishedAsRead
    <2>2. pc' # "idle" => rec' = rec /\ pc' # "gcSucceeded"
        BY <1>3, GcDecides
    <2> QED
        BY <1>1, <2>1, <2>2 DEF FinishedAsRead
<1>4. CASE RunSteps
    <2>1. UNCHANGED <<pc, rec>>
        BY <1>4 DEF RunSteps, CollectRun, RunStarts, RunEnds, ctlVars
    <2>2. ASSUME NEW n \in succeededIn(rec.runs) \cup failedIn(rec.runs), runs[n] = rec.runs[n]
          PROVE  runs'[n] = rec.runs[n]
        BY <1>1, <1>4, <2>2, RunStepsKeep DEF succeededIn, failedIn, withPhase
    <2> QED
        BY <1>1, <2>1, <2>2 DEF FinishedAsRead
<1>5. CASE Surroundings
    BY <1>1, <1>5, SurroundingsReads DEF FinishedAsRead
<1>6. CASE UserEdits
    BY <1>1, <1>6, UserReads DEF FinishedAsRead
<1>7. CASE UNCHANGED vars
    BY <1>1, <1>7 DEF vars, apiVars, ctlVars, FinishedAsRead
<1>8. CASE \/ CreateManual \/ CreateScheduled \/ NotScheduled \/ InvalidSchedule
           \/ SkipTick \/ TakeTick \/ UpdateStatus \/ UpdateRefused
    <2>1. pc' \notin {"gcSucceeded", "gcFailed"}
        BY <1>8 DEF CreateManual, CreateScheduled, createRun, NotScheduled, InvalidSchedule,
           SkipTick, TakeTick, UpdateStatus, UpdateRefused, Fault, EndReconcile
    <2> QED
        BY <1>1, <2>1 DEF FinishedAsRead
<1> QED
    BY <1>2, <1>3, <1>4, <1>5, <1>6, <1>7, <1>8, StepCases

\* The oldest beyond the limit go: as many as the limit, none older, stay.
LEMMA ExcessLeavesLimit ==
    ASSUME NEW class, IsFiniteSet(class), NEW limit \in Nat, NEW E \in SUBSET class, NEW rs,
           isExcess(E, class, rs, limit), NEW e \in E
    PROVE  /\ Cardinality(class \ E) = limit
           /\ \A k \in class \ E : runRecency(rs[e]) <= runRecency(rs[k])
<1>1. Cardinality(class) \in Nat /\ IsFiniteSet(E) /\ Cardinality(E) \in Nat
    BY FS_Subset, FS_CardinalityType
<1>2. Cardinality(E) # 0
    BY <1>1, FS_EmptySet
<1>3. Cardinality(E) = Cardinality(class) - limit
    BY <1>2 DEF isExcess
<1>4. class \cap E = E
    OBVIOUS
<1>5. Cardinality(class \ E) = Cardinality(class) - Cardinality(E)
    BY <1>4, FS_Difference
<1> QED
    BY <1>1, <1>3, <1>5 DEF isExcess

LEMMA GcKeeps ==
    ASSUME Typed, FinishedAsRead, suite.exists, GcSucceeded \/ GcFailed
    PROVE  /\ keepsNewest(succeededIn(runs), SuccessfulLimit)
           /\ keepsNewest(failedIn(runs), FailedLimit)
           /\ \A n \in activeIn(runs) : runs'[n].phase # "absent"
<1>1. PICK D, E, class, limit :
          /\ deleteRuns(D) /\ D \subseteq E /\ E \subseteq class
          /\ isExcess(E, class, rec.runs, limit)
          /\ \/ pc = "gcSucceeded" /\ class = succeededIn(rec.runs) /\ limit = SuccessfulLimit
             \/ pc = "gcFailed" /\ class = failedIn(rec.runs) /\ limit = FailedLimit
    BY GcDeletes
<1>2. /\ class \subseteq RunNames /\ IsFiniteSet(class) /\ limit \in Nat
      /\ \A k \in class : runs[k] = rec.runs[k] /\ rec.runs[k].owned
      /\ \A k \in class : rec.runs[k].phase \in
            IF pc = "gcSucceeded" THEN {"Succeeded"} ELSE {"Failed", "Error"}
    <2>1. CASE pc = "gcSucceeded"
        <3>1. class = withPhase(rec.runs, {"Succeeded"}) /\ limit \in Nat
            BY <1>1, <2>1, LimitsAssumption DEF succeededIn
        <3>2. \A k \in class : runs[k] = rec.runs[k]
            BY <2>1, <3>1 DEF FinishedAsRead, succeededIn
        <3>3. \A k \in class : rec.runs[k].phase = "Succeeded" /\ rec.runs[k].owned
            BY <3>1 DEF withPhase
        <3> QED
            BY <2>1, <3>1, <3>2, <3>3, ClassFinite
    <2>2. CASE pc = "gcFailed"
        <3>1. class = withPhase(rec.runs, {"Failed", "Error"}) /\ limit \in Nat
            BY <1>1, <2>2, LimitsAssumption DEF failedIn
        <3>2. \A k \in class : runs[k] = rec.runs[k]
            BY <2>2, <3>1 DEF FinishedAsRead, failedIn
        <3>3. \A k \in class : rec.runs[k].phase \in {"Failed", "Error"} /\ rec.runs[k].owned
            BY <3>1 DEF withPhase
        <3> QED
            BY <2>2, <3>1, <3>2, <3>3, ClassFinite
    <2> QED
        BY <1>1, <2>1, <2>2
<1>3. ASSUME NEW n \in RunNames, runs'[n].phase = "absent", runs[n].phase # "absent"
      PROVE  n \in D
    BY <1>1, <1>3 DEF deleteRuns
<1>4. ASSUME NEW n \in D, NEW all, IsFiniteSet(all), class \subseteq all
      PROVE  Cardinality({k \in all : /\ runs'[k].phase # "absent"
                                      /\ runRecency(runs[k]) >= runRecency(runs[n])}) >= limit
    <2> DEFINE kept == {k \in all : /\ runs'[k].phase # "absent"
                                    /\ runRecency(runs[k]) >= runRecency(runs[n])}
    <2>1. n \in E
        BY <1>1
    <2>2. /\ Cardinality(class \ E) = limit
          /\ \A k \in class \ E : runRecency(rec.runs[n]) <= runRecency(rec.runs[k])
        BY <1>1, <1>2, <2>1, ExcessLeavesLimit
    <2>3. ASSUME NEW k \in class \ E PROVE k \in kept
        <3>1. runs'[k] = runs[k] /\ runs[k].phase # "absent"
            BY <1>1, <1>2 DEF deleteRuns
        <3>2. runRecency(runs[k]) >= runRecency(runs[n])
            BY <1>1, <1>2, <2>1, <2>2
        <3> QED
            BY <1>4, <3>1, <3>2
    <2>4. IsFiniteSet(kept) /\ class \ E \subseteq kept
        BY <1>4, <2>3, FS_Subset
    <2> HIDE DEF kept
    <2>5. Cardinality(class \ E) <= Cardinality(kept) /\ Cardinality(kept) \in Nat
        BY <2>4, FS_Subset, FS_CardinalityType
    <2>6. Cardinality(kept) >= limit
        BY <1>2, <2>2, <2>5
    <2> QED
        BY <2>6 DEF kept
<1>5. CASE pc = "gcSucceeded"
    <2>1. /\ class = succeededIn(rec.runs) /\ limit = SuccessfulLimit
          /\ class \subseteq succeededIn(runs) /\ IsFiniteSet(succeededIn(runs))
        BY <1>1, <1>2, <1>5, ClassFinite DEF succeededIn, withPhase
    <2>2. \A n \in D : runs[n].phase = "Succeeded"
        BY <1>1, <1>2, <1>5
    <2>3. keepsNewest(succeededIn(runs), SuccessfulLimit)
        BY <1>3, <1>4, <2>1 DEF keepsNewest, succeededIn, withPhase
    <2>4. keepsNewest(failedIn(runs), FailedLimit)
        BY <1>3, <2>2 DEF keepsNewest, failedIn, withPhase
    <2>5. \A n \in activeIn(runs) : runs'[n].phase # "absent"
        BY <1>3, <2>2 DEF activeIn, withPhase
    <2> QED
        BY <2>3, <2>4, <2>5
<1>6. CASE pc = "gcFailed"
    <2>1. /\ class = failedIn(rec.runs) /\ limit = FailedLimit
          /\ class \subseteq failedIn(runs) /\ IsFiniteSet(failedIn(runs))
        BY <1>1, <1>2, <1>6, ClassFinite DEF failedIn, withPhase
    <2>2. \A n \in D : runs[n].phase \in {"Failed", "Error"}
        BY <1>1, <1>2, <1>6
    <2>3. keepsNewest(failedIn(runs), FailedLimit)
        BY <1>3, <1>4, <2>1 DEF keepsNewest, failedIn, withPhase
    <2>4. keepsNewest(succeededIn(runs), SuccessfulLimit)
        BY <1>3, <2>2 DEF keepsNewest, succeededIn, withPhase
    <2>5. \A n \in activeIn(runs) : runs'[n].phase # "absent"
        BY <1>3, <2>2 DEF activeIn, withPhase
    <2> QED
        BY <2>3, <2>4, <2>5
<1> QED
    BY <1>1, <1>5, <1>6

\* Outside of the trimming, only Replace deletes.
LEMMA OthersKeep ==
    ASSUME Typed, Reads, suite.exists, [SuiteNext]_vars, ~GcSucceeded, ~GcFailed,
           NEW n \in RunNames, runs[n].phase # "absent", runs'[n].phase = "absent"
    PROVE  TakeTick /\ pc = "schedule" /\ rec.suite.policy = "Replace"
<1>1. CASE TakeTick
    <2>1. rec.suite.policy # "Replace" => replaced = {}
        BY DEF replaced
    <2>2. \E D : D \subseteq replaced /\ deleteRuns(D)
        BY <1>1 DEF TakeTick
    <2>3. replaced # {}
        BY <2>2 DEF deleteRuns
    <2> QED
        BY <1>1, <2>1, <2>3 DEF TakeTick
<1>2. CASE CreateManual
    <2>1. rec.suite.trigger \in RunNames
        BY <1>2, Names DEF CreateManual, Typed, RecOK
    <2> QED
        BY <1>2, <2>1, CreateAdds DEF CreateManual
<1>3. CASE CreateScheduled
    <2>1. rec.tick \in RunNames
        BY <1>3 DEF CreateScheduled, Typed, RecOK
    <2> QED
        BY <1>3, <2>1, CreateAdds DEF CreateScheduled
<1>4. CASE RunSteps
    BY <1>4, RunStepsKeep
<1> QED
    BY <1>1, <1>2, <1>3, <1>4, WhoChangesRuns

\* With reconciles that start on caches that show every earlier write, and as
\* long as the suite is there, the history limits keep the newest runs and
\* nothing but Replace deletes an active one: gcRuns deletes by name what it
\* read before, so a stale cache could name a run made since.
THEOREM GcCorrect == FreshReads => (Spec => GcKeepsNewest)
<1> SUFFICES ASSUME FreshReads PROVE Spec => GcKeepsNewest
    OBVIOUS
<1>1. Init => FinishedAsRead
    BY DEF Init, FinishedAsRead
<1>2. Typed /\ Reads /\ FinishedAsRead /\ [SuiteNext]_vars => FinishedAsRead'
    BY FinishedAsReadNext
<1>3. Typed /\ Reads /\ FinishedAsRead /\ [SuiteNext]_vars =>
        (suite.exists =>
           /\ pc \in {"gcSucceeded", "gcFailed"} =>
                /\ keepsNewest(succeededIn(runs), SuccessfulLimit)
                /\ keepsNewest(failedIn(runs), FailedLimit)
           /\ (\E n \in activeIn(runs) : runs'[n].phase = "absent")
                => pc = "schedule" /\ rec.suite.policy = "Replace")
    <2> SUFFICES ASSUME Typed, Reads, FinishedAsRead, [SuiteNext]_vars, suite.exists
                 PROVE  /\ pc \in {"gcSucceeded", "gcFailed"} =>
                             /\ keepsNewest(succeededIn(runs), SuccessfulLimit)
                             /\ keepsNewest(failedIn(runs), FailedLimit)
                        /\ (\E n \in activeIn(runs) : runs'[n].phase = "absent")
                             => pc = "schedule" /\ rec.suite.policy = "Replace"
        OBVIOUS
    <2>1. CASE GcSucceeded \/ GcFailed
        BY <2>1, GcKeeps
    <2>2. CASE ~GcSucceeded /\ ~GcFailed
        <3>1. \A n \in RunNames : runs[n].phase # "absent" /\ runs'[n].phase = "absent"
                  => pc = "schedule" /\ rec.suite.policy = "Replace"
            BY <2>2, OthersKeep
        <3> QED
            BY <3>1 DEF keepsNewest, succeededIn, failedIn, activeIn, withPhase
    <2> QED
        BY <2>1, <2>2
<1> QED
    BY <1>1, <1>2, <1>3, ReadsInvariant, PTL DEF Spec, GcKeepsNewest

-----------------------------------------------------------------------------
(* Concurrency policies, with caches that are fresh when a reconcile       *)
(* starts.                                                                 *)

\* Between its reads and its creation of a scheduled run, a reconcile has seen
\* every run that is active, or is about to make it or has made it: nobody else
\* creates one, and none starts anew.
ActiveAsRead ==
    /\ pc = "manual" => triggerPending
    /\ pc # "idle" /\ pc \notin {"create", "update"} =>
         activeIn(runs) \subseteq activeIn(rec.runs) \cup ownManual
    /\ pc = "create" /\ rec.suite.policy # "Allow" => activeIn(runs) \subseteq ownManual

\* A step that creates no run makes none active.
LEMMA NoneBecomesActive ==
    ASSUME Typed, Reads, [SuiteNext]_vars, ~CreateManual, ~CreateScheduled
    PROVE  /\ activeIn(runs') \subseteq activeIn(runs) /\ UNCHANGED creations
           /\ \A n \in RunNames : ~created(n)
<1> DEFINE NoneNew == /\ activeIn(runs') \subseteq activeIn(runs)
                      /\ \A n \in RunNames : ~created(n)
<1>1. runs \in [RunNames -> RunType]
    BY DEF Typed, TypeOK
<1>2. ASSUME NEW D, deleteRuns(D) PROVE NoneNew
    BY <1>2 DEF deleteRuns, activeIn, withPhase, NoRun, created
<1>3. CASE GcSucceeded \/ GcFailed
    BY <1>2, <1>3, GcDeletes, GcDecides
<1>4. CASE TakeTick
    BY <1>2, <1>4 DEF TakeTick
<1>5. CASE RunSteps
    <2>1. ASSUME NEW n \in RunNames, CollectRun(n) PROVE NoneNew
        BY <1>2, <2>1 DEF CollectRun
    <2>2. ASSUME NEW n \in RunNames, RunStarts(n) PROVE NoneNew
        <3>1. /\ runs[n].phase = "" /\ runs'[n].owned = runs[n].owned
              /\ \A m \in RunNames \ {n} : runs'[m] = runs[m]
            BY <1>1, <2>2 DEF RunStarts, RunType
        <3> QED
            BY <3>1 DEF activeIn, withPhase, created
    <2>3. ASSUME NEW n \in RunNames, RunEnds(n) PROVE NoneNew
        <3>1. /\ runs[n].phase \in {"", "Running"} /\ runs'[n].owned = runs[n].owned
              /\ \A m \in RunNames \ {n} : runs'[m] = runs[m]
            BY <2>3, RunEndsOne
        <3> QED
            BY <3>1 DEF activeIn, withPhase, created
    <2> QED
        BY <1>5, <2>1, <2>2, <2>3 DEF RunSteps, CollectRun, RunStarts, RunEnds
<1>6. CASE UNCHANGED <<runs, creations>>
    BY <1>6 DEF created
<1>7. UNCHANGED creations
    BY <1>6, WhoChangesRuns, GcDecides DEF TakeTick, RunSteps, CollectRun, RunStarts, RunEnds
<1> QED
    BY <1>3, <1>4, <1>5, <1>6, <1>7, WhoChangesRuns

\* A creation makes no run active but the one it is about.
LEMMA OneBecomesActive ==
    ASSUME Typed, NEW name \in RunNames, NEW next, NEW status, createRun(name, next, status)
    PROVE  activeIn(runs') \subseteq activeIn(runs) \cup {name}
BY CreateAdds DEF activeIn, withPhase

\* What the reconcile's own trigger is depends on what it has read alone.
LEMMA SameTrigger ==
    ASSUME rec'.suite = rec.suite
    PROVE  (triggerPending <=> triggerPending') /\ ownManual' = ownManual
BY DEF triggerPending, ownManual

\* A scheduled run is made by CreateScheduled, for the tick that was taken.
LEMMA ScheduledRunsAreTicks ==
    ASSUME Typed, Reads, [SuiteNext]_vars, NEW t \in RunNames \ Triggers, created(t)
    PROVE  CreateScheduled /\ rec.tick = t
<1>1. ~CreateManual
    <2> SUFFICES ASSUME CreateManual PROVE FALSE
        OBVIOUS
    <2>1. rec.suite.trigger \in RunNames /\ rec.suite.trigger \in Triggers
        BY Names DEF CreateManual, Typed, RecOK
    <2> QED
        BY <2>1, CreateAdds DEF CreateManual, created
<1>2. CreateScheduled
    BY <1>1, NoneBecomesActive
<1>3. rec.tick \in RunNames
    BY <1>2 DEF CreateScheduled, Typed, RecOK
<1> QED
    BY <1>2, <1>3, CreateAdds DEF CreateScheduled, created

LEMMA ActiveAsReadNext ==
    ASSUME FreshReads, Typed, Reads, ActiveAsRead, [SuiteNext]_vars
    PROVE  ActiveAsRead'
<1>0. CASE CreateManual
    <2>1. /\ pc = "manual" /\ triggerPending
          /\ createRun(rec.suite.trigger, "schedule",
                       [rec.status EXCEPT !.lastManualTrigger = rec.suite.trigger])
        BY <1>0 DEF CreateManual, ActiveAsRead
    <2>2. rec.suite.trigger \in RunNames
        BY <2>1, Names DEF Typed, RecOK
    <2>3. activeIn(runs') \subseteq activeIn(rec.runs) \cup ownManual
        BY <2>1, <2>2, OneBecomesActive DEF ActiveAsRead, ownManual
    <2>4. pc' = "idle" \/ (pc' = "schedule" /\ rec'.suite = rec.suite /\ rec'.runs = rec.runs)
        <3>1. \/ pc' = "idle"
              \/ pc' = "schedule" /\ \E st : rec' = [rec EXCEPT !.status = st, !.refs = @ + 1]
            BY <2>1 DEF createRun, Fault, EndReconcile
        <3> QED
            BY <3>1 DEF Typed, TypeOK, RecType
    <2> QED
        BY <2>3, <2>4, SameTrigger DEF ActiveAsRead
<1>1. CASE CreateScheduled
    <2>1. pc' \in {"idle", "update"}
        BY <1>1 DEF CreateScheduled, createRun, Fault, EndReconcile
    <2> QED
        BY <2>1 DEF ActiveAsRead
<1>2. CASE TakeTick
    <2>1. /\ pc = "schedule" /\ ~forbidden
          /\ activeIn(runs) \subseteq activeIn(rec.runs) \cup ownManual
        BY <1>2 DEF TakeTick, ActiveAsRead
    <2>2. ASSUME pc' # "idle"
          PROVE  pc' = "create" /\ rec'.suite = rec.suite /\ deleteRuns(replaced)
        BY <1>2, <2>2, TakeDecides DEF KeepsReading
    <2>3. rec.suite.policy \in {"Allow", "Forbid", "Replace"}
        BY <2>1, PoliciesAssumption DEF Typed, RecOK, SuiteType
    <2>4. ASSUME pc' = "create", rec.suite.policy = "Forbid"
          PROVE  activeIn(runs') \subseteq ownManual
        BY <1>2, <2>1, <2>4, NoneBecomesActive DEF forbidden, CreateManual, CreateScheduled
    <2>5. ASSUME pc' = "create", rec.suite.policy = "Replace"
          PROVE  activeIn(runs') \subseteq ownManual
        <3>1. deleteRuns(activeIn(rec.runs))
            BY <2>2, <2>5 DEF replaced
        <3> QED
            BY <2>1, <3>1 DEF deleteRuns, activeIn, withPhase, NoRun
    <2> QED
        BY <2>2, <2>3, <2>4, <2>5, SameTrigger DEF ActiveAsRead
<1>3. CASE ReconcileStart
    BY <1>3 DEF ReconcileStart, apiVars, ActiveAsRead
<1>4. CASE ~CreateManual /\ ~CreateScheduled /\ ~TakeTick /\ ~ReconcileStart
    <2>1. activeIn(runs') \subseteq activeIn(runs)
        BY <1>4, NoneBecomesActive
    <2>2. \/ pc' \in {"idle", "update"}
          \/ pc' = pc /\ pc # "idle" /\ rec'.suite = rec.suite /\ rec'.runs = rec.runs
          \/ /\ pc # "idle" /\ {pc, pc'} \cap {"create", "update"} = {} /\ rec' = rec
             /\ pc' = "manual" => triggerPending
        <3>1. CASE Surroundings
            BY <3>1, SurroundingsReads
        <3>2. CASE UserEdits
            BY <3>2, UserReads
        <3>3. CASE GcSucceeded \/ GcFailed
            BY <3>3, GcDecides DEF GcSucceeded, GcFailed, gcRuns, Fault, EndReconcile
        <3>4. CASE RunSteps \/ UNCHANGED vars
            BY <3>4 DEF RunSteps, CollectRun, RunStarts, RunEnds, vars, ctlVars
        <3> QED
            BY <1>4, <3>1, <3>2, <3>3, <3>4, StepCases
            DEF NotScheduled, InvalidSchedule, SkipTick, UpdateStatus, UpdateRefused, Fault, EndReconcile
    <2> QED
        BY <2>1, <2>2, SameTrigger DEF ActiveAsRead
<1> QED
    BY <1>0, <1>1, <1>2, <1>3, <1>4

\* With fresh caches, a scheduled run is created only when the policy that the
\* reconcile has read lets it join those that are active: the check of Forbid
\* and the deletions of Replace are as good at the creation as at the read, but
\* for the manual run that the reconcile has made in between.
THEOREM AloneCorrect == FreshReads => (Spec => ScheduledAlone)
<1> SUFFICES ASSUME FreshReads PROVE Spec => ScheduledAlone
    OBVIOUS
<1>1. Init => ActiveAsRead
    BY DEF Init, ActiveAsRead
<1>2. Typed /\ Reads /\ ActiveAsRead /\ [SuiteNext]_vars => ActiveAsRead'
    BY ActiveAsReadNext
<1>3. Typed /\ Reads /\ ActiveAsRead /\ [SuiteNext]_vars =>
        ((\E t \in RunNames \ Triggers : created(t))
          => rec.suite.policy = "Allow" \/ activeIn(runs) \subseteq ownManual)
    <2> SUFFICES ASSUME Typed, Reads, ActiveAsRead, [SuiteNext]_vars,
                        NEW t \in RunNames \ Triggers, created(t)
                 PROVE  rec.suite.policy = "Allow" \/ activeIn(runs) \subseteq ownManual
        OBVIOUS
    <2>1. CreateScheduled
        BY ScheduledRunsAreTicks
    <2> QED
        BY <2>1 DEF CreateScheduled, ActiveAsRead
<1> QED
    BY <1>1, <1>2, <1>3, ReadsInvariant, PTL DEF Spec, ScheduledAlone

-----------------------------------------------------------------------------
(* A handled tick rests, with caches that are fresh when a reconcile       *)
(* starts, whatever the limits and the policies delete.                    *)

\* The last handled tick that a reconcile has read is the suite's: nobody else
\* records one.
RecordAsRead == pc # "idle" => rec.suite.lastScheduleTime = suite.lastScheduleTime

\* What a reconcile has read of the suite stays, but for whether it is current.
LEMMA SuiteAsRead ==
    ASSUME Typed, Reads, [SuiteNext]_vars, ~ReconcileStart, pc' # "idle"
    PROVE  pc # "idle" /\ rec'.suite = rec.suite
<1>1. rec \in RecType
    BY DEF Typed, TypeOK
<1>2. CASE Surroundings
    BY <1>2, SurroundingsReads
<1>3. CASE UserEdits
    BY <1>3, UserReads
<1>4. CASE GcSucceeded \/ GcFailed
    BY <1>4, GcDecides DEF GcSucceeded, GcFailed
<1>5. ASSUME NEW name, NEW next, NEW status, createRun(name, next, status)
      PROVE  rec'.suite = rec.suite
    <2>1. \E st : rec' = [rec EXCEPT !.status = st, !.refs = @ + 1]
        BY <1>5 DEF createRun, Fault, EndReconcile
    <2> QED
        BY <1>1, <2>1 DEF RecType
<1>6. CASE CreateManual \/ CreateScheduled
    BY <1>5, <1>6 DEF CreateManual, CreateScheduled
<1>7. CASE NotScheduled \/ UpdateStatus \/ UpdateRefused
    BY <1>7 DEF NotScheduled, UpdateStatus, UpdateRefused, Fault, EndReconcile
<1>8. CASE InvalidSchedule
    BY <1>8, InvalidDecides DEF InvalidSchedule, KeepsReading
<1>9. CASE SkipTick
    BY <1>9, SkipDecides DEF SkipTick, KeepsReading
<1>10. CASE TakeTick
    BY <1>10, TakeDecides DEF TakeTick, KeepsReading
<1>11. CASE RunSteps \/ UNCHANGED vars
    BY <1>11 DEF RunSteps, CollectRun, RunStarts, RunEnds, vars, ctlVars
<1> QED
    BY <1>2, <1>3, <1>4, <1>6, <1>7, <1>8, <1>9, <1>10, <1>11, StepCases

LEMMA RecordAsReadNext ==
    ASSUME FreshReads, Typed, Reads, RecordAsRead, [SuiteNext]_vars
    PROVE  RecordAsRead'
<1> SUFFICES ASSUME pc' # "idle"
             PROVE  rec'.suite.lastScheduleTime = suite'.lastScheduleTime
    BY DEF RecordAsRead
<1>1. CASE ReconcileStart
    BY <1>1 DEF ReconcileStart, Reads, apiVars
<1>2. CASE ~ReconcileStart
    <2>1. pc # "idle" /\ rec'.suite = rec.suite
        BY <1>2, SuiteAsRead
    <2>2. ~UpdateStatus
        BY DEF UpdateStatus, Fault, EndReconcile
    <2>3. suite'.lastScheduleTime = suite.lastScheduleTime
        BY <2>2, OnlyUpdatesRecord
    <2> QED
        BY <2>1, <2>3 DEF RecordAsRead
<1> QED
    BY <1>1, <1>2

\* With fresh caches a tick that was recorded as handled is never run again,
\* whatever garbage collection and Replace have deleted and users have edited
\* since: the tick that a reconcile takes is later than the last one it has
\* read, and nobody records another before its run is created.
THEOREM HandledCorrect == FreshReads => (Spec => HandledTicksRest)
<1> SUFFICES ASSUME FreshReads PROVE Spec => HandledTicksRest
    OBVIOUS
<1>1. Init => RecordAsRead
    BY DEF Init, RecordAsRead
<1>2. Typed /\ Reads /\ RecordAsRead /\ [SuiteNext]_vars => RecordAsRead'
    BY RecordAsReadNext
<1>3. Typed /\ Reads /\ RecordAsRead /\ [SuiteNext]_vars =>
        \A t \in RunNames \ Triggers :
            created(t) => suite.lastScheduleTime = None \/ suite.lastScheduleTime < t
    <2> SUFFICES ASSUME Typed, Reads, RecordAsRead, [SuiteNext]_vars,
                        NEW t \in RunNames \ Triggers, created(t)
                 PROVE  suite.lastScheduleTime = None \/ suite.lastScheduleTime < t
        OBVIOUS
    <2>1. pc = "create" /\ rec.tick = t
        BY ScheduledRunsAreTicks DEF CreateScheduled
    <2>2. Later(rec.suite.lastScheduleTime, t)
        BY <2>1 DEF Reads, Decided
    <2> QED
        BY <2>1, <2>2 DEF RecordAsRead, Later
<1> QED
    BY <1>1, <1>2, <1>3, ReadsInvariant, PTL DEF Spec, HandledTicksRest

-----------------------------------------------------------------------------
(* A run is made once, if the history limits keep every run and nothing is *)
(* replaced, however old the caches are.                                   *)

\* The policy and the limits leave the runs alone.
RunsKept ==
    /\ "Replace" \notin Policies
    /\ SuccessfulLimit >= Cardinality(RunNames) /\ FailedLimit >= Cardinality(RunNames)

\* A run that was made is there, and was made once, while the suite is.
MadeOnce ==
    /\ suite.exists =>
         \A n \in RunNames : creations[n] <= 1 /\ (creations[n] > 0 => runs[n].phase # "absent")
    /\ \A n \in RunNames : runs[n].phase # "absent" => creations[n] > 0

\* With such limits and policies a reconcile deletes nothing.
LEMMA NothingDeleted ==
    ASSUME RunsKept, Typed, GcSucceeded \/ GcFailed \/ TakeTick
    PROVE  \A n \in RunNames : runs'[n] = runs[n]
<1>1. CASE GcSucceeded \/ GcFailed
    <2>1. PICK D, E, class, limit :
              /\ deleteRuns(D) /\ D \subseteq E /\ E \subseteq class
              /\ isExcess(E, class, rec.runs, limit)
              /\ \/ pc = "gcSucceeded" /\ class = succeededIn(rec.runs) /\ limit = SuccessfulLimit
                 \/ pc = "gcFailed" /\ class = failedIn(rec.runs) /\ limit = FailedLimit
        BY <1>1, GcDeletes
    <2>2. /\ IsFiniteSet(class) /\ Cardinality(class) \in Nat /\ limit \in Nat
          /\ Cardinality(class) <= Cardinality(RunNames) /\ Cardinality(RunNames) <= limit
        BY <2>1, ClassFinite, Names, LimitsAssumption DEF succeededIn, failedIn, RunsKept
    <2>3. Cardinality(E) = 0
        BY <2>1, <2>2, Names DEF isExcess
    <2>4. E = {}
        BY <2>1, <2>2, <2>3, FS_Subset, FS_EmptySet
    <2> QED
        BY <2>1, <2>4 DEF deleteRuns
<1>2. CASE TakeTick
    <2>1. replaced = {}
        BY <1>2 DEF TakeTick, replaced, RunsKept, Typed, RecOK, SuiteType
    <2> QED
        BY <1>2, <2>1 DEF TakeTick, deleteRuns
<1> QED
    BY <1>1, <1>2

LEMMA MadeOnceNext ==
    ASSUME RunsKept, Typed, Reads, MadeOnce, [SuiteNext]_vars
    PROVE  MadeOnce'
<1>0. creations \in [RunNames -> 0 .. 2] /\ (suite'.exists => suite.exists)
    BY SuiteStaysGone DEF Typed, TypeOK
<1>1. ASSUME NEW name \in RunNames, NEW next, NEW status, createRun(name, next, status)
      PROVE  MadeOnce'
    <2>1. NewRun.phase # "absent"
        BY DEF NewRun
    <2> QED
        BY <1>0, <1>1, <2>1, CreateAdds DEF MadeOnce
<1>2. CASE CreateManual
    <2>1. rec.suite.trigger \in RunNames
        BY <1>2, Names DEF CreateManual, Typed, RecOK
    <2> QED
        BY <1>1, <1>2, <2>1 DEF CreateManual
<1>3. CASE CreateScheduled
    <2>1. rec.tick \in RunNames
        BY <1>3 DEF CreateScheduled, Typed, RecOK
    <2> QED
        BY <1>1, <1>3, <2>1 DEF CreateScheduled
<1>4. CASE GcSucceeded \/ GcFailed \/ TakeTick
    <2>1. UNCHANGED creations
        BY <1>4, GcDecides DEF TakeTick
    <2> QED
        BY <1>0, <1>4, <2>1, NothingDeleted DEF MadeOnce
<1>5. CASE RunSteps
    <2>1. UNCHANGED <<suite, creations>>
        BY <1>5 DEF RunSteps, CollectRun, RunStarts, RunEnds
    <2>2. CASE suite.exists
        BY <1>5, <2>1, <2>2, RunStepsKeep DEF MadeOnce
    <2>3. CASE ~suite.exists
        <3>1. ASSUME NEW n \in RunNames, runs'[n].phase # "absent" PROVE runs[n].phase # "absent"
            <4>1. runs \in [RunNames -> RunType]
                BY DEF Typed, TypeOK
            <4>2. ASSUME NEW m \in RunNames, CollectRun(m) PROVE runs[n].phase # "absent"
                BY <3>1, <4>2 DEF CollectRun, deleteRuns, NoRun
            <4>3. ASSUME NEW m \in RunNames, RunStarts(m) PROVE runs[n].phase # "absent"
                BY <3>1, <4>1, <4>3 DEF RunStarts
            <4>4. ASSUME NEW m \in RunNames, RunEnds(m) PROVE runs[n].phase # "absent"
                <5>1. /\ runs[m].phase \in {"", "Running"}
                      /\ \A k \in RunNames \ {m} : runs'[k] = runs[k]
                    BY <4>4, RunEndsOne
                <5> QED
                    BY <3>1, <5>1
            <4> QED
                BY <1>5, <4>2, <4>3, <4>4 DEF RunSteps
        <3> QED
            BY <2>1, <2>3, <3>1 DEF MadeOnce
    <2> QED
        BY <2>2, <2>3
<1>6. CASE UNCHANGED <<runs, creations>>
    BY <1>0, <1>6 DEF MadeOnce
<1> QED
    BY <1>2, <1>3, <1>4, <1>5, <1>6, WhoChangesRuns

LEMMA MadeOnceInit == Init => MadeOnce
BY DEF Init, MadeOnce, NoRuns, NoRun

LEMMA MadeOnceInvariant == RunsKept => (Spec => []MadeOnce)
<1> SUFFICES ASSUME RunsKept PROVE Spec => []MadeOnce
    OBVIOUS
<1>1. Typed /\ Reads /\ MadeOnce /\ [SuiteNext]_vars => MadeOnce'
    BY MadeOnceNext
<1> QED
    BY <1>1, MadeOnceInit, ReadsInvariant, PTL DEF Spec

\* A suite that is there and whose runs are kept has run a tick at most once,
\* whatever the caches show and however often a reconcile of the tick is
\* repeated: the API server refuses a second run of the name.  (Without that a
\* run that garbage collection or Replace took before its tick was recorded
\* could be made again.)
THEOREM TickCorrect == RunsKept => (Spec => []TickRunsOnce)
<1> SUFFICES ASSUME RunsKept PROVE Spec => []TickRunsOnce
    OBVIOUS
<1>1. MadeOnce => TickRunsOnce
    BY DEF MadeOnce, TickRunsOnce
<1> QED
    BY <1>1, MadeOnceInvariant, PTL

-----------------------------------------------------------------------------
(* The promise of module SuitePromise, step by step, for suites that allow *)
(* runs to overlap, whose schedules fire, and whose ticks are never late   *)
(* and whose runs are never trimmed within the bound.                      *)

EveryTickServed ==
    /\ RunsKept /\ "Forbid" \notin Policies
    /\ StartingDeadline >= MaxTime
    /\ \A s \in Expressions \cap Schedules : fires(s)

\* What a reconcile may be about to record: a trigger that it has read and
\* whose run was made, and a tick whose run was made.
Made(name) == name \in RunNames /\ creations[name] > 0

RecordsMade ==
    /\ rec.status.lastManualTrigger # rec.suite.lastManualTrigger =>
         /\ rec.status.lastManualTrigger = rec.suite.trigger
         /\ rec.suite.trigger \in Triggers /\ Made(rec.suite.trigger)
    /\ rec.status.lastScheduleTime # rec.suite.lastScheduleTime =>
         rec.status.lastScheduleTime \notin Triggers /\ Made(rec.status.lastScheduleTime)

\* Every copy of the suite carries a trigger that was asked for; the reconcile's
\* clock and the tick it takes are not ahead of time.
Served ==
    /\ suite.trigger \in asked \cup {None} /\ cache.suite.trigger \in asked \cup {None}
    /\ pc # "idle" =>
         /\ rec.now <= now /\ rec.suite.trigger \in asked \cup {None}
         /\ RecordsMade
    /\ pc = "create" => rec.tick <= now

\* A run that was made stays made.
LEMMA CreationsStay ==
    ASSUME Typed, Reads, [SuiteNext]_vars, NEW n \in RunNames
    PROVE  creations[n] > 0 => creations'[n] > 0
<1>1. ASSUME NEW name \in RunNames, NEW next, NEW status, createRun(name, next, status)
      PROVE  creations[n] > 0 => creations'[n] > 0
    <2>1. creations[n] \in 0 .. 2
        BY DEF Typed, TypeOK
    <2> QED
        BY <1>1, <2>1, CreateAdds
<1>2. CASE CreateManual
    <2>1. rec.suite.trigger \in RunNames
        BY <1>2, Names DEF CreateManual, Typed, RecOK
    <2> QED
        BY <1>1, <1>2, <2>1 DEF CreateManual
<1>3. CASE CreateScheduled
    <2>1. rec.tick \in RunNames
        BY <1>3 DEF CreateScheduled, Typed, RecOK
    <2> QED
        BY <1>1, <1>3, <2>1 DEF CreateScheduled
<1> QED
    BY <1>2, <1>3, NoneBecomesActive

\* A reconcile that goes on after a creation leaves a run of that name behind.
LEMMA CreationMade ==
    ASSUME Typed, MadeOnce, NEW name \in RunNames, NEW next, NEW status,
           createRun(name, next, status), pc' # "idle"
    PROVE  creations'[name] > 0
<1>1. creations[name] \in 0 .. 2
    BY DEF Typed, TypeOK
<1> QED
    BY <1>1, CreateAdds DEF MadeOnce

\* With schedules that fire, deadlines that are not missed and no Forbid, a
\* tick that is skipped is no tick.
LEMMA NothingSkipped ==
    ASSUME EveryTickServed, Typed, SkipTick
    PROVE  missedTick = None
<1>1. /\ earliest \in Times /\ rec.now \in Times /\ rec.suite.schedule \in Schedules
      /\ missedTick \in Times \cup {Zero, None}
      /\ rec.suite \in SuiteType
    BY MissedTickType DEF SkipTick, Typed, RecOK
<1>2. fires(rec.suite.schedule) /\ rec.suite.policy # "Forbid"
    BY <1>1 DEF EveryTickServed, RunsKept, SuiteType
<1>3. missedTick # Zero
    <2>1. missedTick \in missedTicks(rec.suite.schedule, earliest, rec.now) \cup {None}
        BY <1>1, <1>2, LastMissedIsMissed DEF missedTick
    <2>2. missedTicks(rec.suite.schedule, earliest, rec.now) \subseteq Times
        BY <1>1, MissedFinite
    <2> QED
        BY <2>1, <2>2, NoneAssumption DEF Zero, Times
<1>4. ASSUME missedTick \in Times PROVE ~(rec.now - missedTick > StartingDeadline)
    BY <1>1, <1>4, DeadlineAssumption, TimeAssumption DEF EveryTickServed, Times
<1> QED
    BY <1>1, <1>2, <1>3, <1>4 DEF SkipTick, stale, forbidden

LEMMA ServedInit == Init => Served
BY DEF Init, Served, NewSuite

\* What a reconcile that goes on carries over.
LEMMA RecordsStay ==
    ASSUME Typed, Reads, [SuiteNext]_vars, RecordsMade,
           rec'.suite = rec.suite,
           rec'.status.lastManualTrigger = rec.status.lastManualTrigger,
           rec'.status.lastScheduleTime = rec.status.lastScheduleTime
    PROVE  RecordsMade'
<1>1. \A n : Made(n) => Made(n)'
    BY CreationsStay DEF Made
<1> QED
    BY <1>1 DEF RecordsMade, Made

LEMMA ServedNext ==
    ASSUME EveryTickServed, Typed, Reads, MadeOnce, Served, [SuiteNext]_vars
    PROVE  Served'
<1>1. /\ suite'.trigger \in asked' \cup {None}
      /\ UNCHANGED asked \/ (asked' = asked \cup {suite'.trigger} /\ UNCHANGED <<pc, cache>>)
    <2>1. CASE UserEdits
        BY <2>1, UserWrites, UserReads DEF Served
    <2>2. CASE ~UserEdits
        <3>1. UNCHANGED asked
            BY <2>2, StepCases, SurroundingsReads, GcDecides, UpdateWrites
            DEF ReconcileStart, CreateManual, CreateScheduled, createRun, NotScheduled, InvalidSchedule,
                SkipTick, TakeTick, UpdateRefused, RunSteps, CollectRun, RunStarts, RunEnds, apiVars, vars
        <3>2. suite'.trigger = suite.trigger
            BY <2>2, OnlyUpdatesRecord DEF SameSpec
        <3> QED
            BY <3>1, <3>2 DEF Served
    <2> QED
        BY <2>1, <2>2
<1>2. cache'.suite.trigger \in asked' \cup {None}
    <2>1. CASE Surroundings
        <3>1. cache \in [suite: SuiteType, runs: [RunNames -> RunType]]
            BY DEF Typed, TypeOK
        <3>2. cache'.suite \in {suite, cache.suite}
            BY <2>1, <3>1 DEF Surroundings, ReconcileGone, ApiError, Restart, SyncSuite, SyncRuns,
               FireTimer, Tick, ctlVars
        <3>3. UNCHANGED asked
            BY <2>1, SurroundingsReads
        <3> QED
            BY <3>2, <3>3 DEF Served
    <2>2. CASE ~Surroundings
        <3>1. UNCHANGED cache
            BY <2>2, StepCases, GcDecides, UserReads, UpdateWrites
            DEF ReconcileStart, CreateManual, CreateScheduled, createRun, NotScheduled,
                InvalidSchedule, SkipTick, TakeTick, UpdateRefused, RunSteps, CollectRun, RunStarts,
                RunEnds, ctlVars, vars
        <3> QED
            BY <1>1, <3>1 DEF Served
    <2> QED
        BY <2>1, <2>2
<1>3. now <= now' /\ now \in Int /\ now' \in Int
    <2>1. now \in Times
        BY DEF Typed, TypeOK
    <2>2. now' = now \/ now' = now + 1
        BY StepCases, GcDecides, UserReads, UpdateWrites
        DEF ReconcileStart, CreateManual, CreateScheduled, createRun, NotScheduled, InvalidSchedule,
            SkipTick, TakeTick, UpdateRefused, RunSteps, CollectRun, RunStarts, RunEnds, vars,
            Surroundings, ReconcileGone, ApiError, Restart, SyncSuite, SyncRuns, FireTimer, Tick
    <2> QED
        BY <2>1, <2>2 DEF Times
<1>4. pc # "idle" => rec.now \in Int /\ (pc = "create" => rec.tick \in Int)
    BY Names DEF Typed, TypeOK, RecOK, RecType, Times
\* What is left to show of a reconcile that goes on.
<1>5. SUFFICES ASSUME pc' # "idle"
               PROVE  /\ rec'.now <= now' /\ rec'.suite.trigger \in asked' \cup {None}
                      /\ RecordsMade' /\ (pc' = "create" => rec'.tick <= now')
    BY <1>1, <1>2 DEF Served
<1>6. CASE ReconcileStart
    <2>1. /\ rec'.suite = cache.suite /\ rec'.now = now /\ pc' = "gcSucceeded"
          /\ rec'.status = [cache.suite EXCEPT !.active = activeIn(cache.runs)]
        BY <1>6 DEF ReconcileStart
    <2>2. /\ rec'.status.lastManualTrigger = rec'.suite.lastManualTrigger
          /\ rec'.status.lastScheduleTime = rec'.suite.lastScheduleTime
        BY <2>1 DEF Typed, TypeOK, SuiteType
    <2>3. RecordsMade'
        BY <2>2 DEF RecordsMade
    <2> QED
        BY <1>1, <1>3, <1>6, <2>1, <2>3 DEF ReconcileStart, apiVars, Served
\* Steps that decide nothing about triggers and ticks.
<1>7. ASSUME pc # "idle", rec'.suite = rec.suite, rec'.now = rec.now,
             pc' = "create" => pc = "create" /\ rec'.tick = rec.tick,
             rec'.status.lastManualTrigger = rec.status.lastManualTrigger,
             rec'.status.lastScheduleTime = rec.status.lastScheduleTime
      PROVE  /\ rec'.now <= now' /\ rec'.suite.trigger \in asked' \cup {None}
             /\ RecordsMade' /\ (pc' = "create" => rec'.tick <= now')
    BY <1>1, <1>3, <1>4, <1>7, RecordsStay DEF Served
<1>8. CASE GcSucceeded \/ GcFailed
    <2>1. pc # "idle" /\ rec' = rec /\ pc' # "create"
        BY <1>5, <1>8, GcDecides DEF GcSucceeded, GcFailed
    <2> QED
        BY <1>7, <2>1
<1>9. CASE CreateManual
    <2>1. rec.suite.trigger \in RunNames /\ rec.suite.trigger \in Triggers /\ pc = "manual"
        BY <1>9, Names DEF CreateManual, Typed, RecOK
    <2> DEFINE st == [rec.status EXCEPT !.lastManualTrigger = rec.suite.trigger]
    <2>2. /\ st \in SuiteType /\ st.lastManualTrigger = rec.suite.trigger
          /\ st.lastScheduleTime = rec.status.lastScheduleTime
        BY <2>1 DEF Typed, RecOK, SuiteType
    <2>3. createRun(rec.suite.trigger, "schedule", st)
        BY <1>9 DEF CreateManual
    <2> HIDE DEF st
    <2>4. /\ pc' = "schedule" /\ KeepsReading
          /\ rec'.status.lastScheduleTime = rec.status.lastScheduleTime
          /\ rec'.status.lastManualTrigger = rec.suite.trigger
          /\ UNCHANGED <<now, asked>>
        BY <1>5, <2>1, <2>2, <2>3, CreateDecides
    <2>5. creations'[rec.suite.trigger] > 0
        BY <1>5, <2>1, <2>3, CreationMade
    <2>6. rec.status.lastScheduleTime = rec.suite.lastScheduleTime
        BY <2>1 DEF Reads, Decided
    <2>7. RecordsMade'
        BY <2>1, <2>4, <2>5, <2>6 DEF RecordsMade, Made, KeepsReading
    <2> QED
        BY <2>1, <2>4, <2>7 DEF KeepsReading, Served
<1>10. CASE CreateScheduled
    <2>1. rec.tick \in RunNames \ Triggers /\ rec.tick \in Times /\ pc = "create"
        BY <1>10, Names DEF CreateScheduled, Typed, RecOK
    <2> DEFINE st == [rec.status EXCEPT !.lastScheduleTime = rec.tick]
    <2>2. /\ st \in SuiteType /\ st.lastScheduleTime = rec.tick
          /\ st.lastManualTrigger = rec.status.lastManualTrigger
        BY <2>1 DEF Typed, RecOK, SuiteType
    <2>3. createRun(rec.tick, "update", st)
        BY <1>10 DEF CreateScheduled
    <2> HIDE DEF st
    <2>4. /\ pc' = "update" /\ KeepsReading
          /\ rec'.status.lastScheduleTime = rec.tick
          /\ rec'.status.lastManualTrigger = rec.status.lastManualTrigger
          /\ UNCHANGED <<now, asked>>
        BY <1>5, <2>1, <2>2, <2>3, CreateDecides
    <2>5. creations'[rec.tick] > 0
        BY <1>5, <2>1, <2>3, CreationMade
    <2>6. \A n : Made(n) => Made(n)'
        BY CreationsStay DEF Made
    <2>7. RecordsMade
        BY <2>1 DEF Served
    <2>8. RecordsMade'
        BY <2>1, <2>4, <2>5, <2>6, <2>7 DEF RecordsMade, Made, KeepsReading
    <2> QED
        BY <2>1, <2>4, <2>8 DEF KeepsReading, Served
<1>11. CASE NotScheduled
    <2>1. pc # "idle" /\ rec' = rec /\ pc' = "update"
        BY <1>11 DEF NotScheduled
    <2> QED
        BY <1>7, <2>1
<1>12. CASE InvalidSchedule
    BY <1>7, <1>12, InvalidDecides DEF InvalidSchedule, KeepsReading
<1>13. CASE SkipTick
    BY <1>7, <1>13, SkipDecides, NothingSkipped DEF SkipTick, KeepsReading
<1>14. CASE TakeTick
    <2>1. /\ pc = "schedule" /\ parses(rec.suite) /\ missedTick \notin {None, Zero}
        BY <1>14 DEF TakeTick, stale
    <2>2. /\ pc' = "create" /\ KeepsReading /\ rec'.tick = missedTick
          /\ rec'.status.lastScheduleTime = rec.status.lastScheduleTime
          /\ rec'.status.lastManualTrigger = rec.status.lastManualTrigger
          /\ UNCHANGED <<asked, now>>
        BY <1>5, <1>14, TakeDecides
    <2>3. /\ earliest \in Times /\ rec.now \in Times /\ rec.suite.schedule \in Schedules
        BY <2>1, MissedTickType
    <2>4. missedTick \in Times /\ missedTick <= rec.now
        BY <2>1, <2>3, MissedName DEF missedTick
    <2>5. RecordsMade'
        BY <2>1, <2>2, RecordsStay DEF Served, KeepsReading
    <2>6. rec.now <= now /\ rec.suite.trigger \in asked \cup {None}
        BY <2>1 DEF Served
    <2>7. rec'.tick <= now' /\ rec'.now <= now'
        BY <1>3, <2>2, <2>3, <2>4, <2>6 DEF Times, KeepsReading
    <2> QED
        BY <2>2, <2>5, <2>6, <2>7 DEF KeepsReading
<1>15. CASE UpdateStatus \/ UpdateRefused
    BY <1>5, <1>15, UpdateWrites DEF UpdateRefused, EndReconcile
<1>16. CASE Surroundings
    BY <1>5, <1>7, <1>16, SurroundingsReads
<1>17. CASE UserEdits
    BY <1>5, <1>7, <1>17, UserReads
<1>18. CASE RunSteps \/ UNCHANGED vars
    <2>1. UNCHANGED <<pc, rec>>
        BY <1>18 DEF RunSteps, CollectRun, RunStarts, RunEnds, ctlVars, vars
    <2> QED
        BY <1>5, <1>7, <2>1
<1> QED
    BY <1>6, <1>8, <1>9, <1>10, <1>11, <1>12, <1>13, <1>14, <1>15, <1>16, <1>17, <1>18, StepCases

LEMMA ServedInvariant == EveryTickServed => (Spec => [](MadeOnce /\ Served))
<1> SUFFICES ASSUME EveryTickServed PROVE Spec => [](MadeOnce /\ Served)
    OBVIOUS
<1>1. Typed /\ Reads /\ MadeOnce /\ [SuiteNext]_vars => MadeOnce'
    BY MadeOnceNext DEF EveryTickServed
<1>2. Typed /\ Reads /\ MadeOnce /\ Served /\ [SuiteNext]_vars => Served'
    BY ServedNext
<1> QED
    BY <1>1, <1>2, MadeOnceInit, ServedInit, ReadsInvariant, PTL DEF Spec

\* A user's edit asks, deletes, or is none of the promise's business.
LEMMA UserPromises ==
    ASSUME Typed, UserEdits
    PROVE  Promise!PromiseNext \/ UNCHANGED Promise!vars
<1>1. suite.exists /\ UNCHANGED <<now, creations>>
      /\ suite'.lastScheduleTime = suite.lastScheduleTime
      /\ suite'.lastManualTrigger = suite.lastManualTrigger
    BY UserWrites, UserReads
<1>2. suite' \in SuiteType
    BY UserTyped DEF Typed, TypeOK
<1>3. CASE ~suite'.exists
    <2>1. Promise!Delete
        BY <1>1, <1>3, UserWrites DEF Promise!Delete
    <2> QED
        BY <2>1 DEF Promise!PromiseNext
<1>4. CASE suite'.exists /\ suite'.trigger = suite.trigger /\ UNCHANGED asked
    BY <1>1, <1>4 DEF Promise!vars
<1>5. CASE suite'.exists /\ suite'.trigger \in Triggers /\ asked' = asked \cup {suite'.trigger}
    <2>1. Promise!Ask(suite'.trigger)
        BY <1>1, <1>5 DEF Promise!Ask
    <2> QED
        BY <1>5, <2>1 DEF Promise!PromiseNext
<1> QED
    BY <1>1, <1>2, <1>3, <1>4, <1>5, UserWrites DEF SuiteType

\* A creation makes a run that was promised, or finds it made.
LEMMA CreatePromises ==
    ASSUME Typed, MadeOnce, NEW name \in RunNames, NEW next, NEW status,
           createRun(name, next, status),
           IF name \in Triggers THEN name \in asked ELSE name <= now
    PROVE  Promise!PromiseNext \/ UNCHANGED Promise!vars
<1>1. UNCHANGED <<suite, asked, now>>
    BY DEF createRun
<1>2. creations \in [RunNames -> 0 .. 2]
    BY DEF Typed, TypeOK
<1>3. CASE UNCHANGED creations
    BY <1>1, <1>3 DEF Promise!vars
<1>4. CASE ~UNCHANGED creations
    <2>1. /\ runs[name].phase = "absent"
          /\ creations' = [creations EXCEPT ![name] = IF @ = 2 THEN 2 ELSE @ + 1]
        BY <1>4 DEF createRun, exists
    <2>2. creations[name] # 2
        BY <1>2, <1>4, <2>1
    <2>3. creations' = [creations EXCEPT ![name] = @ + 1]
        BY <1>2, <2>1, <2>2
    <2>4. ~suite.exists \/ creations[name] = 0
        BY <1>2, <2>1 DEF MadeOnce
    <2>5. Promise!Make(name)
        BY <1>1, <2>3, <2>4 DEF Promise!Make
    <2> QED
        BY <2>5 DEF Promise!PromiseNext
<1> QED
    BY <1>3, <1>4

\* A status update that lands records what was made.
LEMMA UpdatePromises ==
    ASSUME EveryTickServed, Typed, Reads, Served, UpdateStatus
    PROVE  Promise!PromiseNext
<1> DEFINE tick == rec.status.lastScheduleTime
           value == rec.status.lastManualTrigger
<1>1. /\ suite' = rec.status /\ suite = rec.suite /\ pc = "update"
      /\ UNCHANGED <<creations, asked, now>>
    BY UpdateWrites
<1>2. /\ suite.exists /\ SameSpec(suite', suite) /\ Forward(suite, tick) /\ RecordsMade
    BY <1>1 DEF Reads, Decided, Served
<1>3. /\ suite \in SuiteType /\ rec.status \in SuiteType /\ None \notin Times
    BY <1>1, NoneAssumption DEF Typed, TypeOK, RecOK, Times
<1>4. parses(suite) => fires(suite.schedule)
    BY <1>3 DEF EveryTickServed, parses, SuiteType
<1>5. /\ tick # suite.lastScheduleTime =>
           /\ tick \in RunNames \ Triggers /\ creations[tick] > 0
           /\ suite.lastScheduleTime # None => suite.lastScheduleTime < tick
      /\ value # suite.lastManualTrigger =>
           value \in Triggers /\ value = suite.trigger /\ creations[value] > 0
    BY <1>1, <1>2, <1>4 DEF RecordsMade, Made, Forward, Later
<1>6. Promise!Record(tick, value)
    BY <1>1, <1>2, <1>5 DEF Promise!Record, SameSpec
<1>7. tick \in (RunNames \ Triggers) \cup {suite.lastScheduleTime}
      /\ value \in Triggers \cup {suite.lastManualTrigger}
    BY <1>5
<1> QED
    BY <1>6, <1>7 DEF Promise!PromiseNext

\* The controller keeps the safety part of the promise (KeepsPromise but for
\* its fairness): a run is made for a tick that is due and for a value that was
\* asked for, once while the suite is there; only what was made is recorded,
\* and ticks in their order.
THEOREM PromiseSafely ==
    EveryTickServed => (Spec => Promise!Init /\ [][Promise!PromiseNext]_(Promise!vars))
<1> SUFFICES ASSUME EveryTickServed
             PROVE  Spec => Promise!Init /\ [][Promise!PromiseNext]_(Promise!vars)
    OBVIOUS
<1>1. Init => Promise!Init
    BY DEF Init, NewSuite, Promise!Init
<1>2. Typed /\ Reads /\ MadeOnce /\ Served /\ [SuiteNext]_vars
        => [Promise!PromiseNext]_(Promise!vars)
    <2> SUFFICES ASSUME Typed, Reads, MadeOnce, Served, [SuiteNext]_vars
                 PROVE  Promise!PromiseNext \/ UNCHANGED Promise!vars
        OBVIOUS
    <2>1. CASE CreateManual
        <3>1. rec.suite.trigger \in RunNames /\ rec.suite.trigger \in Triggers /\ pc = "manual"
            BY <2>1, Names DEF CreateManual, Typed, RecOK
        <3>2. rec.suite.trigger \in asked
            BY <3>1, TriggersAssumption DEF Served
        <3> QED
            BY <2>1, <3>1, <3>2, CreatePromises DEF CreateManual
    <2>2. CASE CreateScheduled
        <3>1. rec.tick \in RunNames \ Triggers /\ rec.tick <= now
            BY <2>2 DEF CreateScheduled, Typed, RecOK, Served
        <3> QED
            BY <2>2, <3>1, CreatePromises DEF CreateScheduled
    <2>3. CASE UpdateStatus
        BY <2>3, UpdatePromises
    <2>4. CASE UserEdits
        BY <2>4, UserPromises
    <2>5. CASE Tick
        BY <2>5 DEF Tick, apiVars, Promise!Tick, Promise!PromiseNext
    <2>6. CASE Surroundings /\ ~Tick
        <3>1. UNCHANGED <<suite, creations, asked>>
            BY <2>6, SurroundingsReads
        <3>2. UNCHANGED now
            BY <2>6 DEF Surroundings, ReconcileGone, ApiError, Restart, SyncSuite, SyncRuns, FireTimer
        <3> QED
            BY <3>1, <3>2 DEF Promise!vars
    <2>7. CASE GcSucceeded \/ GcFailed \/ TakeTick
        BY <2>7, GcDecides, TakeDecides DEF Promise!vars
    <2>8. CASE \/ ReconcileStart \/ NotScheduled \/ InvalidSchedule \/ SkipTick \/ UpdateRefused
               \/ RunSteps \/ UNCHANGED vars
        BY <2>8 DEF ReconcileStart, NotScheduled, InvalidSchedule, SkipTick, UpdateRefused, RunSteps,
           CollectRun, RunStarts, RunEnds, apiVars, vars, Promise!vars
    <2> QED
        BY <2>1, <2>2, <2>3, <2>4, <2>5, <2>6, <2>7, <2>8, StepCases
<1> QED
    BY <1>1, <1>2, ServedInvariant, ReadsInvariant, PTL DEF Spec
=============================================================================
