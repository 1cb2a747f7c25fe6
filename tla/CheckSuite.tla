----------------------------- MODULE CheckSuite -----------------------------
(***************************************************************************)
(* A CheckSuite and the controller that schedules its CheckRuns            *)
(* (internal/controller/checksuite_controller.go): one run per cron tick,  *)
(* one per run-now annotation value, a concurrency policy, history limits. *)
(*                                                                         *)
(* The reconciler reads the suite and its runs from informer caches,       *)
(* creates and deletes runs by name, and records what it did with one      *)
(* optimistically locked status update at its end.  The life of a run      *)
(* between its creation and its terminal phase is module CheckRun's.       *)
(***************************************************************************)
EXTENDS Schedule

CONSTANTS
    StartingDeadline, \* spec.startingDeadline
    Invalid,          \* an expression that does not parse
    Expressions,      \* values users give spec.schedule; None is no schedule
    Policies,         \* values users give spec.concurrencyPolicy
    SuccessfulLimit,  \* spec.historyLimit.successful
    FailedLimit,      \* spec.historyLimit.failed
    MaxActive,        \* most references status.active may hold (the schema says 32)
    Triggers,         \* values users give the run-now annotation
    SuiteMayGo,       \* do users delete the suite?
    Verdicts,         \* phases runs end in
    MaxEdits,         \* bound: how often users edit the suite
    MaxFaults,        \* bound: API errors, lost answers and restarts
    FreshReads        \* do the caches show every earlier write when a reconcile
                      \* starts?  The code does not ensure it; TRUE is an
                      \* assumption on the cluster.

ASSUME DeadlineAssumption == StartingDeadline \in Nat
ASSUME ExpressionsAssumption ==
    Invalid \notin Schedules \cup {None} /\ Expressions \subseteq Schedules \cup {Invalid, None}
ASSUME PoliciesAssumption == Policies \subseteq {"Allow", "Forbid", "Replace"} /\ Policies # {}
ASSUME LimitsAssumption == SuccessfulLimit \in Nat /\ FailedLimit \in Nat
ASSUME TriggersAssumption ==
    IsFiniteSet(Triggers) /\ None \notin Triggers /\ Triggers \cap Int = {}
ASSUME VerdictsAssumption == Verdicts \subseteq {"Succeeded", "Failed", "Error"}
ASSUME ActiveAssumption == MaxActive \in Nat \ {0, 1}
ASSUME SuiteMayGoAssumption == SuiteMayGo \in BOOLEAN
ASSUME BoundsAssumption == MaxEdits \in Nat /\ MaxFaults \in Nat
ASSUME FreshReadsAssumption == FreshReads \in BOOLEAN

Ticks == UNION {ticksOf(s) : s \in Schedules}

\* A scheduled run is named after its tick, a manual one after its trigger.
RunNames == {t \in Ticks : t <= MaxTime} \cup Triggers

VARIABLES
    suite,      \* API: the suite's annotation, spec and status, and is it there?
    runs,       \* API: name -> run
    creations,  \* name -> how many runs of that name were created, 2 being
                \* twice or more often (history)
    asked,      \* values the annotation has had (history)
    cache,      \* informer caches: suite and runs
    current,    \* is the cached suite the one in the API?
    pc,         \* where the reconciler is
    rec,        \* what this reconcile has read and decided
    queued,     \* is the suite in the work queue?
    timer,      \* when a RequeueAfter puts it there
    now,
    edits,
    faults

apiVars == <<suite, runs, creations, asked>>
ctlVars == <<cache, current, pc, rec, queued, timer>>
vars == <<apiVars, ctlVars, now, edits, faults>>

NoRun == [phase |-> "absent", created |-> None, start |-> None, owned |-> FALSE]

\* BUG: a run does not know its suite.
NewRunUnowned == [phase |-> "", created |-> now, start |-> None, owned |-> FALSE]

\* A run is created with its suite as its controller.
NewRun == [phase |-> "", created |-> now, start |-> None, owned |-> TRUE]

NoRuns == [n \in RunNames |-> NoRun]

NewSuite(schedule, policy, suspend) ==
    [exists |-> TRUE, trigger |-> None, schedule |-> schedule, policy |-> policy,
     suspend |-> suspend, lastScheduleTime |-> None, lastManualTrigger |-> None,
     active |-> {}, scheduleValid |-> None]

NoRec == [now |-> 0, suite |-> None, fresh |-> FALSE, runs |-> NoRuns,
          status |-> None, refs |-> 0, tick |-> None]

-----------------------------------------------------------------------------
(* Pure helpers.                                                           *)

\* The suite's own runs, by phase.
withPhase(rs, phases) == {n \in RunNames : rs[n].phase \in phases /\ rs[n].owned}
succeededIn(rs) == withPhase(rs, {"Succeeded"})
failedIn(rs) == withPhase(rs, {"Failed", "Error"})
activeIn(rs) == withPhase(rs, {"", "Running"})

runRecency(run) == IF run.start = None THEN run.created ELSE run.start

\* BUG: the newest runs go.
isExcessNewest(E, class, rs, limit) ==
    /\ Cardinality(E) = IF Cardinality(class) > limit THEN Cardinality(class) - limit ELSE 0
    /\ \A e \in E, k \in class \ E : runRecency(rs[e]) >= runRecency(rs[k])

\* Does gcRuns delete the runs E of a class?  The oldest beyond the limit, in
\* any order among runs of the same second.
isExcess(E, class, rs, limit) ==
    /\ Cardinality(E) = IF Cardinality(class) > limit THEN Cardinality(class) - limit ELSE 0
    /\ \A e \in E, k \in class \ E : runRecency(rs[e]) <= runRecency(rs[k])

deleteRuns(D) == runs' = [n \in RunNames |-> IF n \in D THEN NoRun ELSE runs[n]]

\* BUG: the time of the tick is taken for a delay.
requeueAtAsDelay(next, since) == now + next

\* BUG: the work queue is not asked to come back.
requeueNever(next, since) == timer

\* The timer after a RequeueAfter of next - since; the work queue keeps the
\* earliest, and a delay that is not positive sets none.  (A tick after MaxTime
\* is out of scope; a timer after it fires at MaxTime, the instant that stands
\* for every later one.)
requeueAt(next, since) ==
    LET due == now + next - since
        at == IF due > MaxTime THEN MaxTime ELSE due
    IN  IF next <= since \/ next > MaxTime \/ (timer # None /\ timer <= at) THEN timer ELSE at

-----------------------------------------------------------------------------
(* The reconciler, one action per API call.                                *)

EndReconcile(requeue) ==
    /\ pc' = "idle"
    /\ rec' = NoRec
    /\ queued' = (queued \/ requeue)

Fault ==
    /\ faults < MaxFaults
    /\ faults' = faults + 1
    /\ EndReconcile(TRUE)

\* The suite and its runs are read from the caches, and status.active is set.
ReconcileStart ==
    /\ pc = "idle" /\ queued /\ cache.suite.exists
    /\ FreshReads => current /\ cache.runs = runs
    /\ queued' = FALSE
    /\ pc' = "gcSucceeded"
    /\ rec' = [now |-> now, suite |-> cache.suite, fresh |-> current,
               runs |-> cache.runs,
               status |-> [cache.suite EXCEPT !.active = activeIn(cache.runs)],
               refs |-> Cardinality(activeIn(cache.runs)), tick |-> None]
    /\ UNCHANGED <<apiVars, cache, current, timer, now, edits, faults>>

\* The suite is gone: only its metrics are dropped.
ReconcileGone ==
    /\ pc = "idle" /\ queued /\ ~cache.suite.exists
    /\ queued' = FALSE
    /\ UNCHANGED <<apiVars, cache, current, pc, rec, timer, now, edits, faults>>

\* gcRuns: deletions by name, one after the other; one may fail.
gcRuns(class, limit, next) ==
    /\ \E E \in SUBSET class :
         /\ isExcess(E, class, rec.runs, limit)
         /\ \/ deleteRuns(E) /\ pc' = next /\ UNCHANGED <<rec, queued, faults>>
            \/ \E D \in SUBSET E : deleteRuns(D) /\ Fault
    /\ UNCHANGED <<suite, creations, asked, cache, current, timer, now, edits>>

\* BUG: a suspended suite ignores its trigger.
triggerPendingUnlessSuspended ==
    /\ rec.suite.trigger # None /\ rec.suite.trigger # rec.suite.lastManualTrigger
    /\ ~rec.suite.suspend

\* Manual triggers fire even while suspended.
triggerPending ==
    rec.suite.trigger # None /\ rec.suite.trigger # rec.suite.lastManualTrigger

GcSucceeded ==
    /\ pc = "gcSucceeded"
    /\ gcRuns(succeededIn(rec.runs), SuccessfulLimit, "gcFailed")

GcFailed ==
    /\ pc = "gcFailed"
    /\ gcRuns(failedIn(rec.runs), FailedLimit,
              IF triggerPending THEN "manual" ELSE "schedule")

\* BUG: the cache is asked before a run is created, not the API server.
existsInCache(name) == cache.runs[name].phase # "absent"

exists(name) == runs[name].phase # "absent"

\* createRun.  A run of that name that exists is reused, once the cache shows
\* it; until then the reconcile fails and is tried again.
createRun(name, next, status) ==
    /\ IF exists(name) THEN UNCHANGED <<runs, creations>>
       ELSE /\ runs' = [runs EXCEPT ![name] = NewRun]
            /\ creations' = [creations EXCEPT ![name] = IF @ = 2 THEN 2 ELSE @ + 1]
    /\ \/ /\ ~exists(name) \/ cache.runs[name].phase # "absent"
          /\ pc' = next
          /\ rec' = [rec EXCEPT !.status = [status EXCEPT !.active = @ \cup {name}],
                                !.refs = @ + 1]
          /\ UNCHANGED <<queued, faults>>
       \/ /\ exists(name) /\ cache.runs[name].phase = "absent"
          /\ EndReconcile(TRUE)
          /\ UNCHANGED faults
       \/ Fault
    /\ UNCHANGED <<suite, asked, cache, current, timer, now, edits>>

\* The run-now annotation has a value that is not the last one handled.
CreateManual ==
    /\ pc = "manual"
    /\ createRun(rec.suite.trigger, "schedule",
                 [rec.status EXCEPT !.lastManualTrigger = rec.suite.trigger])

\* Is the suite one whose schedule is followed at all?
scheduled(st) == ~st.suspend /\ st.schedule # None

parses(st) == st.schedule \in Schedules

\* BUG: the scan starts at the zero time, whatever was handled before.
earliestZero == 0

\* Nothing has changed the time in the copy of the status before the scan.
earliest ==
    IF rec.suite.lastScheduleTime = None THEN 0 ELSE rec.suite.lastScheduleTime

missedTick == lastMissed(rec.suite.schedule, earliest, rec.now)

\* Every starting deadline has passed since the zero time.
stale ==
    /\ missedTick # None
    /\ missedTick = Zero \/ rec.now - missedTick > StartingDeadline

\* BUG: whatever the policy, a run that is active stands in the way.
forbiddenAlways == activeIn(rec.runs) # {}

\* BUG: the policy is not looked at.
forbiddenNever == FALSE

forbidden == rec.suite.policy = "Forbid" /\ activeIn(rec.runs) # {}

\* Suspended, or without a schedule: the condition on the schedule stays as it
\* is.
NotScheduled ==
    /\ pc = "schedule" /\ ~scheduled(rec.suite)
    /\ pc' = "update"
    /\ UNCHANGED <<apiVars, cache, current, rec, queued, timer, now, edits, faults>>

\* BUG: the condition is set and never written.
InvalidScheduleUnwritten ==
    /\ pc = "schedule" /\ scheduled(rec.suite) /\ ~parses(rec.suite)
    /\ EndReconcile(FALSE)
    /\ UNCHANGED <<apiVars, cache, current, timer, now, edits, faults>>

\* The expression does not parse: the condition says so.
InvalidSchedule ==
    /\ pc = "schedule" /\ scheduled(rec.suite) /\ ~parses(rec.suite)
    /\ rec' = [rec EXCEPT !.status.scheduleValid = FALSE]
    /\ pc' = "update"
    /\ UNCHANGED <<apiVars, cache, current, queued, timer, now, edits, faults>>

\* metav1.Time turns the zero time into null, and the API server a null into
\* an unset field.
marshalled(t) == IF t = Zero THEN None ELSE t

\* No missed tick, or one that is only recorded as handled.
SkipTick ==
    /\ pc = "schedule" /\ scheduled(rec.suite) /\ parses(rec.suite)
    /\ missedTick = None \/ stale \/ forbidden
    /\ rec' = [rec EXCEPT !.status.scheduleValid = TRUE,
                          !.status.lastScheduleTime =
                              IF missedTick = None THEN @ ELSE marshalled(missedTick)]
    /\ pc' = "update"
    /\ UNCHANGED <<apiVars, cache, current, queued, timer, now, edits, faults>>

\* BUG: Replace leaves the active runs alone.
replacedNone == {}

\* The runs that a due tick replaces.
replaced == IF rec.suite.policy = "Replace" THEN activeIn(rec.runs) ELSE {}

\* A missed tick is due.  Replace deletes the runs that were active, by name.
TakeTick ==
    /\ pc = "schedule" /\ scheduled(rec.suite) /\ parses(rec.suite)
    /\ missedTick # None /\ ~stale /\ ~forbidden
    /\ \/ /\ deleteRuns(replaced)
          /\ pc' = "create"
          /\ rec' = [rec EXCEPT !.tick = missedTick, !.status.scheduleValid = TRUE]
          /\ UNCHANGED <<queued, faults>>
       \/ \E D \in SUBSET replaced : deleteRuns(D) /\ Fault
    /\ UNCHANGED <<suite, creations, asked, cache, current, timer, now, edits>>

CreateScheduled ==
    /\ pc = "create"
    /\ createRun(rec.tick, "update",
                 [rec.status EXCEPT !.lastScheduleTime = rec.tick])

\* BUG: the update is not locked by the resourceVersion that was read.
writeStatusUnlocked ==
    /\ suite' = [suite EXCEPT !.lastScheduleTime = rec.status.lastScheduleTime,
                              !.lastManualTrigger = rec.status.lastManualTrigger,
                              !.active = rec.status.active]
    /\ current' = (current /\ suite' = suite)

\* The update lands only on the version of the suite that was read, and only
\* if its list of references is not too long.
writeStatus ==
    /\ rec.fresh /\ rec.refs <= MaxActive
    /\ suite' = rec.status
    /\ current' = (current /\ suite' = suite)

\* updateStatus lands, and the next tick is waited for.
UpdateStatus ==
    /\ pc = "update"
    /\ writeStatus
    /\ \/ /\ EndReconcile(FALSE)
          /\ timer' = IF scheduled(rec.suite) /\ parses(rec.suite)
                      THEN requeueAt(nextTick(rec.suite.schedule, earliest, rec.now), rec.now)
                      ELSE timer
          /\ UNCHANGED faults
       \/ Fault /\ UNCHANGED timer
    /\ UNCHANGED <<runs, creations, asked, cache, now, edits>>

\* The update conflicts with a write after the version that was read, or the
\* API server refuses it as invalid.
UpdateRefused ==
    /\ pc = "update"
    /\ ~rec.fresh \/ rec.refs > MaxActive
    /\ EndReconcile(TRUE)
    /\ UNCHANGED <<apiVars, cache, current, timer, now, edits, faults>>

\* A call fails without effect.
ApiError ==
    /\ pc \in {"manual", "create", "update"}
    /\ Fault
    /\ UNCHANGED <<apiVars, cache, current, timer, now, edits>>

\* The manager dies and another one starts: the timer is gone, the caches are
\* filled again (from what may still be an old list), every suite is queued.
Restart ==
    /\ faults < MaxFaults
    /\ faults' = faults + 1
    /\ pc' = "idle" /\ rec' = NoRec /\ queued' = TRUE /\ timer' = None
    /\ \/ UNCHANGED <<cache, current>>
       \/ cache' = [suite |-> suite, runs |-> runs] /\ current' = TRUE
    /\ UNCHANGED <<apiVars, now, edits>>

-----------------------------------------------------------------------------
(* Watches, timers, the clock, users, and the runs.                        *)

SyncSuite ==
    /\ ~current
    /\ cache' = [cache EXCEPT !.suite = suite]
    /\ current' = TRUE
    /\ queued' = TRUE
    /\ UNCHANGED <<apiVars, pc, rec, timer, now, edits, faults>>

\* BUG: the controller does not watch the runs it owns.
SyncRunsUnwatched ==
    /\ cache.runs # runs
    /\ cache' = [cache EXCEPT !.runs = runs]
    /\ UNCHANGED <<apiVars, current, pc, rec, queued, timer, now, edits, faults>>

SyncRuns ==
    /\ cache.runs # runs
    /\ cache' = [cache EXCEPT !.runs = runs]
    /\ queued' = TRUE
    /\ UNCHANGED <<apiVars, current, pc, rec, timer, now, edits, faults>>

FireTimer ==
    /\ timer # None /\ now >= timer
    /\ timer' = None /\ queued' = TRUE
    /\ UNCHANGED <<apiVars, cache, current, pc, rec, now, edits, faults>>

Tick ==
    /\ now < MaxTime
    /\ now' = now + 1
    /\ UNCHANGED <<apiVars, ctlVars, edits, faults>>

\* A user edits the suite; a reconcile that has read it will conflict.
Write(field, value) ==
    /\ edits < MaxEdits
    /\ edits' = edits + 1
    /\ suite.exists /\ suite[field] # value
    /\ suite' = [suite EXCEPT ![field] = value]
    /\ current' = FALSE
    /\ rec' = IF pc = "idle" THEN rec ELSE [rec EXCEPT !.fresh = FALSE]
    /\ UNCHANGED <<runs, creations, cache, pc, queued, timer, now, faults>>

Edit(field, value) == Write(field, value) /\ UNCHANGED asked

RunNow(v) == Write("trigger", v) /\ asked' = asked \cup {v}
SetSchedule(x) == Edit("schedule", x)
SetPolicy(p) == Edit("policy", p)
Suspend == Edit("suspend", ~suite.suspend)
DeleteSuite == SuiteMayGo /\ Edit("exists", FALSE)

\* The garbage collector takes the runs of a suite that is gone.
CollectRun(n) ==
    /\ ~suite.exists /\ runs[n].phase # "absent" /\ runs[n].owned
    /\ deleteRuns({n})
    /\ UNCHANGED <<suite, creations, asked, ctlVars, now, edits, faults>>

\* The CheckRun controller starts a run ...
RunStarts(n) ==
    /\ runs[n].phase = ""
    /\ runs' = [runs EXCEPT ![n].phase = "Running", ![n].start = now]
    /\ UNCHANGED <<suite, creations, asked, ctlVars, now, edits, faults>>

\* ... and ends it, which also records a start that was not recorded yet.
RunEnds(n) ==
    /\ runs[n].phase \in {"", "Running"}
    /\ \E phase \in Verdicts :
         runs' = [runs EXCEPT ![n].phase = phase,
                              ![n].start = IF @ = None THEN now ELSE @]
    /\ UNCHANGED <<suite, creations, asked, ctlVars, now, edits, faults>>

-----------------------------------------------------------------------------
Init ==
    /\ \E x \in Expressions, p \in Policies, suspended \in BOOLEAN :
         suite = NewSuite(x, p, suspended)
    /\ runs = NoRuns
    /\ creations = [n \in RunNames |-> 0] /\ asked = {}
    /\ cache = [suite |-> suite, runs |-> NoRuns]
    /\ current = TRUE
    /\ pc = "idle" /\ rec = NoRec
    /\ queued = TRUE /\ timer = None
    /\ now = 0 /\ edits = 0 /\ faults = 0

Reconcile ==
    \/ ReconcileStart
    \/ ReconcileGone
    \/ GcSucceeded
    \/ GcFailed
    \/ CreateManual
    \/ NotScheduled
    \/ InvalidSchedule
    \/ SkipTick
    \/ TakeTick
    \/ CreateScheduled
    \/ UpdateStatus
    \/ UpdateRefused

SuiteNext ==
    \/ Reconcile
    \/ ApiError
    \/ Restart
    \/ SyncSuite
    \/ SyncRuns
    \/ FireTimer
    \/ Tick
    \/ \E v \in Triggers : RunNow(v)
    \/ \E x \in Expressions : SetSchedule(x)
    \/ \E p \in Policies : SetPolicy(p)
    \/ Suspend
    \/ DeleteSuite
    \/ \E n \in RunNames : CollectRun(n)
    \/ \E n \in RunNames : RunStarts(n)
    \/ \E n \in RunNames : RunEnds(n)

Spec == Init /\ [][SuiteNext]_vars

\* The manager's goroutines run, its watches deliver, its timers fire and time
\* passes.  A run ends, by its deadline at the latest (module CheckRun), and
\* the garbage collector does its work.  Nothing is asked of users.
FairSpec ==
    /\ Spec
    /\ WF_vars(Reconcile)
    /\ WF_vars(SyncSuite)
    /\ WF_vars(SyncRuns)
    /\ WF_vars(FireTimer)
    /\ WF_vars(Tick)
    /\ \A n \in RunNames : WF_vars(RunEnds(n)) /\ WF_vars(CollectRun(n))

-----------------------------------------------------------------------------
(* Correctness.                                                            *)

RunType ==
    [phase: {"absent", "", "Running", "Succeeded", "Failed", "Error"},
     created: Times \cup {None}, start: Times \cup {None}, owned: BOOLEAN]
SuiteType ==
    [exists: BOOLEAN, trigger: Triggers \cup {None}, schedule: Expressions,
     policy: Policies, suspend: BOOLEAN, lastScheduleTime: Times \cup {None},
     lastManualTrigger: Triggers \cup {None}, active: SUBSET RunNames,
     scheduleValid: BOOLEAN \cup {None}]
RecType ==
    [now: Times, suite: SuiteType \cup {None}, fresh: BOOLEAN, runs: [RunNames -> RunType],
     status: SuiteType \cup {None}, refs: Nat, tick: Times \cup {None}]

\* Type invariant.
TypeOK ==
    /\ suite \in SuiteType
    /\ runs \in [RunNames -> RunType]
    /\ creations \in [RunNames -> 0 .. 2] /\ asked \subseteq Triggers
    /\ cache \in [suite: SuiteType, runs: [RunNames -> RunType]]
    /\ current \in BOOLEAN
    /\ pc \in {"idle", "gcSucceeded", "gcFailed", "manual", "schedule", "create", "update"}
    /\ rec \in RecType
    /\ queued \in BOOLEAN
    /\ timer \in Times \cup {None}
    /\ now \in Times /\ edits \in 0 .. MaxEdits /\ faults \in 0 .. MaxFaults

\* The last handled tick never goes back, whatever stale copy a reconcile
\* worked on and however users change the schedule: a tick that was handled is
\* not handled again.  (Only a schedule that never fires makes the suite forget
\* it: the zero time is recorded, which is no time at all.)
LastScheduleMonotone ==
    [][suite.lastScheduleTime # None =>
         \/ /\ suite'.lastScheduleTime # None
            /\ suite'.lastScheduleTime >= suite.lastScheduleTime
         \/ /\ suite'.lastScheduleTime = None
            /\ parses(suite) /\ ~fires(suite.schedule)]_vars

\* A suite that is there has run a tick at most once: reconciles of the same
\* tick that are repeated after a conflict, a crash or a stale read find the run
\* by its name.
TickRunsOnce == suite.exists => \A t \in RunNames \ Triggers : creations[t] <= 1

\* A run of a class goes only while at least limit others of the class, none of
\* them older, stay.
keepsNewest(class, limit) ==
    \A n \in class : runs'[n].phase = "absent" =>
        Cardinality({k \in class : /\ runs'[k].phase # "absent"
                                   /\ runRecency(runs[k]) >= runRecency(runs[n])}) >= limit

\* While the suite is there, garbage collection takes finished runs only, and
\* never one of the newest that the history limits promise to keep; nothing but
\* Replace deletes a run that is active.
GcKeepsNewest ==
    [][suite.exists =>
         /\ pc \in {"gcSucceeded", "gcFailed"} =>
              /\ keepsNewest(succeededIn(runs), SuccessfulLimit)
              /\ keepsNewest(failedIn(runs), FailedLimit)
         /\ (\E n \in activeIn(runs) : runs'[n].phase = "absent")
              => pc = "schedule" /\ rec.suite.policy = "Replace"]_vars

\* The manual run of a reconcile that has one to make.
ownManual == IF triggerPending THEN {rec.suite.trigger} ELSE {}

\* Is a run of this name created?
created(name) == runs[name].phase = "absent" /\ runs'[name].phase # "absent"

\* Under the Forbid or Replace that the reconcile has read, a scheduled run is
\* created only when no other run is active, but for the manual run of the same
\* reconcile, although users change the policy and runs start and end meanwhile.
ScheduledAlone ==
    [][(\E t \in RunNames \ Triggers : created(t))
         => rec.suite.policy = "Allow" \/ activeIn(runs) \subseteq ownManual]_vars

\* A tick that the suite has recorded as handled is never run again, although its
\* run may be gone, deleted by garbage collection or by Replace: a scheduled run is
\* created only for a tick that is later than the last one handled.
HandledTicksRest ==
    [][\A t \in RunNames \ Triggers :
         created(t) => suite.lastScheduleTime = None \/ suite.lastScheduleTime < t]_vars

\* The last tick there is gets handled, unless the suite stays suspended or
\* without a schedule that fires: no tick after the last one handled is left.
TicksHandled ==
    <>[](\/ ~suite.exists \/ ~scheduled(suite) \/ ~parses(suite)
         \/ LET handled == IF suite.lastScheduleTime = None THEN 0
                           ELSE suite.lastScheduleTime
            IN  missedTicks(suite.schedule, handled, MaxTime) = {})

\* status.active ends up naming exactly the runs that have not finished.
ActiveBecomesExact == <>[](suite.exists => suite.active = activeIn(runs))

\* The condition ends up telling whether the schedule parses, whichever
\* schedules came before.
ConditionBecomesTrue ==
    <>[](suite.exists /\ scheduled(suite) => suite.scheduleValid = parses(suite))

\* A suite that is deleted takes its runs with it, a run that a reconcile
\* creates after the deletion included.
NothingLeft == <>[](~suite.exists => \A n \in RunNames : runs[n].phase = "absent")

Promise == INSTANCE SuitePromise WITH
    gone <- ~suite.exists,
    trigger <- suite.trigger,
    lastScheduleTime <- suite.lastScheduleTime,
    lastManualTrigger <- suite.lastManualTrigger

\* The controller, with its caches, conflicts, retries and restarts, keeps the
\* promise of module SuitePromise.
KeepsPromise == Promise!Spec
=============================================================================
