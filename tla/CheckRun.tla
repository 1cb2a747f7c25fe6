------------------------------ MODULE CheckRun ------------------------------
(***************************************************************************)
(* One CheckRun and the controller that drives it to a terminal phase      *)
(* (internal/controller/checkrun_controller.go): the reconciler creates    *)
(* one Job per runner, runner pods report their results into               *)
(* status.runners[] by themselves, and the reconciler aggregates them into *)
(* a verdict or gives up at the run's deadline.                            *)
(*                                                                         *)
(* The reconciler reads the CheckRun and its Jobs from an informer cache   *)
(* that lags the API server; each API call it makes is a step of its own,  *)
(* which may fail, or land and have its answer lost; the manager process   *)
(* may be restarted between any two steps.  Jobs and pods are Kubernetes'  *)
(* own controllers, modelled from what buildJob asks of them.              *)
(*                                                                         *)
(* The reconciler takes the time as exactly as the clock shows it;         *)
(* metav1.Time, in which times are stored, keeps whole seconds only.       *)
(***************************************************************************)
EXTENDS Integers, FiniteSets

CONSTANTS
    NumRunners,     \* spec.suite.runners is a list; runners are 1 .. NumRunners
    Checks,         \* names in spec.suite.checks
    RestrictedTo,   \* check -> its runners field; {} means every runner
    Replicas,       \* runner -> replicas
    Pods,           \* pods Kubernetes may create
    RunnerOf,       \* pod -> the runner whose Job creates it
    Timeout,        \* spec.suite.timeout
    Second,         \* a second, in ticks of the clock
    Whole,          \* time -> the time in whole seconds
    BackoffLimit,   \* of the runner Jobs (the code says 2)
    MaxStart,       \* bound: the latest time at which the run is started
    MaxTime,        \* bound: the clock stops here ("this instant or later")
    MaxFaults,      \* bound: API errors, lost answers, restarts, ServiceAccount
                    \* changes
    ReadYourWrites, \* does the cache show the controller's own last status
                    \* write before the next reconcile?  The code does not
                    \* ensure it; TRUE is an assumption on the cluster.
    SuiteMayGo,     \* may users delete the suite, and the run outlive it?
    RunMayGo,       \* may users, or the suite's controller, delete the run?
    Clashing,       \* runners whose Job name another run's Job may have
    Refusable,      \* runners whose Job the API server may refuse for good
    None

Runners == 1 .. NumRunners
Times == 0 .. MaxTime

ASSUME RunnersAssumption == NumRunners \in Nat \ {0}
ASSUME ChecksAssumption == IsFiniteSet(Checks) /\ Checks # {}
ASSUME RestrictedToAssumption == RestrictedTo \in [Checks -> SUBSET Runners]
ASSUME ReplicasAssumption == Replicas \in [Runners -> Nat \ {0}]
ASSUME PodsAssumption == IsFiniteSet(Pods) /\ RunnerOf \in [Pods -> Runners]
ASSUME TimeAssumption ==
    /\ Timeout \in Nat \ {0} /\ Second \in Nat \ {0}
    /\ MaxStart \in Nat
    /\ MaxTime \in Nat
    /\ MaxTime > MaxStart + Timeout
\* Fractions of a second are dropped.
ASSUME WholeAssumption ==
    /\ Whole \in [Times -> Times]
    /\ \A t \in Times : Whole[t] <= t
    /\ \A t, u \in Times : t <= u => Whole[t] <= Whole[u]
ASSUME BoundsAssumption == BackoffLimit \in Nat /\ MaxFaults \in Nat
ASSUME FlagsAssumption ==
    /\ ReadYourWrites \in BOOLEAN /\ SuiteMayGo \in BOOLEAN /\ RunMayGo \in BOOLEAN
    /\ Clashing \subseteq Runners /\ Refusable \subseteq Runners

VARIABLES
    present,    \* API: does the run exist?  The values below are its last ones
    status,     \* API: the controller-owned fields of the run's status
    reported,   \* API: pods with an entry under status.runners[]
    passed,     \* API: the checks a pod's entry reports as passed
    sa,         \* API: does the runner ServiceAccount exist?
    jobs,       \* API: runner -> condition of its Job
    jobStart,   \* runner -> when its Job was created
    foreign,    \* runners whose Job name another run, which stays, had first
    refused,    \* runners whose Job a quota or a policy does not let in
    pod,        \* pod -> what became of it
    cache,      \* the manager's informer caches: the run and its Jobs
    pc,         \* where the reconciler is
    rec,        \* what this reconcile has read, and the phase it finishes with
    queued,     \* is the run in the work queue?
    timer,      \* when a RequeueAfter puts it there
    runsTotal,  \* verikube_checkruns_total, per phase
    gauge,      \* the suite's gauges: verikube_check_last_result and with it
                \* verikube_checkrun_last_completion_timestamp_seconds
    suite,      \* the run's suite, which both controllers read from one cache
    now,
    faults

fixed == <<foreign, refused>>
apiVars == <<present, status, reported, passed, sa, jobs, jobStart, fixed>>
ctlVars == <<cache, pc, rec, queued, timer, runsTotal, gauge, suite>>
envVars == <<pod, now, faults>>
vars == <<apiVars, ctlVars, envVars>>

-----------------------------------------------------------------------------
(* The API types (api/v1alpha1/checkrun_types.go).                         *)

TerminalPhases == {"Succeeded", "Failed", "Error"}
Phases == {"", "Running"} \cup TerminalPhases
ConditionTypes == {"Completed", "DeadlineExceeded", "RunnerServiceAccountMissing"}
Reasons == TerminalPhases \cup {"RunnerError", "Timeout", "ServiceAccountNotFound"}
RunSummary == [total: Nat, passed: Nat, failed: Nat]

\* An unset field is none of the values it may be set to.
ASSUME NoneAssumption == None \notin Nat \cup ConditionTypes \cup Reasons \cup RunSummary

CheckRunStatus ==
    [phase: Phases,
     startTime: Times \cup {None},
     completionTime: Times \cup {None},
     summary: RunSummary \cup {None},
     conditions: [ConditionTypes -> Reasons \cup {None}]]

NoConditions == [c \in ConditionTypes |-> None]
NewStatus ==
    [phase |-> "", startTime |-> None, completionTime |-> None,
     summary |-> None, conditions |-> NoConditions]

JobStates == {"absent", "active", "complete", "failed"}
NoJobs == [r \in Runners |-> "absent"]

-----------------------------------------------------------------------------
(* Pure helpers of the reconciler.                                         *)

\* BUG: Error is not treated as terminal.
isTerminalPhaseForgetsError(phase) == phase \in {"Succeeded", "Failed"}

isTerminalPhase(phase) == phase \in TerminalPhases

\* BUG: a Job without a Complete condition counts as failed.
jobFailedUnlessComplete(job) == job # "complete"

jobFailed(job) == job = "failed"

\* BUG: a Job that is still running counts as done.
jobSucceededUnlessFailed(job) == ~jobFailed(job)

jobSucceeded(job) == job = "complete"

\* The checks a runner executes.
FilterChecks(r) == {c \in Checks : RestrictedTo[c] = {} \/ r \in RestrictedTo[c]}

podsOf(r, entries) == {p \in entries : RunnerOf[p] = r}

\* Every runner has at least as many entries as replicas.
complete(entries) ==
    \A r \in Runners : Cardinality(podsOf(r, entries)) >= Replicas[r]

\* The (runner, check) definitions that the summary counts.
definitions == {d \in Runners \X Checks : d[2] \in FilterChecks(d[1])}

\* The definitions that some entry of the runner did not pass.
failing(entries) ==
    {d \in definitions : \E p \in podsOf(d[1], entries) : d[2] \notin passed[p]}

\* BUG: every definition is counted as passed.
aggregateCountsAll(entries) ==
    [total |-> Cardinality(definitions),
     passed |-> Cardinality(definitions),
     failed |-> Cardinality(failing(entries))]

aggregate(entries) ==
    [total |-> Cardinality(definitions),
     passed |-> Cardinality(definitions \ failing(entries)),
     failed |-> Cardinality(failing(entries))]

SetStatusCondition(conditions, type, reason) ==
    [conditions EXCEPT ![type] = reason]

-----------------------------------------------------------------------------
(* The reconcile in progress.                                              *)

NoRec ==
    [now |-> 0, status |-> NewStatus, reported |-> {},
     jobs |-> [r \in Runners |-> "unread"], phase |-> ""]

\* BUG: every reconcile starts the run's clock again.
startTimeAlwaysNow == rec.now

startTime == IF rec.status.startTime = None THEN rec.now ELSE rec.status.startTime

\* The start as it is stored; one that was read has been stored before.
recordedStart == IF rec.status.startTime = None THEN Whole[startTime] ELSE startTime

\* BUG: Jobs that have succeeded come before the deadline.
deadlineUnlessSucceeded ==
    /\ rec.now > startTime + Timeout
    /\ \E r \in Runners : ~jobSucceeded(rec.jobs[r])

deadlineExceeded == rec.now > startTime + Timeout

\* BUG: the operands are swapped.
untilDeadlineSwapped == rec.now - (startTime + Timeout)

\* BUG: without the extra second.
untilDeadlineExactly == startTime + Timeout - rec.now

\* The RequeueAfter of a run that is still running.
untilDeadline == startTime + Timeout - rec.now + Second

\* The timer after a RequeueAfter of d: the work queue keeps the earliest of
\* the delays it holds for a key, and a RequeueAfter of zero asks for nothing.
requeueAfter(d) ==
    LET at == IF now + d > MaxTime THEN MaxTime ELSE now + d
    IN  IF d = 0 \/ (timer # None /\ timer <= at) THEN timer ELSE at

\* BUG: the whole status is written back from the cache, entries included.
applyStatusWhole(phase, completionTime, summary, conditions) ==
    /\ present
    /\ status' = [phase |-> phase, startTime |-> recordedStart,
                  completionTime |-> completionTime, summary |-> summary,
                  conditions |-> conditions]
    /\ reported' = rec.reported

\* A server-side apply of every field the controller owns, and of no entry.
\* An apply to the status of a run that is gone creates nothing.
applyStatus(phase, completionTime, summary, conditions) ==
    /\ present
    /\ status' = [phase |-> phase, startTime |-> recordedStart,
                  completionTime |-> completionTime, summary |-> summary,
                  conditions |-> conditions]
    /\ UNCHANGED reported

\* The reconcile ends, with the key in the queue again or not.
EndReconcile(requeue) ==
    /\ pc' = "idle"
    /\ rec' = NoRec
    /\ queued' = (queued \/ requeue)

\* The reconcile ends with an error that the API server or the network made.
Fault ==
    /\ faults < MaxFaults
    /\ faults' = faults + 1
    /\ EndReconcile(TRUE)

\* BUG: the caller's condition comes after Completed, and may replace it.
finishConditionsSwapped(phase, type, reason) ==
    IF type = None THEN SetStatusCondition(rec.status.conditions, "Completed", phase)
    ELSE SetStatusCondition(
             SetStatusCondition(rec.status.conditions, "Completed", phase), type, reason)

\* The conditions finish() applies: what this reconcile read, the caller's
\* condition if it gives one (type # None), then Completed with the phase.
finishConditions(phase, type, reason) ==
    SetStatusCondition(
        IF type = None THEN rec.status.conditions
        ELSE SetStatusCondition(rec.status.conditions, type, reason),
        "Completed", phase)

\* finish() up to the answer to its status write.  The write lands; then the
\* metrics are next, unless the answer is lost.
finish(phase, summary, type, reason) ==
    /\ applyStatus(phase, Whole[rec.now], summary, finishConditions(phase, type, reason))
    /\ \/ pc' = "metrics" /\ rec' = [rec EXCEPT !.phase = phase]
          /\ UNCHANGED <<queued, faults>>
       \/ Fault
    /\ UNCHANGED <<present, passed, sa, jobs, jobStart, fixed, pod, cache, timer, runsTotal,
                   gauge, suite, now>>

-----------------------------------------------------------------------------
(* Reconcile, one action per API call.                                     *)

\* The cache has dropped the run: there is nothing to do.
ReconcileGone ==
    /\ pc = "idle" /\ queued
    /\ ~cache.present
    /\ queued' = FALSE
    /\ UNCHANGED <<apiVars, envVars, cache, pc, rec, timer, runsTotal, gauge, suite>>

\* A run that the cache shows in a terminal phase is left alone.
IgnoreTerminal ==
    /\ pc = "idle" /\ queued /\ cache.present
    /\ ReadYourWrites => cache.status = status
    /\ isTerminalPhase(cache.status.phase)
    /\ queued' = FALSE
    /\ UNCHANGED <<apiVars, envVars, cache, pc, rec, timer, runsTotal, gauge, suite>>

\* The run is read from the cache and the time is taken.
ReconcileStart ==
    /\ pc = "idle" /\ queued /\ cache.present
    /\ ReadYourWrites => cache.status = status
    /\ ~isTerminalPhase(cache.status.phase)
    /\ queued' = FALSE
    /\ rec' = [NoRec EXCEPT !.now = now, !.status = cache.status,
                            !.reported = cache.reported]
    /\ pc' = IF cache.status.startTime = None THEN "serviceAccount" ELSE "jobs"
    /\ UNCHANGED <<apiVars, envVars, cache, timer, runsTotal, gauge, suite>>

\* The ServiceAccount is read from the API server: it is not cached.
GetServiceAccount ==
    /\ pc = "serviceAccount"
    /\ pc' = IF sa THEN "jobs" ELSE "serviceAccountMissing"
    /\ UNCHANGED <<apiVars, envVars, cache, rec, queued, timer, runsTotal, gauge, suite>>

FinishServiceAccountMissing ==
    /\ pc = "serviceAccountMissing"
    /\ finish("Error", None, "RunnerServiceAccountMissing", "ServiceAccountNotFound")

NextRunner(r) ==
    /\ pc = "jobs"
    /\ rec.jobs[r] = "unread"
    /\ \A q \in 1 .. (r - 1) : rec.jobs[q] # "unread"

\* The Job is in the cache.
GetJob(r) ==
    /\ NextRunner(r)
    /\ cache.jobs[r] # "absent"
    /\ rec' = [rec EXCEPT !.jobs[r] = cache.jobs[r]]
    /\ UNCHANGED <<apiVars, envVars, cache, pc, queued, timer, runsTotal, gauge, suite>>

\* The Job is not in the cache: it is created.  If it turns out to exist, be it
\* this run's or not, the reconcile goes on with the Job it wanted to create,
\* which has no condition.
CreateJob(r) ==
    /\ NextRunner(r)
    /\ cache.jobs[r] = "absent" /\ r \notin refused
    /\ jobs' = [jobs EXCEPT ![r] = IF @ = "absent" THEN "active" ELSE @]
    /\ jobStart' = [jobStart EXCEPT ![r] = IF @ = None THEN Whole[now] ELSE @]
    /\ \/ /\ rec' = [rec EXCEPT !.jobs[r] = "active"]
          /\ UNCHANGED <<pc, queued, faults>>
       \/ Fault
    /\ UNCHANGED <<present, status, reported, passed, sa, fixed, pod, cache, timer, runsTotal,
                   gauge, suite, now>>

\* The API server does not let the Job in: the reconcile ends here, before it
\* looks at the deadline, and is tried again.
JobRefused(r) ==
    /\ NextRunner(r)
    /\ cache.jobs[r] = "absent" /\ r \in refused
    /\ EndReconcile(TRUE)
    /\ UNCHANGED <<apiVars, envVars, cache, timer, runsTotal, gauge, suite>>

JobsEnsured == pc = "jobs" /\ \A r \in Runners : rec.jobs[r] # "unread"
AnyJobFailed == \E r \in Runners : jobFailed(rec.jobs[r])
AllJobsSucceeded == \A r \in Runners : jobSucceeded(rec.jobs[r])

\* The deadline comes first: it also ends runs whose pods never started.
FinishDeadlineExceeded ==
    /\ JobsEnsured
    /\ deadlineExceeded
    /\ finish("Error", None, "DeadlineExceeded", "Timeout")

FinishRunnerError ==
    /\ JobsEnsured
    /\ ~deadlineExceeded
    /\ AnyJobFailed
    /\ finish("Error", None, "Completed", "RunnerError")

FinishAggregated ==
    /\ JobsEnsured
    /\ ~deadlineExceeded
    /\ ~AnyJobFailed
    /\ AllJobsSucceeded
    /\ complete(rec.reported)
    /\ finish(IF aggregate(rec.reported).failed > 0 THEN "Failed" ELSE "Succeeded",
              aggregate(rec.reported), None, None)

\* Some Job runs, or an entry has not landed: record phase and startTime and
\* come back at the deadline.
StayRunning ==
    /\ JobsEnsured
    /\ ~deadlineExceeded
    /\ ~AnyJobFailed
    /\ ~(AllJobsSucceeded /\ complete(rec.reported))
    /\ applyStatus("Running", None, None, rec.status.conditions)
    /\ \/ EndReconcile(FALSE) /\ timer' = requeueAfter(untilDeadline)
          /\ UNCHANGED faults
       \/ Fault /\ UNCHANGED timer
    /\ UNCHANGED <<present, passed, sa, jobs, jobStart, fixed, pod, cache, runsTotal, gauge,
                   suite, now>>

\* The run was deleted after it was read: whatever status this reconcile would
\* write, its write finds no run, and the reconcile is tried again.
StatusWriteFindsNoRun ==
    /\ pc = "serviceAccountMissing" \/ JobsEnsured
    /\ ~present
    /\ EndReconcile(TRUE)
    /\ UNCHANGED <<apiVars, envVars, cache, timer, runsTotal, gauge, suite>>

\* BUG: the last result of a check that passed anywhere is a pass.
lastResultsAnyPod(entries) ==
    LET ran(c) == {p \in entries : c \in FilterChecks(RunnerOf[p])}
    IN  [pass |-> {c \in Checks : \E p \in ran(c) : c \in passed[p]},
         fail |-> {c \in Checks : ran(c) # {} /\ \A p \in ran(c) : c \notin passed[p]}]

\* Per check: it passed on every pod that ran it, or not.
lastResults(entries) ==
    LET ran(c) == {p \in entries : c \in FilterChecks(RunnerOf[p])}
    IN  [pass |-> {c \in Checks : ran(c) # {} /\ \A p \in ran(c) : c \in passed[p]},
         fail |-> {c \in Checks : \E p \in ran(c) : c \notin passed[p]}]

\* The gauges of the suite are replaced by this run's, or dropped.
SetLastResults(results) == gauge' = results
DeleteSuite == gauge' = None

\* The counters live in the manager; an Error run keeps the last gauges.
recordMetrics ==
    /\ pc = "metrics"
    /\ runsTotal' = [runsTotal EXCEPT ![rec.phase] = @ + 1]
    /\ IF rec.phase = "Error"
       THEN EndReconcile(FALSE) /\ UNCHANGED gauge
       ELSE /\ SetLastResults(lastResults(rec.reported))
            /\ pc' = "suiteRef"
            /\ UNCHANGED <<rec, queued>>
    /\ UNCHANGED <<apiVars, envVars, cache, timer, suite>>

\* BUG: the suite is not looked up after the gauges were set.
suiteNeverGone == FALSE

suiteGone == suite # "shown"

\* The suite is looked up once the gauges are set: whoever comes last, this or
\* the cleanup by the CheckSuite controller, drops them.  A run without a suite is
\* as one whose suite is always there.
recheckSuite ==
    /\ pc = "suiteRef"
    /\ IF suiteGone THEN DeleteSuite ELSE UNCHANGED gauge
    /\ EndReconcile(FALSE)
    /\ UNCHANGED <<apiVars, envVars, cache, timer, runsTotal, suite>>

\* A call fails without effect.
ApiError ==
    /\ pc \in {"serviceAccount", "serviceAccountMissing", "jobs"}
    /\ Fault
    /\ UNCHANGED <<apiVars, pod, cache, timer, runsTotal, gauge, suite, now>>

\* The manager dies and another one starts: timers and metrics are gone, the
\* caches are filled again (from what may still be an old list), and every run
\* is queued.
Restart ==
    /\ faults < MaxFaults
    /\ faults' = faults + 1
    /\ pc' = "idle" /\ rec' = NoRec /\ queued' = TRUE /\ timer' = None
    /\ runsTotal' = [phase \in TerminalPhases |-> 0]
    /\ gauge' = None
    /\ suite' \in IF suite = "shown" THEN {"shown"} ELSE {"shown", "gone"}
    /\ cache' \in {cache, [present |-> present, status |-> status,
                           reported |-> reported, jobs |-> jobs]}
    /\ UNCHANGED <<apiVars, pod, now>>

-----------------------------------------------------------------------------
(* Watches, timers and the clock.                                          *)

SyncRun ==
    /\ <<cache.present, cache.status, cache.reported>> # <<present, status, reported>>
    /\ cache' = [cache EXCEPT !.present = present, !.status = status, !.reported = reported]
    /\ queued' = TRUE
    /\ UNCHANGED <<apiVars, envVars, pc, rec, timer, runsTotal, gauge, suite>>

\* BUG: buildJob sets no controller reference.
controlledNone == {}

\* The runners whose Job has this run as its controller.
controlled == Runners \ foreign

\* Only a Job that the run controls brings the run back.
SyncJobs ==
    /\ cache.jobs # jobs
    /\ cache' = [cache EXCEPT !.jobs = jobs]
    /\ queued' = (queued \/ \E r \in controlled : cache.jobs[r] # jobs[r])
    /\ UNCHANGED <<apiVars, envVars, pc, rec, timer, runsTotal, gauge, suite>>

FireTimer ==
    /\ timer # None /\ now >= timer
    /\ timer' = None
    /\ queued' = TRUE
    /\ UNCHANGED <<apiVars, envVars, cache, pc, rec, runsTotal, gauge, suite>>

\* The cache drops the suite, and its deletion event is queued ...
SuiteDeleted ==
    /\ SuiteMayGo
    /\ suite = "shown"
    /\ suite' = "cleanup"
    /\ UNCHANGED <<apiVars, envVars, cache, pc, rec, queued, timer, runsTotal, gauge>>

\* ... for the CheckSuite controller, which does not find the suite either.
CleanUpSuite ==
    /\ suite = "cleanup"
    /\ suite' = "gone"
    /\ DeleteSuite
    /\ UNCHANGED <<apiVars, envVars, cache, pc, rec, queued, timer, runsTotal>>

\* Bound: time does not pass MaxStart before the manager has seen the start (and
\* stands there if no start is ever recorded).
Tick ==
    /\ now < MaxTime
    /\ cache.status.startTime = None => now < MaxStart
    /\ now' = now + 1
    /\ UNCHANGED <<apiVars, ctlVars, pod, faults>>

-----------------------------------------------------------------------------
(* The cluster: the ServiceAccount, the Job controller, the runner pods.   *)

\* An operator adds the ServiceAccount or removes it (counted with the faults).
SetServiceAccount ==
    /\ faults < MaxFaults
    /\ faults' = faults + 1
    /\ sa' = ~sa
    /\ UNCHANGED <<present, status, reported, passed, jobs, jobStart, fixed, ctlVars, pod, now>>

\* The run is deleted; there is no finalizer to wait for.
DeleteRun ==
    /\ RunMayGo /\ present
    /\ present' = FALSE
    /\ UNCHANGED <<status, reported, passed, sa, jobs, jobStart, fixed, ctlVars, envVars>>

\* The garbage collector deletes a Job whose controller is gone; what is left
\* of its pods can no longer report.
CollectJob(r) ==
    /\ ~present
    /\ r \in controlled /\ jobs[r] # "absent"
    /\ jobs' = [jobs EXCEPT ![r] = "absent"]
    /\ UNCHANGED <<present, status, reported, passed, sa, jobStart, fixed, ctlVars, envVars>>

\* The other run's pods are done, and report to the other run.
ForeignJobEnds(r) ==
    /\ r \in foreign /\ jobs[r] = "active"
    /\ \E end \in {"complete", "failed"} : jobs' = [jobs EXCEPT ![r] = end]
    /\ UNCHANGED <<present, status, reported, passed, sa, jobStart, fixed, ctlVars, envVars>>

podsIn(r, states) == {p \in Pods : RunnerOf[p] = r /\ pod[p] \in states}

\* Parallelism and completions are both the runner's replicas.
PodCreate(p) ==
    LET r == RunnerOf[p]
    IN  /\ pod[p] = "none" /\ sa /\ jobs[r] = "active" /\ r \notin foreign
        /\ Cardinality(podsIn(r, {"running", "succeeded"})) < Replicas[r]
        /\ Cardinality(podsIn(r, {"failed", "lost"})) <= BackoffLimit
        /\ pod' = [pod EXCEPT ![p] = "running"]
        /\ UNCHANGED <<apiVars, ctlVars, now, faults>>

\* The pod's entry lands, complete: its apply is its single last action.  A
\* pod the control plane has lost touch with may still do this.
PodReport(p) ==
    /\ pod[p] \in {"running", "lost"} /\ p \notin reported /\ present
    /\ \E S \in SUBSET FilterChecks(RunnerOf[p]) :
         passed' = [passed EXCEPT ![p] = S]
    /\ reported' = reported \cup {p}
    /\ UNCHANGED <<present, status, sa, jobs, jobStart, fixed, ctlVars, envVars>>

\* The container exits 0, which it does only after its entry landed.
PodSucceed(p) ==
    /\ pod[p] = "running" /\ p \in reported
    /\ pod' = [pod EXCEPT ![p] = "succeeded"]
    /\ UNCHANGED <<apiVars, ctlVars, now, faults>>

\* The pod fails, or its node is lost, before or after its entry landed.
PodFail(p) ==
    /\ pod[p] = "running"
    /\ \E s \in {"failed", "lost"} : pod' = [pod EXCEPT ![p] = s]
    /\ UNCHANGED <<apiVars, ctlVars, now, faults>>

JobComplete(r) ==
    /\ jobs[r] = "active" /\ r \notin foreign
    /\ Cardinality(podsIn(r, {"succeeded"})) >= Replicas[r]
    /\ jobs' = [jobs EXCEPT ![r] = "complete"]
    /\ UNCHANGED <<present, status, reported, passed, sa, jobStart, fixed, ctlVars, envVars>>

\* Past its backoffLimit or its activeDeadlineSeconds, which are whole.
JobFail(r) ==
    /\ jobs[r] = "active" /\ r \notin foreign
    /\ \/ Cardinality(podsIn(r, {"failed", "lost"})) > BackoffLimit
       \/ now >= jobStart[r] + Whole[Timeout]
    /\ jobs' = [jobs EXCEPT ![r] = "failed"]
    /\ UNCHANGED <<present, status, reported, passed, sa, jobStart, fixed, ctlVars, envVars>>

-----------------------------------------------------------------------------
Init ==
    /\ present = TRUE
    /\ status = NewStatus
    /\ reported = {}
    /\ passed = [p \in Pods |-> {}]
    /\ sa \in BOOLEAN
    /\ foreign \in SUBSET Clashing
    /\ refused \in SUBSET Refusable
    /\ jobs = [r \in Runners |-> IF r \in foreign THEN "active" ELSE "absent"]
    /\ jobStart = [r \in Runners |-> None]
    /\ pod = [p \in Pods |-> "none"]
    /\ cache = [present |-> TRUE, status |-> NewStatus, reported |-> {}, jobs |-> NoJobs]
    /\ pc = "idle"
    /\ rec = NoRec
    /\ queued = TRUE
    /\ timer = None
    /\ runsTotal = [phase \in TerminalPhases |-> 0]
    /\ gauge = None /\ suite = "shown"
    /\ now = 0
    /\ faults = 0

Reconcile ==
    \/ ReconcileGone
    \/ IgnoreTerminal
    \/ ReconcileStart
    \/ GetServiceAccount
    \/ FinishServiceAccountMissing
    \/ \E r \in Runners : GetJob(r)
    \/ \E r \in Runners : CreateJob(r)
    \/ \E r \in Runners : JobRefused(r)
    \/ FinishDeadlineExceeded
    \/ FinishRunnerError
    \/ FinishAggregated
    \/ StayRunning
    \/ StatusWriteFindsNoRun
    \/ recordMetrics
    \/ recheckSuite

Cluster ==
    \/ SetServiceAccount
    \/ DeleteRun
    \/ \E p \in Pods : PodCreate(p)
    \/ \E p \in Pods : PodReport(p)
    \/ \E p \in Pods : PodSucceed(p)
    \/ \E p \in Pods : PodFail(p)
    \/ \E r \in Runners : JobComplete(r)
    \/ \E r \in Runners : JobFail(r)
    \/ \E r \in Runners : ForeignJobEnds(r)
    \/ \E r \in Runners : CollectJob(r)

Next ==
    \/ Reconcile
    \/ ApiError
    \/ Restart
    \/ SyncRun
    \/ SyncJobs
    \/ FireTimer
    \/ SuiteDeleted
    \/ CleanUpSuite
    \/ Tick
    \/ Cluster

Spec == Init /\ [][Next]_vars

\* The manager's goroutines run, its watches deliver, its timers fire, time
\* passes, and the cluster's garbage collector works.  Nothing is asked of
\* pods, of the Job controller or of the cluster's operators.
Fairness ==
    /\ WF_vars(Reconcile)
    /\ WF_vars(SyncRun)
    /\ WF_vars(SyncJobs)
    /\ WF_vars(FireTimer)
    /\ WF_vars(Tick)
    /\ \A r \in Runners : WF_vars(CollectJob(r))

FairSpec == Spec /\ Fairness

-----------------------------------------------------------------------------
(* Correctness.                                                            *)

CacheType ==
    [present: BOOLEAN, status: CheckRunStatus, reported: SUBSET Pods,
     jobs: [Runners -> JobStates]]

RecType ==
    [now: Times, status: CheckRunStatus, reported: SUBSET Pods,
     jobs: [Runners -> JobStates \cup {"unread"}], phase: Phases]

\* Type invariant: every variable holds a value of the API type or of the
\* controller structure it stands for.
TypeOK ==
    /\ present \in BOOLEAN
    /\ foreign \in SUBSET Runners /\ refused \in SUBSET Runners
    /\ status \in CheckRunStatus
    /\ reported \in SUBSET Pods
    /\ passed \in [Pods -> SUBSET Checks]
    /\ sa \in BOOLEAN
    /\ jobs \in [Runners -> JobStates]
    /\ jobStart \in [Runners -> Times \cup {None}]
    /\ pod \in [Pods -> {"none", "running", "succeeded", "failed", "lost"}]
    /\ cache \in CacheType
    /\ pc \in {"idle", "serviceAccount", "serviceAccountMissing", "jobs", "metrics", "suiteRef"}
    /\ rec \in RecType
    /\ queued \in BOOLEAN
    /\ timer \in Times \cup {None}
    /\ runsTotal \in [TerminalPhases -> Nat]
    /\ gauge \in [pass: SUBSET Checks, fail: SUBSET Checks] \cup {None}
    /\ suite \in {"shown", "cleanup", "gone"}
    /\ now \in Times
    /\ faults \in 0 .. MaxFaults

passedAll(p) == FilterChecks(RunnerOf[p]) \subseteq passed[p]

\* A verdict rests on evidence, however stale the reads behind it were: a run
\* is Succeeded or Failed only when every Job completed and every runner has
\* its replicas' worth of entries in the API; Succeeded needs that many entries
\* that passed everything, Failed an entry that failed something.
VerdictSound ==
    present /\ status.phase \in {"Succeeded", "Failed"} =>
        /\ \A r \in Runners : jobs[r] = "complete"
        /\ \E E \in SUBSET reported :
             /\ \A r \in Runners : Cardinality(podsOf(r, E)) >= Replicas[r]
             /\ (status.phase = "Succeeded") <=> (\A p \in E : passedAll(p))

\* The summary is there exactly for a verdict, counts every (runner, check)
\* definition once, as passed or as failed, and has a failure exactly when the
\* verdict is Failed.
SummaryConsistent ==
    /\ (status.summary # None) <=> (status.phase \in {"Succeeded", "Failed"})
    /\ status.summary # None =>
         /\ status.summary.total = Cardinality(definitions)
         /\ status.summary.passed + status.summary.failed = status.summary.total
         /\ (status.summary.failed > 0) <=> (status.phase = "Failed")

\* A run is in Error for one of three reasons: its condition says that the
\* ServiceAccount was missing, before any start was recorded, or that the deadline
\* passed (CompletionConsistent says that it did), or a Job has really failed.
\* Results that are slow to land are not a reason.
ErrorHasCause ==
    present /\ status.phase = "Error" =>
        \/ status.conditions["RunnerServiceAccountMissing"] # None
        \/ status.conditions["DeadlineExceeded"] # None
        \/ \E r \in Runners : jobs[r] = "failed"

\* completionTime, the Completed condition and a terminal phase come together
\* and go together; whatever condition a finish brings, the reason of Completed
\* is the phase; and the deadline decides between the DeadlineExceeded condition
\* and any other end.  As stored, a time just past the deadline may be the deadline
\* itself, which is why the two sides meet there.
CompletionConsistent ==
    /\ (status.phase \in TerminalPhases) <=> (status.completionTime # None)
    /\ status.conditions["Completed"]
         = IF status.phase \in TerminalPhases THEN status.phase ELSE None
    /\ status.phase \in TerminalPhases =>
         IF status.conditions["DeadlineExceeded"] # None
         THEN status.completionTime >= Whole[status.startTime + Timeout]
         ELSE status.completionTime <= status.startTime + Timeout

\* No step of the controller removes or rewrites an entry that a pod reported:
\* its status writes leave runners[] alone.
EntriesKept ==
    [][/\ reported \subseteq reported'
       /\ \A p \in reported : passed'[p] = passed[p]]_vars

\* A terminal run is never touched again: phase, times, summary, conditions.
TerminalIsFinal ==
    [][status.phase \in TerminalPhases => UNCHANGED status]_vars

\* One manager process counts a run at most once in verikube_checkruns_total,
\* and under the phase the run ended in.
CountedOnce ==
    \A phase \in TerminalPhases :
        /\ runsTotal[phase] <= 1
        /\ runsTotal[phase] = 1 => status.phase = phase

\* The last-result gauges agree with the phase: after a Succeeded run every
\* check that some runner executes shows 1, after a Failed one some shows 0.
GaugeAgreesWithVerdict ==
    gauge # None =>
        /\ (status.phase = "Succeeded") <=> (gauge.fail = {})
        /\ gauge.pass \cup gauge.fail = {d[2] : d \in definitions}
        /\ gauge.pass \cap gauge.fail = {}

\* Once the CheckSuite controller has dropped the gauges of a deleted suite, no
\* run that outlives the suite brings them back, however its writes and its
\* lookup of the suite interleave with the deletion and the cleanup.
DeletedSuiteHasNoGauges ==
    suite = "gone" /\ pc # "suiteRef" => gauge = None

\* Every run ends and stays ended, unless it is deleted, whatever pods, Jobs,
\* faults, stale caches and other runs' Jobs do: the deadline is the safety net.
EventuallyFinished == <>[](present => status.phase \in TerminalPhases)

\* Nothing of a deleted run is left behind: a Job that a reconcile under way
\* creates after the deletion goes, too.
JobsCollected == <>[](present \/ \A r \in Runners \ foreign : jobs[r] = "absent")

\* The run's life as its users see it (module RunLifecycle), implemented by
\* the controller when its cache shows its own writes.
Lifecycle ==
    INSTANCE RunLifecycle WITH
        phase <- status.phase,
        startTime <- status.startTime,
        completionTime <- status.completionTime,
        entries <- reported

\* A pod's life as this module has it (module PodLife, which RunnerPod implements).
Life(p) ==
    INSTANCE PodLife WITH
        Documents <- SUBSET FilterChecks(RunnerOf[p]),
        state <- pod[p],
        reported <- p \in reported,
        document <- passed[p]

\* Every fair behaviour of the controller is one that the life cycle allows:
\* one start that does not move, one end that is final, a verdict only on
\* enough entries, and the end comes.
ImplementsLifecycle == Lifecycle!Spec

-----------------------------------------------------------------------------
(* What documentation and tests say and the code does not do.              *)

\* "Another reconcile of a terminal run must be a no-op"
\* (internal/controller/checkrun_controller_test.go:489): at the least, the
\* phase a run ended in is not replaced.
PhaseIsFinal ==
    [][status.phase \in TerminalPhases => status'.phase = status.phase]_vars

\* "timeout is the deadline for the whole run.  A run exceeding it is marked Error"
\* (api/v1alpha1/shared_types.go:271-272): at the least, a run one of whose Jobs was
\* created longer than the timeout ago has ended, or is about to.
TimeoutEndsRun ==
    <>[](present /\ (\E r \in Runners : jobStart[r] # None /\ now > jobStart[r] + Timeout)
            => status.phase \in TerminalPhases)
=============================================================================
