# Specifications of verikube

verikube is a Kubernetes operator for scheduled network checks. This directory
holds TLA+ modules that model its two controllers and its runner pods, TLC
configurations that check them on small instances, and TLAPS proofs. All paths
below are relative to the repository.

## The system

| Part | State | Operations | Interacts with |
|---|---|---|---|
| CheckSuite controller (`internal/controller/checksuite_controller.go`) | `CheckSuite.status`: lastScheduleTime, lastManualTrigger, active, the ScheduleValid condition | create a CheckRun per cron tick and per run-now value, apply the concurrency policy, delete runs beyond the history limits, one status update per reconcile | API server and informer cache, CheckRuns it owns, work queue (RequeueAfter the next tick) |
| Missed-tick scan (`mostRecentScheduleTime`) | loop variables | find the last tick in (earliest, now] and the next one | cron library |
| CheckRun controller (`internal/controller/checkrun_controller.go`) | `CheckRun.status` but for `runners[]`; metrics | check the ServiceAccount, create a Job per runner, aggregate entries, decide at the deadline, record metrics | API server and informer cache, Jobs it owns, work queue (RequeueAfter the deadline) |
| Runner pod (`internal/runner`) | its own entry under `status.runners[].pods[]` | read the run, execute checks with bounded concurrency and retries, apply the entry, exit | API server, SIGTERM |
| Jobs, pods, informers, work queue | external | completions, backoffLimit, activeDeadlineSeconds, watches, delayed keys | what `buildJob` and `SetupWithManager` ask of them |
| Metrics (`internal/metrics`) | counters and gauges of the manager process | count a finished run, set the last results, drop a deleted suite | both controllers |
| Names (`internal/controller/names.go`) | none | truncate, hash, join | both controllers |
| Checkers (`internal/checker`) | the connections of one attempt | resolve, guard and dial the target, follow redirects, judge the answer, all under one timeout | runner pod, the network |
| API types (`api/v1alpha1`) | none | types and validation rules | everything |
| Manager (`cmd/main.go`) | none | wiring, leader election | everything |

What is hard about it:

* Every decision is taken on cached reads. The CheckRun controller writes
  without a resourceVersion (server-side apply), the CheckSuite controller with one.
* Several writers share one status object: every pod owns an entry of it.
* A reconcile is a series of API calls; any of them may fail, or land and have
  its answer lost, and the manager may restart between any two.
* Pods may outlive their usefulness: a pod on a lost node is replaced and may
  report later all the same.
* Two clocks bound a run: the controller's deadline from startTime and the
  Job's activeDeadlineSeconds from the Job's creation.
* Times are stored in whole seconds and compared with exact ones; creations can tie.
* SIGTERM cancels probes, whose failure a negative check takes for a pass.
* A probe leads through names, several addresses and redirects, and the target
  guard has to hold at each connection it makes.
* Users delete runs and suites, and change schedules, policies and triggers,
  while a reconcile that has read them is under way.
* Jobs are found by a name that joins two names, and their owner is not asked for.

What makes each part correct is stated as properties below; `PROJECT.json`
lists each hazard at its line with the properties that watch it.

## Modules

| Module | Models | Kind |
|---|---|---|
| `CheckRun` | one run, its controller, its Jobs and pods | component |
| `RunLifecycle` | what a run promises to those who watch its status | abstract specification |
| `CheckRunProofs`, `CheckRunStatusProofs`, `CheckRunLifecycleProofs` | theorems about `CheckRun`: types, verdicts, entries; completion, summary, metrics; that it implements `RunLifecycle`, and lets its pods do what `PodLife` allows | proofs, each extends the one before |
| `RunnerPod` | one pod, from reading the run to its exit code | component |
| `PodLife` | what a pod promises to those who count on its entry | abstract specification |
| `RunnerPodProofs` | theorems about `RunnerPod`, and that it implements `PodLife` | proofs |
| `Checker` | one probe attempt of a pod | component |
| `CheckerProofs` | theorems about `Checker` | proofs |
| `Schedule` | schedules, and the operators `lastMissed` and `nextTick` | shared definitions |
| `ScheduleScan` | the loop of `mostRecentScheduleTime` | algorithm |
| `ScheduleProofs`, `ScheduleScanProofs` | lemmas about series of ticks, ranks and `lastMissed`; theorems about `ScheduleScan` | proofs |
| `CheckSuite` | a suite, its controller and the existence and phases of its runs | component, extends `Schedule` |
| `SuitePromise` | what a suite promises to its user | abstract specification |
| `CheckSuiteProofs` | theorems about `CheckSuite`, and that it implements `SuitePromise` | proofs, extend `ScheduleProofs` |
| `MCCheckRun`, `MCRunnerPod`, `MCChecker`, `MCScheduleScan`, `MCCheckSuite` | instances for TLC | |

The modules meet at three places. What `RunnerPod` does up to its exit is, in
`CheckRun`, the steps `PodReport`, `PodSucceed` and `PodFail`. `PodLife` is the
interface between the two: `RunnerPod` implements it (`ImplementsPodLife`), and it is
all that `CheckRun` lets a pod do (`PodsLive`). What `CheckRun` does is, in `CheckSuite`, `RunStarts`
and `RunEnds`: a run starts once and ends for good (`ImplementsLifecycle`,
`EventuallyFinished`). What `Checker` does is, in `RunnerPod`, a probe that takes
a while and observes something, or ends with the context: it always returns
(`EventuallyReturns`).

Operators marked `BUG:` are mutated forms of the definition that follows them;
no specification uses them. They show that each property can fail.

### CheckRun

`status`, `reported` and `passed` are the run in the API: the controller's
fields, the pods with an entry, and what each entry says passed. `cache` is
what the manager's informers show; `SyncRun` and `SyncJobs` move it, each one
separately, so that the run and its Jobs are read from different moments.
`pc` and `rec` are the reconcile in progress.

| Code | Action |
|---|---|
| run not found, terminal run (l. 94, 97) | `ReconcileGone`, `IgnoreTerminal` |
| Get of the run, `now()` | `ReconcileStart` |
| Get of the ServiceAccount (not cached, `cmd/main.go` l. 193), finish on NotFound | `GetServiceAccount`, `FinishServiceAccountMissing` |
| loop over runners: Get or Create of the Job; Create refused | `GetJob(r)`, `CreateJob(r)`, `JobRefused(r)` |
| deadline, failed Job, verdict | `FinishDeadlineExceeded`, `FinishRunnerError`, `FinishAggregated` |
| still running: status write and RequeueAfter | `StayRunning` |
| a status write to a run that has been deleted | `StatusWriteFindsNoRun` |
| `recordMetrics` after the write was answered: counters and gauges, then the suite is looked up | `recordMetrics`, `recheckSuite` |
| the suite leaves the cache; the CheckSuite controller finds it gone and drops its gauges | `SuiteDeleted`, `CleanUpSuite` |
| an API call fails without effect | `ApiError` |
| an API call lands and its answer is lost | the `Fault` disjunct of `finish`, `CreateJob`, `StayRunning` |
| process restart | `Restart` |

Between the first step and the status write nothing but API calls happens, so
an action per call is as fine as the code. `StayRunning` and `finish` write
with server-side apply: all fields the controller owns, whatever is there.
Job and pod steps (`PodCreate` ... `JobFail`) follow from what `buildJob`
asks: parallelism and completions equal to replicas, a backoffLimit, and
activeDeadlineSeconds equal to the timeout. `PodFail` covers a pod that is
*lost*: it is replaced and can still report.

The work queue keeps one entry per key and the earliest of its timers; a
RequeueAfter of zero asks for nothing. An error puts the key back at once:
the rate limiter only delays it.

`ReadYourWrites` says whether the cache shows the controller's own last status
write before a reconcile starts. Nothing in the code ensures it. It is FALSE
where a property holds without it, and TRUE, as an assumption on the cluster,
where it does not (`CheckRunStaleTerminal`).

The clock is as exact as the code's (`now()`); what is stored through
`metav1.Time`, the start and end times and the creation times of Jobs, is
`Whole[...]` of it, with the fraction dropped. `Second` is a second in ticks of the
clock. So a reconcile a fraction of a second after the deadline writes
DeadlineExceeded with an end time that is the deadline itself, and
`CompletionConsistent` says which sides of the deadline the stored times can be on.
In `CheckRunLifecycle` a tick is half a second, elsewhere a whole one.

`suite` is the run's suite as both controllers see it: in the cache, gone with
its deletion event still queued, or gone and cleaned up. `SuiteMayGo` lets
users delete it; it is TRUE in `CheckRunLifecycle`. A run without a suiteRef, for
which the code does not look a suite up, is as one whose suite stays.

`present` says whether the run exists. Nothing holds its deletion up (there is
no finalizer): `DeleteRun` may happen at any moment (`RunMayGo`), a reconcile
that has read the run goes on creating Jobs and then finds nothing to write to,
and `CollectJob` is the cluster's garbage collector, which goes by the owner
reference that `buildJob` sets (`controlled`).

`foreign` are runners whose Job name another run's Job had first, chosen at the
start from `Clashing`: `jobName` joins run and runner with a dash, so that run
`a-b` with runner `c` and run `a` with runner `b-c` share a name. The reconciler does not
ask a Job for its owner: it takes that Job for its own, no pod of it reports to
this run, and its end does not bring this run back (`SyncJobs`), since only an
owner is queued. The other run is assumed to stay. `refused` are runners whose
Job the API server does not let in, chosen from `Refusable`.

### RunLifecycle

Four variables: phase, start, end, entries. A run starts once, ends once, keeps
both times, has a verdict only with enough entries, and ends. `CheckRun`
implements it (`ImplementsLifecycle`) under `ReadYourWrites`, with
`phase <- status.phase` and `entries <- reported`.

### PodLife

Three variables: where the pod is, whether its entry is in the API, and the entry.
A pod starts, its entry lands at most once, while it runs or after the control plane
has lost touch with it, and it succeeds only with its entry in the API. In
`RunnerPod` the entry is `entry` and the end `exit`; in `CheckRun`, for each pod,
they are `passed[p]` with `reported`, and `pod[p]`.

### RunnerPod

One state per check (`waiting`, `probing`, `delaying`, `done`), the context as
the flag `cancelled`, one apply in flight. A probe that ends after the
context was cancelled may have observed anything; the history variable
`genuine` marks it. `Delay` stays possible after cancellation because `select`
may choose either ready case. `Steps` is 6: `retry.OnError` is given 8 steps,
but the delay passes the 15 s cap after six tries and that ends the backoff.

### Checker

One attempt, from the call to the return. `pc` goes from the lookup
(`resolve`) over the addresses (`dial`, `connecting`) to the answer
(`request`), the drain of the body (`draining`) and the deferred calls
(`closing`, `returning`). The guard is the `Control` function of the dialer that
all three checkers configure: it runs with each address before the connection is
tried (`Dial`), and its refusal is a failure of that address only. `open` is the
connection in use, `idle` are those that the HTTP transport keeps, each for its
host; a redirect may use one of them again without asking the guard. `Guarded` are
the addresses that the guard's test names, as they are written. Where the kernel
takes an address is not modelled (see the differences below).

| Code | Action |
|---|---|
| `Check` of each type, under its timeout | `CheckTCP`, `CheckHTTP`, `CheckGRPC` |
| a type the image does not know (`runner.go` l. 172) | `Unknown` |
| lookup (a URL or an address that is invalid resolves to nothing) | `Resolve` |
| `dialControl`, connect | `Dial(a)`, `ConnectTCP`, `Connect`, `Refuse`, `DialFails` |
| redirects followed by `client.Do` | `Redirected(h)` |
| final status, health status | `Answered(s)`, `HealthAnswered(s)` |
| errors of `Do` and of the call, timeout, SIGTERM | `RequestFails`, `Aborted` |
| deferred calls: drain of the body, close of the body, of the connection or of the ClientConn, close of the idle connections | `BodyArrives`, `Close`, `CloseIdleConnections` |

A timeout of zero is none to `net.Dialer` and `http.Client` (`unlessZero`), and
one that has passed to `context.WithTimeout`. Which other address is tried first, and how the
timeout is shared among them, is left open; that the dialer may try an IPv4 and
an IPv6 address side by side is not modelled. Nor is what the transport does with a
dial that is under way when the attempt ends: it finishes in the background, and the
transport closes what comes of it.

`InTime` says that the attempt has a deadline which equals its timeout. Timers are
on time (`Tick`), so that no step that ignores the deadline could make it false;
that the drain and the redirects heed it is what `EventuallyReturns` shows.

### Schedule and ScheduleScan

`Next` gives, for each schedule that parses, the first tick after a time. For the
five fields of cron the ticks do not depend on the time asked about; for
`@every d`, which `cron.ParseStandard` accepts as well, the next tick is d after
it. `NextAssumption` therefore asks only that a schedule which fires at all
answers with a later time. The ticks after a time e are then those that one gets
by asking for the next tick again and again, from e on (`series`, the least set
that holds the next tick after e and with a tick the one after it). A schedule that
parses and never fires gives the zero time, which is never after now.

`ScheduleScan` runs the loop for every pair of times of an irregular schedule, of
`@every 2` and of a schedule that never fires, and shows that it returns
`lastMissed` and `nextTick`, the operators that `CheckSuite` uses in its place.

### CheckSuite

`suite` is the suite in the API, `runs` its runs by name (a tick for a
scheduled run, the annotation value for a manual one), `cache` the informers.
`current` says that the cached suite is the one in the API and `rec.fresh` that
the reconcile's copy still is: the status update lands only then. `creations`
and `asked` are history variables.

| Code | Action |
|---|---|
| suite not found | `ReconcileGone` |
| Get, List, status.active | `ReconcileStart` |
| the two `gcRuns` calls | `GcSucceeded`, `GcFailed` |
| run-now annotation | `CreateManual` |
| suspended or no schedule; an expression that does not parse | `NotScheduled`, `InvalidSchedule` |
| nothing missed, too old, Forbid | `SkipTick` |
| a due tick: Replace's deletions, then `createRun` | `TakeTick`, `CreateScheduled` |
| `updateStatus`, RequeueAfter | `UpdateStatus` |
| the update conflicts, or its list of references is too long | `UpdateRefused` |
| users | `RunNow`, `SetSchedule`, `SetPolicy`, `Suspend`, `DeleteSuite` |
| the cluster's garbage collector | `CollectRun(n)` |
| the other controller | `RunStarts`, `RunEnds` |

`gcRuns` deletes a set of oldest runs; runs of the same second may be sorted
either way, since the list comes from a cache in no fixed order. A deletion
loop that fails half-way has deleted some of its set. `createRun` that finds its
run existing reads it from the cache, and fails until the cache has it. `refs`
counts the references of `status.active`, a list that may name a run twice; the
schema bounds its length (`MaxActive`, 32 in the code).

A recorded zero time is marshalled as null, which is no time at all: a suite
whose schedule never fires forgets its last tick (`LastScheduleMonotone` says so).

### SuitePromise

A run for each tick that is due and each value of the annotation, made once and
recorded after it was made, and every trigger served. `CheckSuite` implements it
(`KeepsPromise`) under Allow with history limits that keep the runs.

## What is checked

| Run | Question | Answer |
|---|---|---|
| `CheckRunReplicas` | Do verdicts, errors and entries hold together when every read may be stale, and the Job may be another run's? | yes |
| `CheckRunRunners` | Do summary, phase and gauges agree over two runners with restricted checks, one of whose Jobs may be refused? | yes |
| `CheckRunLifecycle` | On a clock of half seconds, with read-your-writes, faults, a ServiceAccount that comes and goes and a suite that may be deleted: do errors have their causes and do the stored times agree with the conditions, is a terminal run ever written or counted again, do gauges of a deleted suite come back, is the life cycle implemented? | yes; never; no; yes |
| `CheckRunLiveness` | With stale caches, a fault, a clashing Job and a run that may be deleted: does every run end, and does a deleted one leave no Job behind? | yes |
| `RunnerPod` | Is an entry complete and honest, does it land once and stay, does exit 0 mean that it landed (`PodLife`), and does the pod exit? | yes |
| `Checker` | Is an observation what happened, at an address that the guard lets pass, along names, redirects and kept connections, does the timeout cover everything, is a connection in use or an idle one left open, does every attempt return? | yes; none is; yes |
| `ScheduleScan` | Does the scan return a due tick, the last one unless capped, and the next one after now, for `@every` too? | yes |
| `CheckSuiteStale` | With stale caches, schedules that change, never fire or do not parse, a fault and a short list of active runs: does a tick run twice, or the record go back? | no |
| `CheckSuitePolicies` | With fresh reads, a trigger, and users who change the policy or delete the suite: do Forbid and Replace start scheduled runs alone, is a tick that is recorded ever run again, and does garbage collection keep the newest? | yes; never; yes |
| `CheckSuiteLiveness` | With stale caches, a fault, a schedule that may not parse and a suite that may be deleted: is the promise kept, are ticks handled, do status.active and the condition become exact, does a deleted suite take its runs with it? | yes |

Two runs show where the code differs from what a test or the API says:

| Run | What happens |
|---|---|
| `CheckRunStaleTerminal` | A stale read after the terminal write: Succeeded becomes Error past the deadline. |
| `CheckRunJobRefused` | A Job that the API server refuses for good ends every reconcile before its deadline test, and no start time is ever recorded: the clock passes the timeout, counted from the creation of the other runner's Job, and the run has no phase for ever (`TimeoutEndsRun`, after `api/v1alpha1/shared_types.go` l. 271-272). |

Further differences, which the modules contain but no run is spent on:

* After a failed status update Replace takes the run of its own tick for one to
  replace, deletes it and creates it again (`checksuite_controller.go` l. 191;
  l. 232-233 call the creation idempotent). `TickRunsOnce` fails under Replace
  with one fault and holds under Allow; a tick that is recorded is safe from this
  (`HandledTicksRest`).
* run-now from a to b and back to a: the run of the first a is found and the
  trigger recorded without a new run (`checksuite_controller.go` l. 124;
  `docs/src/content/docs/guides/scheduling.md` l. 23 speaks of any change).
* The entry of a lost pod may land after the verdict and is not part of it
  (`aggregate`; `docs/src/content/docs/guides/writing-checks.md` l. 127 speaks of
  every pod). `VerdictSound` says what does hold.
* `finish` replaces the reason RunnerError by the phase (`checkrun_controller.go`
  l. 254; `docs/src/content/docs/guides/troubleshooting.md` l. 8 sends readers to
  the conditions). `CompletionConsistent` says what does hold.
* Jobs of a reconcile that failed before its status write are older than
  startTime (`api/v1alpha1/checkrun_types.go` l. 171).
* The summary counts (runner, check) definitions, not results of pods
  (`checkrun_types.go` l. 145).
* A capped scan returns an old tick, not the most recent one
  (`checksuite_controller.go` l. 214).
* With a stale list and runs of the same second, garbage collection may take
  both runs of a tie, one after the other (`checksuite_types.go` l. 45).
* Forbid does not see the manual run that its own reconcile has just created
  (`docs/src/content/docs/guides/scheduling.md` l. 47). `ScheduledAlone` says
  what does hold: there is no other active run.
* lastScheduleTime names skipped ticks too (`checksuite_types.go` l. 101-102).
* status.active may name a run twice, when a reconcile finds the run it wanted
  to create among those it listed.
* The ScheduleValid condition stays what it was when a schedule is removed or the
  suite suspended; `ConditionBecomesTrue` is about suites that are scheduled.
* A status code of a redirect in `expectedStatus` has no effect when the
  response names a location: the client follows it (`http.go` l. 85).
* The guard goes by the address as it is written (`guard.go` l. 49): an unspecified
  address is neither loopback nor link-local, and Linux connects it to the host
  itself, where `guard.go` l. 27-29 says that checks cannot reach the runner pod. No
  module says what the kernel does with an address, and `ObservedHasEvidence` speaks
  of the addresses that the test names.
* A check that expects Failure passes when the guard refuses its target, its
  URL is invalid or it times out: `Result` does not tell these apart
  (`checker.go` l. 29-38).

### Bounds

* `CheckRun`: the timeout is one time unit, and two half seconds in
  `CheckRunLifecycle`; the run starts by `MaxStart`, and
  the clock stops at `MaxTime`, later than any deadline and the instant that
  stands for every later one. This gives instants before, at and after the
  deadline, half a second after it included. While no start is recorded the clock
  waits at `MaxStart`; in `CheckRunJobRefused`, where none ever is, that is later than
  the timeout of a Job created at once. Two replicas and three pods give a retry, a late entry and an
  entry too many; two runners and two checks give a restricted check and a
  half-complete run. The instances split these because their product is
  too large. Pods are interchangeable (symmetry) in `CheckRunReplicas`, whose
  properties are safety properties. One runner is enough for a clashing Job, and
  the second of two for a refused one. BackoffLimit is 0 or 1, not the code's 2, so
  that few pods exhaust it.
  `MaxFaults` counts API errors, lost answers, restarts and changes of the
  ServiceAccount; it is 0 in `CheckRunReplicas`, so that a start later than the Job's
  and a ServiceAccount that vanishes are `CheckRunLifecycle`'s.
* `RunnerPod`: three checks for two slots, a retried check, a negative check
  and an unknown one; the real number of tries.
* `Checker`: one name with a guarded and two other addresses that resolves to
  several mixes of them, one that moves from a permitted to a guarded address,
  every type with the default timeout, a short one and zero, two redirects
  instead of nine, two status codes. The clock stops at `MaxTime` only where no
  timeout ends the attempt.
* `ScheduleScan`: cap 3 instead of 80, seven irregular ticks, a tick two after the
  time asked about, a schedule that never fires, every earliest and now (a clock that went back included).
* `CheckSuite`: a tick every unit or every two, at most two ticks, at most one
  trigger value (a second one, and a return to the first, are left to the theorem
  `PromiseSafely`), and few edits and faults. An edit changes any field: trigger,
  schedule, policy, suspend, or whether the suite is there; the suite starts
  with any of the configured schedules and policies, suspended or not. `CheckSuitePolicies` starts
  with Forbid and with Replace, ticks every two units and a starting deadline of zero, so
  that a tick that is noticed late is too old; its runs succeed, since the other
  class is trimmed by the same `gcRuns` (and is part of the theorem). The runs about
  stale caches and liveness stay with Allow, under which the most runs are created. One tick and a retry suffice to run a tick
  twice; two ticks show a record that goes back and a list beyond its limit.
  `MaxActive` is 2 where the limit of references is in question.
  `MaxMissedScans` is the code's 80, out of reach here; the cap is
  `ScheduleScan`'s.

Deadlock is not checked: a finished run, an exited pod and a suite after the
last instant have nothing left to do.

### Fairness

`FairSpec` of the controllers asks weak fairness of the reconciler, of each
watch, of the timer and of the clock: controller-runtime runs workers as long
as the queue holds keys, informers relist, delayed keys fire. It asks it of the
cluster's garbage collector. Nothing is asked of
pods, of the Job controller, of users or of the ServiceAccount, so a run whose pods
never start is among the behaviours that must end. `RunnerPod` asks it of
each check, of the group's end and of the reporting loop, since probes and
delays have timeouts; signals are not fair. `CheckSuite` asks that runs end, which
`EventuallyFinished` of `CheckRun` gives; a suite whose list of
active runs is full for ever could not record anything. `Checker` asks it of the process's own steps,
of the clock and of SIGTERM, which comes at the latest with the Job's
activeDeadlineSeconds; of the network nothing is asked.

## What is proved

Every safety property that a passing run checks is a theorem here, for every
value of the constants, and so are the refinement of `PodLife` and the safety part
of the other two. Some
theorems have a hypothesis on the constants, which is written in the statement;
the runs of these properties satisfy it. The other assumptions are the named
`ASSUME`s of the modules (finite sets, positive timeouts, an unset value unlike
any set one).

### CheckRun

For every number of runners, checks, pods, replicas, faults, every timeout and
every clock, with clashing and refused Jobs and deletions of the run and the suite:

| Theorem | Statement |
|---|---|
| `CheckRunProofs!TypeCorrect` | `Spec => []TypeOK` |
| `VerdictCorrect` | `Spec => []VerdictSound` |
| `ErrorCorrect` | `Spec => []ErrorHasCause` |
| `GaugesStayGone` | `Spec => []DeletedSuiteHasNoGauges` |
| `EntriesStay` | `Spec => EntriesKept` |
| `TerminalStays` | `ReadYourWrites => (Spec => TerminalIsFinal)` |
| `CheckRunStatusProofs!CompletionCorrect` | `Spec => []CompletionConsistent` |
| `SummaryCorrect` | `Spec => []SummaryConsistent` |
| `CountedCorrect` | `ReadYourWrites => (Spec => []CountedOnce)` |
| `GaugeCorrect` | `ReadYourWrites => (Spec => []GaugeAgreesWithVerdict)` |
| `CheckRunLifecycleProofs!LivesSafely` | `ReadYourWrites => (Spec => Lifecycle!Init /\ [][Lifecycle!Next]_(Lifecycle!vars))` |
| `PodsLive` | `Spec => Life(p)!Init /\ [][Life(p)!PodNext]_(Life(p)!vars)`, for every pod p |

`TypeOK` is inductive by itself. Its one arithmetic step is the timer: a
reconcile that passed the deadline test asks for a delay of at least one
(`TimerType`). `VerdictSound` is not inductive: a verdict is written from
what the reconcile read. `ReadsAreOld` strengthens it: the entries in the
cache and in the reconcile have landed in the API, and a Job that they show as
ended has ended so. It holds because entries are only added and a Job's
condition is final (`ReadsStayOld`); it makes the old reads evidence now
(`VerdictWritten`, with `FailedCount` for the step from the summary's counter to the
entries), and evidence does not go away (`EvidenceKept`). The same invariant
gives `ErrorHasCause` its failed Job. `GaugesStayGone` needs no strengthening:
the program counter in the property says who still has to drop the gauges. `TerminalStays` needs another one,
`ReadsAreFresh`: up to its status write a reconcile under way is one of a run
that is not terminal. Without `ReadYourWrites` it is false, and
`CheckRunStaleTerminal` shows what follows.

`CompletionCorrect` is about every clock and every rounding `Whole` that drops
something and keeps the order; where nothing is dropped, it says that DeadlineExceeded
comes with an end time at or after the deadline and any other end with one at or before it.
`CompletionConsistent` and `SummaryConsistent` need no such assumption, though a
finish builds the new status from an old one. `WrittenFromUnfinished` is why: a
status that a reconcile goes on from was unfinished when it was read, and an
unfinished status, wherever a copy of it is, carries no end time, summary or
condition; so nothing that a write keeps contradicts what it sets.
`AggregateCounts` says what the aggregation returns: passed, failed and total add up.
`CountedOnce` and the gauges are about the moment after the write:
`MetricsInv` says that the reconcile which records metrics is the one whose
phase the run has, that nothing was counted before it, and that the entries it
read are all in the API, on which the gauges then agree with the phase (an
entry that lands later changes neither). `LivesSafely` takes each step of the
controller to a step of `RunLifecycle`: `StayRunning` begins the life or repeats
itself, each `Finish...` ends it, a pod's report adds an entry, and the rest
stutters. `StartInv` is what it needs on top: no copy of the status has a start
time later than the moment it was read, so that a run never ends before it starts.
`PodsLive` closes the other end: of the steps of `CheckRun` only a pod's own touch
what `PodLife` sees of it (`PodsUntouched`), and those are steps of `PodLife`.
With `LifeCorrect` below, both components keep one interface: what `CheckRun` takes for
granted about when entries land and pods succeed, `RunnerPod` keeps. The entry itself is
the set of passed checks here and a result for every check there.

### RunnerPod

For every list of checks, number of attempts, slots, apply steps and faults, and
a SIGTERM, SIGKILL or lost answer at any point (`RunnerPodProofs`):

| Theorem | Statement |
|---|---|
| `TypeCorrect` | `Spec => []TypeOK` |
| `GenuineCorrect` | `Spec => []EntryIsGenuine` |
| `AttemptsCorrect` | `Spec => []FailureUsesAllAttempts` |
| `ExitCorrect` | `Spec => [](exit = 0 => entry # None)` |
| `EntryStable` | `Spec => [][entry # None => UNCHANGED entry]_vars` |
| `LifeCorrect` | `Spec => ImplementsPodLife` |

None is inductive: that an entry is genuine depends on what the pod did before it
sent it. `Inv` adds `Counted` (the attempt counter against the probes made, by
where a check is), `NothingCutShort` (until the context is cancelled every check
that is done ran to its end), and `AppliedWhole`: an apply is under way, or has
landed, only after every check ran to its end. The last one is
what survives a cancellation that comes after the apply was sent. `LifeCorrect` is the
whole refinement, since `PodLife` asks for no fairness: `WritesLand` shows that an
apply lands the entry once and as a whole or repeats it, `ExitEnds` that an exit is
an end of `PodLife`, and the rest stutters (`PodStepsLive`).

### Checker

For every set of checks, addresses, names and what they
resolve to, every timeout and every limit of redirects (`CheckerProofs`):

| Theorem | Statement |
|---|---|
| `TypeCorrect` | `Spec => []TypeOK` |
| `EvidenceCorrect` | `Spec => []ObservedHasEvidence` |
| `HasteCorrect` | `Spec => []NoHastyFailure` |
| `TimeCorrect` | `Spec => []InTime` |
| `ClosesAll` | `Spec => []NothingLeftOpen` |

`TypeOK` is not inductive: a lookup needs to know that there is a target. `Progress`
says what each place of an attempt has behind it (a known type and a target while
it runs, no result before an answer). `Connections` says what each place has open,
and that every connection, the kept ones included, leads to an address of its host
that the guard lets through (`LeadsTo`). `Inv`, the three together, is inductive.
`ClosesAll` rests on it: only an HTTP attempt has idle connections, and it alone
passes `returning`; only a connection was made where `Close` is due. `EvidenceCorrect` takes
from it where the connection leads. `OutcomeSteps` lists the ways a result comes about, for
the two theorems about results, and `StaysAborted` carries a timeout from the step
that failed to the states after it.

### Schedule and ScheduleScan

For every set of schedules that satisfies `NextAssumption`, those of five fields and
`@every d` among them, every cap and every pair of times:

| Theorem | Statement |
|---|---|
| `ScheduleProofs!LastMissedIsMissed` | `lastMissed` is a missed tick if there is one, `None` if not, the zero time for a schedule that never fires |
| `ScheduleProofs!SteadySeries` | for a schedule whose ticks do not depend on the time asked about, the series after e is its ticks after e |
| `ScheduleScanProofs!TypeCorrect` | `Spec => []TypeOK` |
| `MostRecentCorrect` | `Spec => []MostRecentUnlessCapped` |
| `DueTickCorrect` | `Spec => []ReturnsDueTick` |
| `ScanCorrect` | `Spec => []ScanIsLastMissed` |

`lastMissed` is defined by rank: the tick that has as many missed ticks up to it
as the scan gets through. `ScansTicks` is the loop invariant: the scan has counted
the missed ticks up to where it is, and stands at the next one (`OneMore`: between a
tick of the series and its next one there is no other, `NoTickBetween`, from the
series being the least set that is closed). At the end the count is the
rank, and `RankIsUnique` makes the tick the operator's. That each rank up to the
number of missed ticks is taken (`RankExists`) is shown from the well-foundedness
of finite sets, since induction with an operator parameter is out of reach.

### CheckSuite

For every set of schedules, policies, triggers, limits and bounds (`CheckSuiteProofs`):

| Theorem | Statement |
|---|---|
| `TypeCorrect` | `Spec => []TypeOK` |
| `LastScheduleNeverBack` | `Spec => LastScheduleMonotone` |
| `TickCorrect` | `RunsKept => (Spec => []TickRunsOnce)` |
| `HandledCorrect` | `FreshReads => (Spec => HandledTicksRest)` |
| `GcCorrect` | `FreshReads => (Spec => GcKeepsNewest)` |
| `AloneCorrect` | `FreshReads => (Spec => ScheduledAlone)` |
| `PromiseSafely` | `EveryTickServed => (Spec => Promise!Init /\ [][Promise!PromiseNext]_(Promise!vars))` |

`TypeOK` needs `RecOK`, what a reconcile holds by where it is; that a tick to be taken
names a run is `LastMissedIsMissed`. `Reads` is the optimistic lock: while the
reconcile's copy is the current one it equals the suite, and what it has
decided to record is what it read, a later tick, or, for a schedule that never
fires, nothing (`Decided`). This is all that `LastScheduleNeverBack` takes; it
holds with stale caches, all policies and every edit.

The hypotheses of the other theorems are those under which the properties are true:

* `RunsKept` (`TickCorrect`): the limits keep every run there can be within the bound,
  and nothing is replaced. A run that is gone before its tick was recorded can be
  made again (see the differences above); so can one of a suite that is
  deleted, while its garbage is collected, which is why `TickRunsOnce` speaks of a
  suite that is there. `MadeOnce` is the invariant: while the suite is
  there, a run that was made is there, and was made once. It holds
  with stale caches, since `createRun` asks the API server.
* `FreshReads` (`GcCorrect`, `AloneCorrect`, `HandledCorrect`): `gcRuns` deletes by
  name what it read. `FinishedAsRead` says that
  a finished run is, at the deletion, still the run that was read, which a stale list
  cannot promise. `ExcessLeavesLimit` counts what stays. `ActiveAsRead` says that
  between reads and creation no run becomes active which the reconcile has not seen,
  but the manual run of its own, and that no other is left when Forbid or Replace goes
  on to create. `RecordAsRead` says that the last handled tick is, up to the status
  update, the one that was read; a missed tick is later than that. A stale
  read of the suite handles a tick again, and then finds its run by
  name or, if it was trimmed meanwhile, makes it again. All three hold for every limit,
  policy and trigger, and for a suite that users delete in the middle of a reconcile
  (`SuiteStaysGone`: it does not come back).
* `EveryTickServed`: `RunsKept`, no Forbid, a starting deadline that cannot pass
  within the bound, and schedules that fire, so that no tick is recorded without
  a run. `Served` is the invariant: every copy of the suite carries a trigger that was
  asked for, no clock of a reconcile is ahead, and what is about to be recorded was
  made. Each creation then is a `Make`, each update that lands a `Record`, each
  user's edit an `Ask`, a `Delete` or a stutter. The suite may be deleted.

### Model-checked only

`EventuallyFinished`, `JobsCollected`, `EventuallyExits`, `EventuallyReturns`,
`TicksHandled`, `ActiveBecomesExact`, `ConditionBecomesTrue`, `NothingLeft`, and
the fairness of `RunLifecycle` and `SuitePromise` in `ImplementsLifecycle` and
`KeepsPromise`: liveness under fairness, beyond the prover. `PhaseIsFinal` and `TimeoutEndsRun` are false.

## What is not modelled

* How names are joined, hashed and truncated. That two runs may share a Job name
  is modelled (`Clashing`); that the other of the two runs is deleted while this one
  uses its Job is not. A suite's runs have names of their own: the run of an
  earlier suite of the same name, which `createRun` would take for its own, is
  left out, and so is a run of another owner under a name the suite wants.
* A later run or suite of the same name as a deleted one, and several runs that
  set the gauges of one suite.
* Users who delete Jobs or pods, and `ttlSecondsAfterFinished`, which removes Jobs
  of finished runs only.
* Instants within a second for `CheckSuite`, whose ticks are whole seconds: a tick
  of its clock is a second or more. `CheckRun` has them.
* Limits of the CRD schema other than `status.active` (64 entries, 128 checks,
  253 characters of a trigger value, which the status would refuse).
* TLS, HTTP methods, headers and health service names: they decide what a server
  answers, and every answer is modelled. Messages and durations of results.
* Events, log lines, histograms, the counters per check, flags, leader election (one active
  manager is assumed), generated code, charts and manifests.

## Plan

1. `CheckRun`, `RunLifecycle`, `RunnerPod`, `Schedule`, `ScheduleScan`,
   `CheckSuite`, and the theorems above: done.
2. Deletion of runs and suites, clashing and refused Jobs, schedules that do not
   parse or never fire, the limit of status.active, `Checker`, `SuitePromise`: done.
3. Theorems about every safety property of every component, and the safety
   parts of `ImplementsLifecycle` and `KeepsPromise`: done.
4. Theorems about `CheckSuite` with small limits, Replace, triggers and deletions, and
   `PodLife` between `RunnerPod` and `CheckRun`: done.
5. Next: that `Checker` gives `RunnerPod` the steps of its probes, and a tick run once with
   small limits and stale caches, if no reconcile of it fails after the creation.
6. Several runs of a suite that set the same gauges.
