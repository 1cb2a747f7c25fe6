--------------------------- MODULE CheckRunProofs ---------------------------
(***************************************************************************)
(* Theorems about module CheckRun, for every number of runners, checks,    *)
(* pods, replicas, faults and every clock.                                 *)
(***************************************************************************)
EXTENDS CheckRun, FiniteSetTheorems, TLAPS

-----------------------------------------------------------------------------
(* Type correctness.                                                       *)

\* The values the reconciler starts from are of their types.
LEMMA InitialValues ==
    /\ 0 \in Times
    /\ NewStatus \in CheckRunStatus
    /\ NoRec \in RecType
    /\ NoJobs \in [Runners -> JobStates]
    /\ NoConditions \in [ConditionTypes -> Reasons \cup {None}]
<1>1. 0 \in Times
  BY TimeAssumption DEF Times
<1>2. NoConditions \in [ConditionTypes -> Reasons \cup {None}]
  BY DEF NoConditions
<1>3. NewStatus \in CheckRunStatus
  BY <1>2 DEF NewStatus, CheckRunStatus, Phases
<1>4. NoJobs \in [Runners -> JobStates]
  BY DEF NoJobs, JobStates
<1>5. NoRec \in RecType
  BY <1>1, <1>3 DEF NoRec, RecType, Phases
<1> QED BY <1>1, <1>2, <1>3, <1>4, <1>5

\* The definitions that a summary counts are finitely many, so a summary that
\* aggregate() computes counts them in natural numbers.
LEMMA AggregateType ==
    ASSUME NEW E PROVE /\ IsFiniteSet(definitions)
                       /\ IsFiniteSet(failing(E))
                       /\ aggregate(E) \in RunSummary
<1>1. IsFiniteSet(Runners)
  BY FS_Interval, RunnersAssumption DEF Runners
<1>2. IsFiniteSet(Runners \X Checks)
  BY <1>1, FS_Product, ChecksAssumption
<1>3. IsFiniteSet(definitions)
  BY <1>2, FS_Subset DEF definitions
<1>4. IsFiniteSet(failing(E)) /\ IsFiniteSet(definitions \ failing(E))
  BY <1>3, FS_Subset DEF failing
<1>5. aggregate(E) \in RunSummary
  BY <1>3, <1>4, FS_CardinalityType DEF aggregate, RunSummary
<1> QED BY <1>3, <1>4, <1>5

\* The start of the run that a reconcile works with is a time, as is what of it and
\* of the end is stored.
LEMMA StartTimeType ==
    TypeOK => /\ startTime \in Times /\ recordedStart \in Times
              /\ rec.now \in Times /\ Whole[rec.now] \in Times
<1> SUFFICES ASSUME TypeOK
             PROVE  /\ startTime \in Times /\ recordedStart \in Times
                    /\ rec.now \in Times /\ Whole[rec.now] \in Times
  OBVIOUS
<1>1. rec.now \in Times /\ startTime \in Times
  BY DEF TypeOK, RecType, CheckRunStatus, startTime
<1> QED BY <1>1, WholeAssumption DEF recordedStart

\* A status write of well-typed fields leaves a well-typed status.
LEMMA ApplyStatusType ==
    ASSUME TypeOK, NEW phase \in Phases, NEW ct \in Times \cup {None},
           NEW summary \in RunSummary \cup {None},
           NEW conditions \in [ConditionTypes -> Reasons \cup {None}],
           applyStatus(phase, ct, summary, conditions)
    PROVE  status' \in CheckRunStatus /\ reported' \in SUBSET Pods
<1>1. recordedStart \in Times
  BY StartTimeType
<1>2. status' \in CheckRunStatus
  BY <1>1 DEF applyStatus, CheckRunStatus
<1> QED BY <1>2 DEF applyStatus, TypeOK

\* The end of a reconcile leaves the controller's variables well typed.
LEMMA EndReconcileType ==
    ASSUME TypeOK, NEW b \in BOOLEAN, EndReconcile(b)
    PROVE  pc' = "idle" /\ rec' = NoRec /\ rec' \in RecType /\ queued' \in BOOLEAN
BY InitialValues DEF EndReconcile, TypeOK

LEMMA FaultType ==
    ASSUME TypeOK, Fault
    PROVE  /\ pc' = "idle" /\ rec' = NoRec /\ rec' \in RecType /\ queued' \in BOOLEAN
           /\ faults' \in 0 .. MaxFaults
<1>1. EndReconcile(TRUE)
  BY DEF Fault
<1>2. faults' \in 0 .. MaxFaults
  BY BoundsAssumption DEF Fault, TypeOK
<1> QED BY <1>1, <1>2, EndReconcileType

LEMMA FinishType ==
    ASSUME TypeOK, NEW phase \in TerminalPhases, NEW summary \in RunSummary \cup {None},
           NEW type \in ConditionTypes \cup {None}, NEW reason \in Reasons \cup {None},
           finish(phase, summary, type, reason)
    PROVE  TypeOK'
<1>1. finishConditions(phase, type, reason) \in [ConditionTypes -> Reasons \cup {None}]
  BY DEF finishConditions, SetStatusCondition, TypeOK, RecType, CheckRunStatus,
         ConditionTypes, Reasons
<1>2. applyStatus(phase, Whole[rec.now], summary, finishConditions(phase, type, reason))
  BY DEF finish
<1>3. phase \in Phases /\ Whole[rec.now] \in Times
  BY StartTimeType DEF Phases
<1>4. status' \in CheckRunStatus /\ reported' \in SUBSET Pods
  BY <1>1, <1>2, <1>3, ApplyStatusType
<1>5. CASE pc' = "metrics" /\ rec' = [rec EXCEPT !.phase = phase] /\ UNCHANGED <<queued, faults>>
  <2>1. rec' \in RecType
    BY <1>3, <1>5 DEF TypeOK, RecType
  <2> QED BY <1>4, <1>5, <2>1 DEF finish, fixed, TypeOK
<1>6. CASE Fault
  BY <1>4, <1>6, FaultType DEF finish, fixed, TypeOK
<1> QED BY <1>5, <1>6 DEF finish

\* The timer that a reconcile asks for is a time: it looks at the clock again
\* only after it found the deadline ahead, so the delay is a natural number.
LEMMA TimerType ==
    ASSUME TypeOK, ~deadlineExceeded
    PROVE  requeueAfter(untilDeadline) \in Times \cup {None}
<1>1. startTime \in Times /\ rec.now \in Times /\ now \in Times /\ timer \in Times \cup {None}
  BY StartTimeType DEF TypeOK
<1>2. untilDeadline \in Nat
  BY <1>1, TimeAssumption DEF untilDeadline, deadlineExceeded, Times
<1> QED BY <1>1, <1>2, TimeAssumption DEF requeueAfter, Times

\* The initial state is well typed.
LEMMA InitTypeOK == Init => TypeOK
<1> SUFFICES ASSUME Init PROVE TypeOK
  OBVIOUS
<1>1. cache \in CacheType
  BY InitialValues DEF Init, CacheType
<1>2. passed \in [Pods -> SUBSET Checks] /\ pod \in [Pods -> {"none", "running", "succeeded", "failed", "lost"}]
  BY DEF Init
<1>3. runsTotal \in [TerminalPhases -> Nat] /\ jobStart \in [Runners -> Times \cup {None}]
  BY DEF Init
<1>4. faults \in 0 .. MaxFaults
  BY BoundsAssumption DEF Init
<1>5. foreign \in SUBSET Runners /\ refused \in SUBSET Runners
  BY FlagsAssumption DEF Init
<1>6. jobs \in [Runners -> JobStates]
  BY DEF Init, JobStates
<1> QED BY <1>1, <1>2, <1>3, <1>4, <1>5, <1>6, InitialValues DEF Init, TypeOK

\* Every step of the reconciler leaves a well-typed state.
LEMMA ReconcileTypeOK == TypeOK /\ Reconcile => TypeOK'
<1> SUFFICES ASSUME TypeOK, Reconcile PROVE TypeOK'
  OBVIOUS
<1> USE DEF fixed, apiVars, ctlVars, envVars
<1>1. CASE ReconcileGone \/ IgnoreTerminal
  BY <1>1 DEF ReconcileGone, IgnoreTerminal, TypeOK
<1>2. CASE ReconcileStart
  <2>1. rec' \in RecType
    BY <1>2, InitialValues DEF ReconcileStart, TypeOK, RecType, CacheType
  <2> QED BY <1>2, <2>1 DEF ReconcileStart, TypeOK
<1>3. CASE GetServiceAccount
  BY <1>3 DEF GetServiceAccount, TypeOK
<1>4. CASE FinishServiceAccountMissing
  BY <1>4, FinishType DEF FinishServiceAccountMissing, TerminalPhases, ConditionTypes, Reasons
<1>5. ASSUME NEW r \in Runners, GetJob(r) PROVE TypeOK'
  <2>1. cache.jobs[r] \in JobStates
    BY <1>5 DEF TypeOK, CacheType
  <2>2. rec' \in RecType
    BY <1>5, <2>1 DEF GetJob, TypeOK, RecType
  <2> QED BY <1>5, <2>2 DEF GetJob, TypeOK
<1>6. ASSUME NEW r \in Runners, CreateJob(r) PROVE TypeOK'
  <2> Whole[now] \in Times
    BY WholeAssumption DEF TypeOK
  <2>1. jobs' \in [Runners -> JobStates] /\ jobStart' \in [Runners -> Times \cup {None}]
    BY <1>6 DEF CreateJob, TypeOK, JobStates
  <2>2. CASE rec' = [rec EXCEPT !.jobs[r] = "active"] /\ UNCHANGED <<pc, queued, faults>>
    <3>1. rec' \in RecType
      BY <2>2 DEF TypeOK, RecType, JobStates
    <3> QED BY <1>6, <2>1, <2>2, <3>1 DEF CreateJob, TypeOK
  <2>3. CASE Fault
    BY <1>6, <2>1, <2>3, FaultType DEF CreateJob, TypeOK
  <2> QED BY <1>6, <2>2, <2>3 DEF CreateJob
<1>7. CASE FinishDeadlineExceeded
  BY <1>7, FinishType DEF FinishDeadlineExceeded, TerminalPhases, ConditionTypes, Reasons
<1>8. CASE FinishRunnerError
  BY <1>8, FinishType DEF FinishRunnerError, TerminalPhases, ConditionTypes, Reasons
<1>9. CASE FinishAggregated
  <2>1. aggregate(rec.reported) \in RunSummary
    BY AggregateType
  <2> QED BY <1>9, <2>1, FinishType DEF FinishAggregated, TerminalPhases
<1>10. CASE StayRunning
  <2>1. rec.status.conditions \in [ConditionTypes -> Reasons \cup {None}]
    BY DEF TypeOK, RecType, CheckRunStatus
  <2>2. status' \in CheckRunStatus /\ reported' \in SUBSET Pods
    BY <1>10, <2>1, ApplyStatusType DEF StayRunning, Phases
  <2>3. CASE EndReconcile(FALSE) /\ timer' = requeueAfter(untilDeadline) /\ UNCHANGED faults
    <3>1. timer' \in Times \cup {None}
      BY <1>10, <2>3, TimerType DEF StayRunning
    <3> QED BY <1>10, <2>2, <2>3, <3>1, EndReconcileType DEF StayRunning, TypeOK
  <2>4. CASE Fault /\ UNCHANGED timer
    BY <1>10, <2>2, <2>4, FaultType DEF StayRunning, TypeOK
  <2> QED BY <1>10, <2>3, <2>4 DEF StayRunning
<1>11. CASE recordMetrics
  <2>1. runsTotal' \in [TerminalPhases -> Nat]
    <3>1. runsTotal \in [TerminalPhases -> Nat]
      BY DEF TypeOK
    <3>2. runsTotal' = [runsTotal EXCEPT ![rec.phase] = @ + 1]
      BY <1>11 DEF recordMetrics
    <3>3. ASSUME NEW phase \in TerminalPhases PROVE runsTotal'[phase] \in Nat
      BY <3>1, <3>2, <3>3
    <3> QED BY <3>1, <3>2, <3>3
  <2>2. lastResults(rec.reported) \in [pass: SUBSET Checks, fail: SUBSET Checks]
    BY DEF lastResults
  <2>3. gauge' \in [pass: SUBSET Checks, fail: SUBSET Checks] \cup {None}
    BY <1>11, <2>2 DEF recordMetrics, SetLastResults, TypeOK
  <2>4. CASE rec.phase = "Error"
    BY <1>11, <2>1, <2>3, <2>4, EndReconcileType DEF recordMetrics, TypeOK
  <2>5. CASE rec.phase # "Error"
    BY <1>11, <2>1, <2>3, <2>5 DEF recordMetrics, TypeOK
  <2> QED BY <2>4, <2>5
<1>12. CASE recheckSuite
  <2>1. gauge' \in {gauge, None}
    BY <1>12 DEF recheckSuite, DeleteSuite
  <2> QED BY <1>12, <2>1, EndReconcileType DEF recheckSuite, TypeOK
<1>13. ASSUME NEW r \in Runners, JobRefused(r) PROVE TypeOK'
  BY <1>13, EndReconcileType DEF JobRefused, TypeOK
<1>14. CASE StatusWriteFindsNoRun
  BY <1>14, EndReconcileType DEF StatusWriteFindsNoRun, TypeOK
<1> QED BY <1>1, <1>2, <1>3, <1>4, <1>5, <1>6, <1>7, <1>8, <1>9, <1>10, <1>11, <1>12, <1>13, <1>14
        DEF Reconcile

\* Every other step does, too.
LEMMA EnvironmentTypeOK ==
    TypeOK /\ (\/ ApiError \/ Restart \/ SyncRun \/ SyncJobs \/ FireTimer
               \/ SuiteDeleted \/ CleanUpSuite \/ Tick \/ Cluster) => TypeOK'
<1> SUFFICES ASSUME TypeOK,
                    \/ ApiError \/ Restart \/ SyncRun \/ SyncJobs \/ FireTimer
                    \/ SuiteDeleted \/ CleanUpSuite \/ Tick \/ Cluster
             PROVE  TypeOK'
  OBVIOUS
<1> USE DEF fixed, apiVars, ctlVars, envVars
<1>1. CASE ApiError
  BY <1>1, FaultType DEF ApiError, TypeOK
<1>2. CASE Restart
  <2>1. cache' \in CacheType
    BY <1>2 DEF Restart, TypeOK, CacheType
  <2>2. faults' \in 0 .. MaxFaults
    BY <1>2, BoundsAssumption DEF Restart, TypeOK
  <2>3. runsTotal' \in [TerminalPhases -> Nat]
    BY <1>2 DEF Restart
  <2> QED BY <1>2, <2>1, <2>2, <2>3, InitialValues DEF Restart, TypeOK
<1>3. CASE SyncRun \/ SyncJobs
  <2>1. cache' \in CacheType
    <3>1. CASE SyncRun
      BY <3>1 DEF SyncRun, TypeOK, CacheType
    <3>2. CASE SyncJobs
      BY <3>2 DEF SyncJobs, TypeOK, CacheType
    <3> QED BY <1>3, <3>1, <3>2
  <2>2. queued' \in BOOLEAN /\ UNCHANGED <<apiVars, envVars, pc, rec, timer, runsTotal, gauge, suite>>
    BY <1>3 DEF SyncRun, SyncJobs, TypeOK
  <2> QED BY <2>1, <2>2 DEF TypeOK
<1>4. CASE FireTimer \/ SuiteDeleted \/ CleanUpSuite
  BY <1>4 DEF FireTimer, SuiteDeleted, CleanUpSuite, DeleteSuite, TypeOK
<1>5. CASE Tick
  BY <1>5, TimeAssumption DEF Tick, TypeOK, Times
<1>6. CASE SetServiceAccount
  BY <1>6, BoundsAssumption DEF SetServiceAccount, TypeOK
<1>7. ASSUME NEW p \in Pods, PodCreate(p) \/ PodSucceed(p) \/ PodFail(p) PROVE TypeOK'
  BY <1>7 DEF PodCreate, PodSucceed, PodFail, TypeOK
<1>8. ASSUME NEW p \in Pods, PodReport(p) PROVE TypeOK'
  <2>1. passed' \in [Pods -> SUBSET Checks]
    BY <1>8 DEF PodReport, TypeOK, FilterChecks
  <2> QED BY <1>8, <2>1 DEF PodReport, TypeOK
<1>9. ASSUME NEW r \in Runners, JobComplete(r) \/ JobFail(r) \/ ForeignJobEnds(r) \/ CollectJob(r)
      PROVE  TypeOK'
  <2>1. \E state \in JobStates : jobs' = [jobs EXCEPT ![r] = state]
    BY <1>9 DEF JobComplete, JobFail, ForeignJobEnds, CollectJob, JobStates
  <2>2. jobs' \in [Runners -> JobStates]
    BY <2>1 DEF TypeOK
  <2> QED BY <1>9, <2>2 DEF JobComplete, JobFail, ForeignJobEnds, CollectJob, TypeOK
<1>10. CASE DeleteRun
  BY <1>10 DEF DeleteRun, TypeOK
<1> QED BY <1>1, <1>2, <1>3, <1>4, <1>5, <1>6, <1>7, <1>8, <1>9, <1>10 DEF Cluster

\* In every state the status, the caches, the reconcile in progress, the timer
\* and the metrics hold values of the types the code declares for them; above
\* all, the RequeueAfter of a running run never points to the past.
THEOREM TypeCorrect == Spec => []TypeOK
<1>1. Init => TypeOK
  BY InitTypeOK
<1>2. TypeOK /\ [Next]_vars => TypeOK'
  <2> SUFFICES ASSUME TypeOK, [Next]_vars PROVE TypeOK'
    OBVIOUS
  <2>1. CASE Next
    BY <2>1, ReconcileTypeOK, EnvironmentTypeOK DEF Next
  <2>2. CASE UNCHANGED vars
    BY <2>2 DEF vars, fixed, apiVars, ctlVars, envVars, TypeOK
  <2> QED BY <2>1, <2>2
<1> QED BY <1>1, <1>2, PTL DEF Spec

-----------------------------------------------------------------------------
(* Verdicts.                                                               *)

\* The caches and the reconcile in progress are behind the API server, never
\* ahead of it: the entries they know have landed, and a Job that ended in
\* them has ended so, unless the run was deleted and its Jobs with it.
ReadsAreOld ==
    /\ cache.reported \subseteq reported
    /\ rec.reported \subseteq reported
    /\ present => \A r \in Runners :
         /\ cache.jobs[r] \in {"complete", "failed"} => jobs[r] = cache.jobs[r]
         /\ rec.jobs[r] \in {"complete", "failed"} => jobs[r] = rec.jobs[r]

\* The inductive invariant behind VerdictSound and ErrorHasCause: a verdict is
\* written from old reads, and they are evidence because entries are only
\* added and the condition of a Job is final.
IInv == TypeOK /\ ReadsAreOld /\ VerdictSound /\ ErrorHasCause

\* The summary counts a failure exactly when some entry failed some check.
LEMMA FailedCount ==
    ASSUME NEW E \in SUBSET Pods
    PROVE  (aggregate(E).failed > 0) <=> (\E p \in E : ~passedAll(p))
<1>1. aggregate(E).failed = Cardinality(failing(E)) /\ IsFiniteSet(failing(E))
  BY AggregateType DEF aggregate
<1>2. (aggregate(E).failed > 0) <=> (failing(E) # {})
  BY <1>1, FS_EmptySet, FS_CardinalityType
<1>3. ASSUME NEW d \in failing(E) PROVE \E p \in E : ~passedAll(p)
  BY <1>3 DEF failing, definitions, podsOf, passedAll
<1>4. ASSUME NEW p \in E, ~passedAll(p) PROVE failing(E) # {}
  <2>1. PICK c \in FilterChecks(RunnerOf[p]) : c \notin passed[p]
    BY <1>4 DEF passedAll
  <2>2. RunnerOf[p] \in Runners /\ c \in Checks
    BY PodsAssumption DEF FilterChecks
  <2>3. <<RunnerOf[p], c>> \in failing(E)
    BY <2>1, <2>2 DEF failing, definitions, podsOf
  <2> QED BY <2>3
<1> QED BY <1>2, <1>3, <1>4

LEMMA InitIInv == Init => IInv
<1> SUFFICES ASSUME Init PROVE IInv
  OBVIOUS
<1>1. TypeOK
  BY InitTypeOK
<1>2. ReadsAreOld
  BY DEF Init, ReadsAreOld, NoRec, NoJobs
<1>3. VerdictSound /\ ErrorHasCause
  BY DEF Init, NewStatus, VerdictSound, ErrorHasCause
<1> QED BY <1>1, <1>2, <1>3 DEF IInv

\* Nothing makes a read newer than the API server: entries are added there,
\* Jobs end there, and the caches copy.
LEMMA ReadsStayOld == IInv /\ [Next]_vars => ReadsAreOld'
<1> SUFFICES ASSUME IInv, [Next]_vars PROVE ReadsAreOld'
  OBVIOUS
<1> USE DEF fixed, apiVars, ctlVars, envVars
<1>0. TypeOK /\ ReadsAreOld
  BY DEF IInv
<1>1. ASSUME rec' = NoRec, UNCHANGED <<present, reported, jobs, cache>> PROVE ReadsAreOld'
  BY <1>0, <1>1 DEF ReadsAreOld, NoRec
<1>2. ASSUME NEW phase, rec' = [rec EXCEPT !.phase = phase], UNCHANGED <<present, reported, jobs, cache>>
      PROVE  ReadsAreOld'
  BY <1>0, <1>2 DEF ReadsAreOld, TypeOK, RecType
<1>3. ASSUME NEW phase, NEW summary, NEW type, NEW reason, finish(phase, summary, type, reason)
      PROVE  ReadsAreOld'
  BY <1>1, <1>2, <1>3 DEF finish, applyStatus, Fault, EndReconcile
<1>4. CASE \/ ReconcileGone \/ IgnoreTerminal \/ GetServiceAccount \/ FireTimer \/ SuiteDeleted
           \/ CleanUpSuite \/ Tick \/ SetServiceAccount
  BY <1>0, <1>4 DEF ReconcileGone, IgnoreTerminal, GetServiceAccount, FireTimer, SuiteDeleted,
     CleanUpSuite, Tick, SetServiceAccount, ReadsAreOld
<1>5. CASE ReconcileStart
  BY <1>0, <1>5 DEF ReconcileStart, NoRec, ReadsAreOld
<1>6. CASE FinishServiceAccountMissing \/ FinishDeadlineExceeded \/ FinishRunnerError \/ FinishAggregated
  BY <1>3, <1>6 DEF FinishServiceAccountMissing, FinishDeadlineExceeded, FinishRunnerError, FinishAggregated
<1>7. ASSUME NEW r \in Runners, GetJob(r) PROVE ReadsAreOld'
  BY <1>0, <1>7 DEF GetJob, ReadsAreOld, TypeOK, RecType
<1>8. ASSUME NEW r \in Runners, CreateJob(r) PROVE ReadsAreOld'
  <2>1. \A q \in Runners : jobs[q] \in {"complete", "failed"} => jobs'[q] = jobs[q]
    BY <1>0, <1>8 DEF CreateJob, TypeOK
  <2>2. CASE rec' = [rec EXCEPT !.jobs[r] = "active"]
    <3>1. rec'.reported = rec.reported /\ rec'.jobs = [rec.jobs EXCEPT ![r] = "active"]
      BY <1>0, <2>2 DEF TypeOK, RecType
    <3>2. \A q \in Runners : rec'.jobs[q] \in {"complete", "failed"} => rec'.jobs[q] = rec.jobs[q]
      BY <1>0, <3>1 DEF TypeOK, RecType
    <3> QED BY <1>0, <1>8, <2>1, <3>1, <3>2 DEF CreateJob, ReadsAreOld
  <2>3. CASE Fault
    <3>1. rec' = NoRec
      BY <2>3 DEF Fault, EndReconcile
    <3> QED BY <1>0, <1>8, <2>1, <3>1 DEF CreateJob, NoRec, ReadsAreOld
  <2> QED BY <1>8, <2>2, <2>3 DEF CreateJob
<1>9. CASE \/ StayRunning \/ recordMetrics \/ recheckSuite \/ ApiError \/ StatusWriteFindsNoRun
           \/ \E r \in Runners : JobRefused(r)
  <2>1. rec' \in {rec, NoRec}
    BY <1>9 DEF StayRunning, recordMetrics, recheckSuite, ApiError, StatusWriteFindsNoRun, JobRefused,
       Fault, EndReconcile
  <2>2. UNCHANGED <<present, reported, jobs, cache>>
    BY <1>9 DEF StayRunning, recordMetrics, recheckSuite, ApiError, StatusWriteFindsNoRun, JobRefused,
       applyStatus
  <2>3. CASE rec' = rec
    BY <1>0, <2>2, <2>3 DEF ReadsAreOld
  <2> QED BY <1>1, <2>1, <2>2, <2>3
<1>10. CASE Restart
  <2>1. rec' = NoRec /\ UNCHANGED <<present, reported, jobs>>
    BY <1>10 DEF Restart
  <2>2. \/ cache' = cache
        \/ cache' = [present |-> present, status |-> status, reported |-> reported, jobs |-> jobs]
    BY <1>10 DEF Restart
  <2>3. /\ cache'.reported \subseteq reported
        /\ present => \A r \in Runners :
             cache'.jobs[r] \in {"complete", "failed"} => jobs[r] = cache'.jobs[r]
    BY <1>0, <2>2 DEF ReadsAreOld
  <2>4. present' => present
    BY <2>1
  <2>5. \A r \in Runners : rec'.jobs[r] = "unread" /\ rec'.reported = {}
    BY <2>1 DEF NoRec
  <2>6. rec'.reported \subseteq reported'
    BY <2>1 DEF NoRec
  <2>7. present' => \A r \in Runners :
          /\ cache'.jobs[r] \in {"complete", "failed"} => jobs'[r] = cache'.jobs[r]
          /\ rec'.jobs[r] \in {"complete", "failed"} => jobs'[r] = rec'.jobs[r]
    BY <2>1, <2>3, <2>4, <2>5
  <2>8. cache'.reported \subseteq reported'
    BY <2>1, <2>3
  <2> QED BY <2>6, <2>7, <2>8 DEF ReadsAreOld
<1>11. CASE SyncRun \/ SyncJobs
  <2>1. UNCHANGED <<present, reported, jobs, rec>>
    BY <1>11 DEF SyncRun, SyncJobs
  <2>2. /\ cache'.reported \in {cache.reported, reported}
        /\ cache'.jobs \in {cache.jobs, jobs}
    <3>1. CASE SyncRun
      BY <1>0, <3>1 DEF SyncRun, TypeOK, CacheType
    <3>2. CASE SyncJobs
      <4>1. cache' = [cache EXCEPT !.jobs = jobs]
        BY <3>2 DEF SyncJobs
      <4> QED BY <1>0, <4>1 DEF TypeOK, CacheType
    <3> QED BY <1>11, <3>1, <3>2
  <2> QED BY <1>0, <2>1, <2>2 DEF ReadsAreOld
<1>12. ASSUME NEW p \in Pods, PodCreate(p) \/ PodReport(p) \/ PodSucceed(p) \/ PodFail(p)
       PROVE  ReadsAreOld'
  BY <1>0, <1>12 DEF PodCreate, PodReport, PodSucceed, PodFail, ReadsAreOld
<1>13. ASSUME NEW r \in Runners, JobComplete(r) \/ JobFail(r) \/ ForeignJobEnds(r)
       PROVE  ReadsAreOld'
  <2>1. \A q \in Runners : jobs[q] \in {"complete", "failed"} => jobs'[q] = jobs[q]
    BY <1>0, <1>13 DEF JobComplete, JobFail, ForeignJobEnds, TypeOK
  <2> QED BY <1>0, <1>13, <2>1 DEF JobComplete, JobFail, ForeignJobEnds, ReadsAreOld
<1>14. CASE UNCHANGED vars
  BY <1>0, <1>14 DEF vars, ReadsAreOld
<1>15. CASE DeleteRun \/ \E r \in Runners : CollectJob(r)
  BY <1>0, <1>15 DEF DeleteRun, CollectJob, ReadsAreOld
<1> QED BY <1>4, <1>5, <1>6, <1>7, <1>8, <1>9, <1>10, <1>11, <1>12, <1>13, <1>14, <1>15
        DEF Next, Reconcile, Cluster

\* What a status write that is no verdict leaves true.
LEMMA NoVerdictWritten ==
    ASSUME NEW phase, phase \notin {"Succeeded", "Failed"}, NEW ct, NEW summary, NEW conditions,
           applyStatus(phase, ct, summary, conditions)
    PROVE  VerdictSound'
BY DEF applyStatus, VerdictSound

\* A step that neither writes the status nor takes evidence away.
LEMMA EvidenceKept ==
    ASSUME TypeOK, VerdictSound, UNCHANGED <<present, status>>, reported \subseteq reported',
           \A p \in reported : passed'[p] = passed[p],
           \A r \in Runners : jobs[r] \in {"complete", "failed"} => jobs'[r] = jobs[r]
    PROVE  VerdictSound'
<1> SUFFICES ASSUME present, status.phase \in {"Succeeded", "Failed"}
             PROVE  VerdictSound'
  BY DEF VerdictSound
<1>1. PICK E \in SUBSET reported :
        /\ \A r \in Runners : Cardinality(podsOf(r, E)) >= Replicas[r]
        /\ (status.phase = "Succeeded") <=> (\A p \in E : passedAll(p))
  BY DEF VerdictSound
<1>2. \A p \in E : passedAll(p)' <=> passedAll(p)
  BY DEF passedAll
<1>3. \A r \in Runners : podsOf(r, E)' = podsOf(r, E)
  BY DEF podsOf
<1>4. \A r \in Runners : jobs'[r] = "complete"
  BY DEF VerdictSound
<1> QED BY <1>1, <1>2, <1>3, <1>4 DEF VerdictSound

\* The verdict of a reconcile that found every Job complete and entries enough.
LEMMA VerdictWritten == IInv /\ FinishAggregated => VerdictSound'
<1> SUFFICES ASSUME IInv, FinishAggregated PROVE VerdictSound'
  OBVIOUS
<1>0. PICK E, verdict :
        /\ E = rec.reported
        /\ verdict = IF aggregate(E).failed > 0 THEN "Failed" ELSE "Succeeded"
  OBVIOUS
<1>1. TypeOK /\ ReadsAreOld
  BY DEF IInv
<1>2. E \in SUBSET Pods /\ E \in SUBSET reported
  BY <1>0, <1>1 DEF TypeOK, RecType, ReadsAreOld
<1>3. status'.phase = verdict /\ UNCHANGED <<reported, passed, jobs>>
  BY <1>0 DEF FinishAggregated, finish, applyStatus
<1>4. \A r \in Runners : jobs[r] = "complete"
  BY <1>1 DEF FinishAggregated, finish, applyStatus, AllJobsSucceeded, jobSucceeded, ReadsAreOld
<1>5. \A r \in Runners : Cardinality(podsOf(r, E)) >= Replicas[r]
  BY <1>0 DEF FinishAggregated, complete
<1>6. (verdict = "Succeeded") <=> (\A p \in E : passedAll(p))
  BY <1>0, <1>2, FailedCount
<1>7. \A p \in E : passedAll(p)' <=> passedAll(p)
  BY <1>3 DEF passedAll
<1>8. \A r \in Runners : Cardinality(podsOf(r, E))' = Cardinality(podsOf(r, E))
  BY DEF podsOf
<1> QED BY <1>2, <1>3, <1>4, <1>5, <1>6, <1>7, <1>8 DEF VerdictSound

LEMMA VerdictStaysSound == IInv /\ [Next]_vars => VerdictSound'
<1> SUFFICES ASSUME IInv, [Next]_vars PROVE VerdictSound'
  OBVIOUS
<1> USE DEF fixed, apiVars, ctlVars, envVars
<1>0. TypeOK /\ VerdictSound
  BY DEF IInv
<1>1. ASSUME UNCHANGED <<present, status, reported, passed, jobs>> PROVE VerdictSound'
  BY <1>0, <1>1, EvidenceKept
<1>2. CASE \/ ReconcileGone \/ IgnoreTerminal \/ ReconcileStart \/ GetServiceAccount
           \/ StatusWriteFindsNoRun \/ recordMetrics \/ recheckSuite \/ ApiError \/ Restart
           \/ SyncRun \/ SyncJobs \/ FireTimer \/ SuiteDeleted \/ CleanUpSuite \/ Tick
           \/ SetServiceAccount
  BY <1>1, <1>2 DEF ReconcileGone, IgnoreTerminal, ReconcileStart, GetServiceAccount,
     StatusWriteFindsNoRun, recordMetrics, recheckSuite, ApiError, Restart, SyncRun, SyncJobs,
     FireTimer, SuiteDeleted, CleanUpSuite, Tick, SetServiceAccount
<1>3. CASE FinishServiceAccountMissing \/ FinishDeadlineExceeded \/ FinishRunnerError
  BY <1>3, NoVerdictWritten
     DEF FinishServiceAccountMissing, FinishDeadlineExceeded, FinishRunnerError, finish
<1>4. CASE FinishAggregated
  BY <1>4, VerdictWritten
<1>5. CASE StayRunning
  BY <1>5, NoVerdictWritten DEF StayRunning
<1>6. ASSUME NEW r \in Runners, GetJob(r) \/ JobRefused(r) PROVE VerdictSound'
  BY <1>1, <1>6 DEF GetJob, JobRefused
<1>7. ASSUME NEW r \in Runners, CreateJob(r) \/ JobComplete(r) \/ JobFail(r) \/ ForeignJobEnds(r)
      PROVE  VerdictSound'
  <2>1. \A q \in Runners : jobs[q] \in {"complete", "failed"} => jobs'[q] = jobs[q]
    BY <1>0, <1>7 DEF CreateJob, JobComplete, JobFail, ForeignJobEnds, TypeOK
  <2>2. UNCHANGED <<present, status, reported, passed>>
    BY <1>7 DEF CreateJob, JobComplete, JobFail, ForeignJobEnds
  <2> QED BY <1>0, <2>1, <2>2, EvidenceKept
<1>8. ASSUME NEW p \in Pods, PodReport(p) PROVE VerdictSound'
  <2>1. reported \subseteq reported' /\ UNCHANGED <<present, status, jobs>>
    BY <1>8 DEF PodReport
  <2>2. \A q \in reported : passed'[q] = passed[q]
    BY <1>0, <1>8 DEF PodReport, TypeOK
  <2> QED BY <1>0, <2>1, <2>2, EvidenceKept
<1>9. ASSUME NEW p \in Pods, PodCreate(p) \/ PodSucceed(p) \/ PodFail(p) PROVE VerdictSound'
  BY <1>1, <1>9 DEF PodCreate, PodSucceed, PodFail
<1>10. CASE UNCHANGED vars
  BY <1>1, <1>10 DEF vars
<1>11. CASE DeleteRun \/ \E r \in Runners : CollectJob(r)
  BY <1>11 DEF DeleteRun, CollectJob, VerdictSound
<1> QED BY <1>2, <1>3, <1>4, <1>5, <1>6, <1>7, <1>8, <1>9, <1>10, <1>11 DEF Next, Reconcile, Cluster

\* The condition that comes with a finish is in the conditions it writes.
LEMMA ConditionWritten ==
    ASSUME TypeOK, NEW phase, NEW type \in {"RunnerServiceAccountMissing", "DeadlineExceeded"},
           NEW reason, finish(phase, None, type, reason)
    PROVE  status'.conditions[type] = reason
<1>1. rec.status.conditions \in [ConditionTypes -> Reasons \cup {None}]
  BY DEF TypeOK, RecType, CheckRunStatus
<1>2. type # None /\ type # "Completed" /\ type \in ConditionTypes
  BY NoneAssumption DEF ConditionTypes
<1>3. finishConditions(phase, type, reason)[type] = reason
  BY <1>1, <1>2 DEF finishConditions, SetStatusCondition
<1> QED BY <1>3 DEF finish, applyStatus

LEMMA ErrorKeepsCause == IInv /\ [Next]_vars => ErrorHasCause'
<1> SUFFICES ASSUME IInv, [Next]_vars PROVE ErrorHasCause'
  OBVIOUS
<1> USE DEF fixed, apiVars, ctlVars, envVars
<1>0. TypeOK /\ ErrorHasCause /\ ReadsAreOld
  BY DEF IInv
<1>1. ASSUME UNCHANGED <<present, status>>,
             \A r \in Runners : jobs[r] = "failed" => jobs'[r] = "failed"
      PROVE  ErrorHasCause'
  BY <1>0, <1>1 DEF ErrorHasCause
<1>2. CASE \/ ReconcileGone \/ IgnoreTerminal \/ ReconcileStart \/ GetServiceAccount
           \/ StatusWriteFindsNoRun \/ recordMetrics \/ recheckSuite \/ ApiError \/ Restart
           \/ SyncRun \/ SyncJobs \/ FireTimer \/ SuiteDeleted \/ CleanUpSuite \/ Tick
           \/ SetServiceAccount
  BY <1>1, <1>2 DEF ReconcileGone, IgnoreTerminal, ReconcileStart, GetServiceAccount,
     StatusWriteFindsNoRun, recordMetrics, recheckSuite, ApiError, Restart, SyncRun, SyncJobs,
     FireTimer, SuiteDeleted, CleanUpSuite, Tick, SetServiceAccount
<1>3. CASE FinishServiceAccountMissing
  <2>1. status'.conditions["RunnerServiceAccountMissing"] = "ServiceAccountNotFound"
    BY <1>0, <1>3, ConditionWritten DEF FinishServiceAccountMissing
  <2>2. "ServiceAccountNotFound" # None
    BY NoneAssumption DEF Reasons
  <2> QED BY <2>1, <2>2 DEF ErrorHasCause
<1>4. CASE FinishDeadlineExceeded
  <2>1. status'.conditions["DeadlineExceeded"] = "Timeout"
    BY <1>0, <1>4, ConditionWritten DEF FinishDeadlineExceeded
  <2>2. "Timeout" # None
    BY NoneAssumption DEF Reasons
  <2> QED BY <2>1, <2>2 DEF ErrorHasCause
<1>5. CASE FinishRunnerError
  <2>1. PICK r \in Runners : rec.jobs[r] = "failed"
    BY <1>5 DEF FinishRunnerError, AnyJobFailed, jobFailed
  <2>2. jobs'[r] = "failed"
    BY <1>0, <1>5, <2>1 DEF FinishRunnerError, finish, applyStatus, ReadsAreOld
  <2> QED BY <2>2 DEF ErrorHasCause
<1>6. CASE FinishAggregated \/ StayRunning
  <2>1. status'.phase \in {"Failed", "Succeeded", "Running"}
    <3>1. CASE FinishAggregated
      BY <3>1 DEF FinishAggregated, finish, applyStatus
    <3>2. CASE StayRunning
      BY <3>2 DEF StayRunning, applyStatus
    <3> QED BY <1>6, <3>1, <3>2
  <2> QED BY <2>1 DEF ErrorHasCause
<1>7. ASSUME NEW r \in Runners,
             \/ GetJob(r) \/ CreateJob(r) \/ JobRefused(r) \/ JobComplete(r) \/ JobFail(r)
             \/ ForeignJobEnds(r)
      PROVE  ErrorHasCause'
  <2>1. \A q \in Runners : jobs[q] = "failed" => jobs'[q] = "failed"
    BY <1>0, <1>7 DEF GetJob, CreateJob, JobRefused, JobComplete, JobFail, ForeignJobEnds, TypeOK
  <2> QED BY <1>1, <1>7, <2>1 DEF GetJob, CreateJob, JobRefused, JobComplete, JobFail, ForeignJobEnds
<1>8. ASSUME NEW p \in Pods, PodCreate(p) \/ PodReport(p) \/ PodSucceed(p) \/ PodFail(p)
      PROVE  ErrorHasCause'
  BY <1>1, <1>8 DEF PodCreate, PodReport, PodSucceed, PodFail
<1>9. CASE UNCHANGED vars
  BY <1>1, <1>9 DEF vars
<1>10. CASE DeleteRun \/ \E r \in Runners : CollectJob(r)
  BY <1>10 DEF DeleteRun, CollectJob, ErrorHasCause
<1> QED BY <1>2, <1>3, <1>4, <1>5, <1>6, <1>7, <1>8, <1>9, <1>10 DEF Next, Reconcile, Cluster

\* The inductive invariant holds, whatever the caches show and whichever calls
\* fail or are lost.
LEMMA Inductive == Spec => []IInv
<1>1. Init => IInv
  BY InitIInv
<1>2. IInv /\ [Next]_vars => IInv'
  <2> SUFFICES ASSUME IInv, [Next]_vars PROVE IInv'
    OBVIOUS
  <2>1. TypeOK'
    <3>1. CASE Next
      BY <3>1, ReconcileTypeOK, EnvironmentTypeOK DEF Next, IInv
    <3>2. CASE UNCHANGED vars
      BY <3>2 DEF vars, fixed, apiVars, ctlVars, envVars, IInv, TypeOK
    <3> QED BY <3>1, <3>2
  <2> QED BY <2>1, ReadsStayOld, VerdictStaysSound, ErrorKeepsCause DEF IInv
<1> QED BY <1>1, <1>2, PTL DEF Spec

\* Succeeded and Failed always rest on complete Jobs and on enough entries in
\* the API, with a stale cache, lost answers and restarts included.
THEOREM VerdictCorrect == Spec => []VerdictSound
<1>1. IInv => VerdictSound
  BY DEF IInv
<1> QED BY <1>1, Inductive, PTL

\* Error always has one of its three causes.
THEOREM ErrorCorrect == Spec => []ErrorHasCause
<1>1. IInv => ErrorHasCause
  BY DEF IInv
<1> QED BY <1>1, Inductive, PTL

-----------------------------------------------------------------------------
(* The gauges of a deleted suite.                                          *)

\* After the cleanup of a deleted suite its gauges stay away: a reconcile that
\* sets them has yet to look the suite up.
THEOREM GaugesStayGone == Spec => []DeletedSuiteHasNoGauges
<1> USE DEF fixed, apiVars, ctlVars, envVars, DeletedSuiteHasNoGauges
<1>1. Init => DeletedSuiteHasNoGauges
  BY DEF Init
<1>2. DeletedSuiteHasNoGauges /\ [Next]_vars => DeletedSuiteHasNoGauges'
  <2> SUFFICES ASSUME DeletedSuiteHasNoGauges, [Next]_vars PROVE DeletedSuiteHasNoGauges'
    OBVIOUS
  <2>1. ASSUME UNCHANGED <<gauge, suite>>, pc # "suiteRef" PROVE DeletedSuiteHasNoGauges'
    BY <2>1
  <2>2. ASSUME UNCHANGED <<gauge, suite, pc>> PROVE DeletedSuiteHasNoGauges'
    BY <2>2
  <2>3. CASE \/ IgnoreTerminal \/ ReconcileStart \/ GetServiceAccount
             \/ FinishServiceAccountMissing \/ FinishDeadlineExceeded \/ FinishRunnerError
             \/ FinishAggregated \/ StayRunning \/ ApiError \/ ReconcileGone \/ StatusWriteFindsNoRun
    BY <2>1, <2>3 DEF IgnoreTerminal, ReconcileStart, GetServiceAccount,
       FinishServiceAccountMissing, FinishDeadlineExceeded, FinishRunnerError, FinishAggregated,
       JobsEnsured, StayRunning, finish, ApiError, ReconcileGone, StatusWriteFindsNoRun
  <2>4. ASSUME NEW r \in Runners, GetJob(r) \/ CreateJob(r) \/ JobRefused(r)
        PROVE  DeletedSuiteHasNoGauges'
    BY <2>1, <2>4 DEF GetJob, CreateJob, JobRefused, NextRunner
  <2>5. CASE recordMetrics
    BY <2>1, <2>5 DEF recordMetrics
  <2>6. CASE recheckSuite
    BY <2>6 DEF recheckSuite, suiteGone, DeleteSuite
  <2>7. CASE Restart
    BY <2>7 DEF Restart
  <2>8. CASE SuiteDeleted
    BY <2>8 DEF SuiteDeleted
  <2>9. CASE CleanUpSuite
    BY <2>9 DEF CleanUpSuite, DeleteSuite
  <2>10. CASE \/ SyncRun \/ SyncJobs \/ FireTimer \/ Tick \/ SetServiceAccount \/ DeleteRun
             \/ UNCHANGED vars
    BY <2>2, <2>10 DEF SyncRun, SyncJobs, FireTimer, Tick, SetServiceAccount, DeleteRun, vars
  <2>11. ASSUME NEW p \in Pods, PodCreate(p) \/ PodReport(p) \/ PodSucceed(p) \/ PodFail(p)
         PROVE  DeletedSuiteHasNoGauges'
    BY <2>2, <2>11 DEF PodCreate, PodReport, PodSucceed, PodFail
  <2>12. ASSUME NEW r \in Runners, JobComplete(r) \/ JobFail(r) \/ ForeignJobEnds(r) \/ CollectJob(r)
         PROVE  DeletedSuiteHasNoGauges'
    BY <2>2, <2>12 DEF JobComplete, JobFail, ForeignJobEnds, CollectJob
  <2> QED BY <2>3, <2>4, <2>5, <2>6, <2>7, <2>8, <2>9, <2>10, <2>11, <2>12
          DEF Next, Reconcile, Cluster
<1> QED BY <1>1, <1>2, PTL DEF Spec

-----------------------------------------------------------------------------
(* What a step never does.                                                 *)

\* No step removes or rewrites an entry that a pod has reported: the only
\* writer of an entry is its pod, once.
THEOREM EntriesStay == Spec => EntriesKept
<1> DEFINE Kept == /\ reported \subseteq reported'
                   /\ \A p \in reported : passed'[p] = passed[p]
<1>1. TypeOK /\ [Next]_vars => [Kept]_vars
  <2> SUFFICES ASSUME TypeOK, Next PROVE Kept
    OBVIOUS
  <2> USE DEF fixed, apiVars, ctlVars, envVars
  <2>1. CASE UNCHANGED <<reported, passed>>
    BY <2>1
  <2>2. CASE Reconcile
    BY <2>1, <2>2 DEF Reconcile, ReconcileGone, IgnoreTerminal, ReconcileStart, GetServiceAccount,
       FinishServiceAccountMissing, GetJob, CreateJob, JobRefused, StatusWriteFindsNoRun, FinishDeadlineExceeded, FinishRunnerError,
       FinishAggregated, StayRunning, recordMetrics, recheckSuite, finish, applyStatus
  <2>3. CASE \/ ApiError \/ Restart \/ SyncRun \/ SyncJobs \/ FireTimer
             \/ SuiteDeleted \/ CleanUpSuite \/ Tick
    BY <2>1, <2>3 DEF ApiError, Restart, SyncRun, SyncJobs, FireTimer, SuiteDeleted, CleanUpSuite, Tick
  <2>4. ASSUME NEW p \in Pods, PodReport(p) PROVE Kept
    BY <2>4 DEF PodReport, TypeOK
  <2>5. CASE Cluster
    BY <2>1, <2>4, <2>5 DEF Cluster, SetServiceAccount, DeleteRun, PodCreate, PodSucceed, PodFail,
       JobComplete, JobFail, ForeignJobEnds, CollectJob
  <2> QED BY <2>2, <2>3, <2>5 DEF Next
<1> QED BY <1>1, TypeCorrect, PTL DEF Spec, EntriesKept

\* While a reconcile is under way, up to its status write, the run in the API is
\* not terminal: inductive only if the cache shows the controller's own writes.
ReadsAreFresh ==
    pc \in {"serviceAccount", "serviceAccountMissing", "jobs"} =>
        status.phase \notin TerminalPhases

\* If the cache shows the controller's own writes, then a terminal run keeps
\* its phase, times, summary and conditions for ever.
THEOREM TerminalStays == ReadYourWrites => (Spec => TerminalIsFinal)
<1> SUFFICES ASSUME ReadYourWrites PROVE Spec => TerminalIsFinal
  OBVIOUS
<1> USE DEF fixed, apiVars, ctlVars, envVars
<1>1. Init => ReadsAreFresh
  BY DEF Init, ReadsAreFresh
<1>2. TypeOK /\ ReadsAreFresh /\ [Next]_vars => ReadsAreFresh'
  <2> SUFFICES ASSUME TypeOK, ReadsAreFresh, [Next]_vars PROVE ReadsAreFresh'
    OBVIOUS
  <2>1. CASE pc' \in {"idle", "metrics", "suiteRef"}
    BY <2>1 DEF ReadsAreFresh
  <2>2. ASSUME UNCHANGED <<status, pc>> PROVE ReadsAreFresh'
    BY <2>2 DEF ReadsAreFresh
  <2>3. CASE ReconcileStart
    BY <2>3 DEF ReconcileStart, isTerminalPhase, ReadsAreFresh
  <2>4. CASE GetServiceAccount
    BY <2>4 DEF GetServiceAccount, ReadsAreFresh
  <2>5. CASE \/ FinishServiceAccountMissing \/ FinishDeadlineExceeded \/ FinishRunnerError
             \/ FinishAggregated
    BY <2>1, <2>5 DEF FinishServiceAccountMissing, FinishDeadlineExceeded, FinishRunnerError,
       FinishAggregated, finish, Fault, EndReconcile
  <2>6. CASE \/ StayRunning \/ StatusWriteFindsNoRun \/ recordMetrics \/ recheckSuite \/ ApiError
            \/ Restart \/ \E r \in Runners : JobRefused(r)
    BY <2>1, <2>6 DEF StayRunning, StatusWriteFindsNoRun, recordMetrics, recheckSuite, ApiError,
       Restart, JobRefused, Fault, EndReconcile
  <2>7. ASSUME NEW r \in Runners, CreateJob(r) PROVE ReadsAreFresh'
    BY <2>1, <2>2, <2>7 DEF CreateJob, Fault, EndReconcile
  <2>8. CASE \/ ReconcileGone \/ IgnoreTerminal \/ SyncRun \/ SyncJobs \/ FireTimer
             \/ SuiteDeleted \/ CleanUpSuite \/ Tick \/ UNCHANGED vars
    BY <2>2, <2>8 DEF ReconcileGone, IgnoreTerminal, SyncRun, SyncJobs, FireTimer, SuiteDeleted,
       CleanUpSuite, Tick, vars
  <2>9. ASSUME NEW r \in Runners,
               GetJob(r) \/ JobComplete(r) \/ JobFail(r) \/ ForeignJobEnds(r) \/ CollectJob(r)
        PROVE  ReadsAreFresh'
    BY <2>2, <2>9 DEF GetJob, JobComplete, JobFail, ForeignJobEnds, CollectJob
  <2>10. CASE SetServiceAccount \/ DeleteRun
    BY <2>2, <2>10 DEF SetServiceAccount, DeleteRun
  <2>11. ASSUME NEW p \in Pods, PodCreate(p) \/ PodReport(p) \/ PodSucceed(p) \/ PodFail(p)
         PROVE  ReadsAreFresh'
    BY <2>2, <2>11 DEF PodCreate, PodReport, PodSucceed, PodFail
  <2> QED BY <2>3, <2>4, <2>5, <2>6, <2>7, <2>8, <2>9, <2>10, <2>11 DEF Next, Reconcile, Cluster
<1>3. ReadsAreFresh /\ [Next]_vars => [status.phase \in TerminalPhases => UNCHANGED status]_vars
  <2> SUFFICES ASSUME ReadsAreFresh, Next, status.phase \in TerminalPhases PROVE UNCHANGED status
    OBVIOUS
  <2>1. pc \notin {"serviceAccount", "serviceAccountMissing", "jobs"}
    BY DEF ReadsAreFresh
  <2>2. CASE Reconcile
    BY <2>1, <2>2 DEF Reconcile, ReconcileGone, IgnoreTerminal, ReconcileStart, GetServiceAccount,
       FinishServiceAccountMissing, GetJob, CreateJob, JobRefused, NextRunner, JobsEnsured,
       StatusWriteFindsNoRun,
       FinishDeadlineExceeded, FinishRunnerError, FinishAggregated, StayRunning, recordMetrics,
       recheckSuite
  <2>3. CASE \/ ApiError \/ Restart \/ SyncRun \/ SyncJobs \/ FireTimer
             \/ SuiteDeleted \/ CleanUpSuite \/ Tick
    BY <2>3 DEF ApiError, Restart, SyncRun, SyncJobs, FireTimer, SuiteDeleted, CleanUpSuite, Tick
  <2>4. CASE Cluster
    BY <2>4 DEF Cluster, SetServiceAccount, DeleteRun, PodCreate, PodReport, PodSucceed, PodFail,
       JobComplete, JobFail, ForeignJobEnds, CollectJob
  <2> QED BY <2>2, <2>3, <2>4 DEF Next
<1> QED BY <1>1, <1>2, <1>3, TypeCorrect, PTL DEF Spec, TerminalIsFinal

=============================================================================
