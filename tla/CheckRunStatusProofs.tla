------------------------ MODULE CheckRunStatusProofs ------------------------
(***************************************************************************)
(* Theorems about the status that the CheckRun controller writes, and      *)
(* about the metrics it derives from it.                                   *)
(***************************************************************************)
EXTENDS CheckRunProofs

\* A reconcile under way, up to its status write.
Writing == {"serviceAccount", "serviceAccountMissing", "jobs"}

-----------------------------------------------------------------------------
(* What the steps do to the status and to the reconcile in progress.       *)

\* The steps of everything but a reconcile under way.
Elsewhere ==
    \/ ReconcileGone \/ IgnoreTerminal \/ SyncRun \/ SyncJobs \/ FireTimer
    \/ SuiteDeleted \/ CleanUpSuite \/ Tick \/ Cluster \/ UNCHANGED vars

\* The steps that end a reconcile without a write.
GivesUp ==
    \/ \E r \in Runners : JobRefused(r)
    \/ StatusWriteFindsNoRun
    \/ ApiError

\* The steps that read or create a Job.
LooksAtJob == \E r \in Runners : GetJob(r) \/ CreateJob(r)

Finishes ==
    \/ FinishServiceAccountMissing
    \/ FinishDeadlineExceeded
    \/ FinishRunnerError
    \/ FinishAggregated

LEMMA StepCases ==
    ASSUME [Next]_vars
    PROVE  \/ Elsewhere \/ GivesUp \/ LooksAtJob \/ Finishes \/ StayRunning
           \/ ReconcileStart \/ GetServiceAccount \/ recordMetrics \/ recheckSuite \/ Restart
BY DEF Next, Reconcile, Elsewhere, GivesUp, LooksAtJob, Finishes

LEMMA ElsewhereKeeps ==
    ASSUME Elsewhere
    PROVE  UNCHANGED <<status, pc, rec, runsTotal>> /\ gauge' \in {gauge, None}
<1> USE DEF fixed, apiVars, ctlVars, envVars
<1>1. CASE \/ ReconcileGone \/ IgnoreTerminal \/ SyncRun \/ SyncJobs \/ FireTimer
           \/ SuiteDeleted \/ CleanUpSuite \/ Tick \/ UNCHANGED vars
    BY <1>1 DEF ReconcileGone, IgnoreTerminal, SyncRun, SyncJobs, FireTimer, SuiteDeleted,
       CleanUpSuite, DeleteSuite, Tick, vars
<1>2. CASE Cluster
    BY <1>2 DEF Cluster, SetServiceAccount, DeleteRun, PodCreate, PodReport, PodSucceed, PodFail,
       JobComplete, JobFail, ForeignJobEnds, CollectJob
<1> QED BY <1>1, <1>2 DEF Elsewhere

\* Only the run's watch changes what the cache shows of its status.
LEMMA ElsewhereCaches ==
    ASSUME TypeOK, Elsewhere
    PROVE  cache'.status \in {cache.status, status}
<1> USE DEF fixed, apiVars, ctlVars, envVars
<1>1. CASE SyncRun \/ SyncJobs
    BY <1>1 DEF SyncRun, SyncJobs, TypeOK, CacheType
<1>2. CASE \/ ReconcileGone \/ IgnoreTerminal \/ FireTimer
           \/ SuiteDeleted \/ CleanUpSuite \/ Tick \/ UNCHANGED vars
    BY <1>2 DEF ReconcileGone, IgnoreTerminal, FireTimer, SuiteDeleted, CleanUpSuite, Tick, vars
<1>3. CASE Cluster
    BY <1>3 DEF Cluster, SetServiceAccount, DeleteRun, PodCreate, PodReport, PodSucceed, PodFail,
       JobComplete, JobFail, ForeignJobEnds, CollectJob
<1> QED BY <1>1, <1>2, <1>3 DEF Elsewhere

LEMMA GivesUpEnds ==
    ASSUME GivesUp
    PROVE  pc' = "idle" /\ rec' = NoRec /\ UNCHANGED <<status, reported, passed, cache, runsTotal, gauge, now>>
BY DEF GivesUp, JobRefused, StatusWriteFindsNoRun, ApiError, Fault, EndReconcile,
       apiVars, envVars

LEMMA LooksAtJobKeeps ==
    ASSUME TypeOK, LooksAtJob
    PROVE  /\ pc = "jobs" /\ UNCHANGED <<status, reported, passed, cache, runsTotal, gauge, now>>
           /\ \/ /\ pc' = "jobs" /\ rec'.status = rec.status /\ rec'.now = rec.now
                 /\ rec'.reported = rec.reported
              \/ pc' = "idle" /\ rec' = NoRec
<1> USE DEF apiVars, envVars, NextRunner
<1>1. ASSUME NEW r \in Runners, GetJob(r)
      PROVE  /\ pc = "jobs" /\ UNCHANGED <<status, reported, passed, cache, runsTotal, gauge, now>>
             /\ pc' = "jobs" /\ rec'.status = rec.status /\ rec'.now = rec.now
             /\ rec'.reported = rec.reported
    BY <1>1 DEF GetJob, TypeOK, RecType
<1>2. ASSUME NEW r \in Runners, CreateJob(r)
      PROVE  /\ pc = "jobs" /\ UNCHANGED <<status, reported, passed, cache, runsTotal, gauge, now>>
             /\ \/ /\ pc' = "jobs" /\ rec'.status = rec.status /\ rec'.now = rec.now
                   /\ rec'.reported = rec.reported
                \/ pc' = "idle" /\ rec' = NoRec
    BY <1>2 DEF CreateJob, Fault, EndReconcile, TypeOK, RecType
<1> QED BY <1>1, <1>2 DEF LooksAtJob

\* What a finish writes, and where it leaves the reconcile.
Finished(phase, summary, conditions) ==
    /\ pc \in Writing
    /\ status' = [phase |-> phase, startTime |-> recordedStart,
                  completionTime |-> Whole[rec.now],
                  summary |-> summary, conditions |-> conditions]
    /\ \/ pc' = "metrics" /\ rec' = [rec EXCEPT !.phase = phase]
       \/ pc' = "idle" /\ rec' = NoRec
    /\ UNCHANGED <<reported, passed, cache, runsTotal, gauge, now>>

LEMMA FinishWrites ==
    ASSUME pc \in Writing, NEW phase, NEW summary, NEW type, NEW reason,
           finish(phase, summary, type, reason)
    PROVE  Finished(phase, summary, finishConditions(phase, type, reason))
BY DEF finish, Finished, applyStatus, Fault, EndReconcile

-----------------------------------------------------------------------------
(* Completion and summary.                                                 *)

\* A status that does not tell an end has nothing of one.
Unfinished(st) ==
    st.phase \notin TerminalPhases =>
        st.completionTime = None /\ st.summary = None /\ st.conditions = NoConditions

\* The inductive invariant: a status that was read for a write was unfinished,
\* however long ago, so that what a write keeps of it says nothing of an end;
\* and before the ServiceAccount was found there is no start.
WrittenFromUnfinished ==
    /\ Unfinished(status)
    /\ Unfinished(cache.status)
    /\ pc \in Writing => /\ rec.status.phase \notin TerminalPhases
                         /\ Unfinished(rec.status)
    /\ pc \in Writing \ {"jobs"} => rec.status.startTime = None

StatusInv ==
    TypeOK /\ WrittenFromUnfinished /\ CompletionConsistent /\ SummaryConsistent

\* The conditions of a finish: the caller's own, and Completed with the phase.
LEMMA FinishConditions ==
    ASSUME TypeOK, rec.status.conditions = NoConditions, NEW phase,
           NEW type \in ConditionTypes \cup {None}, NEW reason
    PROVE  /\ finishConditions(phase, type, reason)["Completed"] = phase
           /\ finishConditions(phase, type, reason)["DeadlineExceeded"] =
                IF type = "DeadlineExceeded" THEN reason ELSE None
BY NoneAssumption DEF finishConditions, SetStatusCondition, NoConditions, ConditionTypes

\* A summary counts every definition once.
LEMMA AggregateCounts ==
    ASSUME NEW E
    PROVE  LET summary == aggregate(E)
           IN  /\ summary \in RunSummary
               /\ summary.total = Cardinality(definitions)
               /\ summary.passed + summary.failed = summary.total
<1>1. IsFiniteSet(definitions) /\ IsFiniteSet(failing(E)) /\ aggregate(E) \in RunSummary
    BY AggregateType
<1>2. definitions \cap failing(E) = failing(E)
    BY DEF failing
<1>3. Cardinality(definitions \ failing(E)) = Cardinality(definitions) - Cardinality(failing(E))
    BY <1>1, <1>2, FS_Difference
<1>4. Cardinality(definitions) \in Nat /\ Cardinality(failing(E)) \in Nat
    BY <1>1, FS_CardinalityType
<1> QED BY <1>1, <1>3, <1>4 DEF aggregate

\* Times that lost their fractions stay on their side of the deadline, or on it.
LEMMA StoredTimes ==
    ASSUME TypeOK
    PROVE  IF rec.now > startTime + Timeout
           THEN Whole[rec.now] >= Whole[recordedStart + Timeout]
           ELSE Whole[rec.now] <= recordedStart + Timeout
<1>1. /\ startTime \in Nat /\ rec.now \in Times /\ rec.now \in Nat
      /\ Whole[rec.now] \in Nat /\ Timeout \in Nat \ {0}
    BY StartTimeType, TimeAssumption DEF Times
<1>2. CASE rec.status.startTime = None
    <2>1. startTime = rec.now /\ recordedStart = Whole[rec.now]
        BY <1>2 DEF startTime, recordedStart
    <2> QED
        BY <1>1, <2>1
<1>3. CASE rec.status.startTime # None
    <2>1. recordedStart = startTime
        BY <1>3 DEF recordedStart
    <2>2. CASE rec.now > startTime + Timeout
        <3>1. startTime + Timeout \in Times /\ startTime + Timeout <= rec.now
            BY <1>1, <2>2, TimeAssumption DEF Times
        <3>2. Whole[startTime + Timeout] <= Whole[rec.now] /\ Whole[startTime + Timeout] \in Nat
            BY <1>1, <3>1, WholeAssumption DEF Times
        <3> QED
            BY <1>1, <2>1, <2>2, <3>2
    <2>3. CASE ~(rec.now > startTime + Timeout)
        <3>1. Whole[rec.now] <= rec.now
            BY <1>1, WholeAssumption
        <3> QED
            BY <1>1, <2>1, <2>3, <3>1
    <2> QED
        BY <2>2, <2>3
<1> QED BY <1>2, <1>3

\* A finish writes a completion and, if and only if it is a verdict, a summary.
LEMMA FinishIsConsistent ==
    ASSUME StatusInv, NEW phase \in TerminalPhases, NEW summary \in RunSummary \cup {None},
           NEW type \in ConditionTypes \cup {None}, NEW reason, reason # None,
           rec.status.conditions = NoConditions,
           Finished(phase, summary, finishConditions(phase, type, reason)),
           (type = "DeadlineExceeded") <=> (rec.now > startTime + Timeout),
           (summary # None) <=> (phase \in {"Succeeded", "Failed"}),
           summary # None =>
               /\ summary.total = Cardinality(definitions)
               /\ summary.passed + summary.failed = summary.total
               /\ (summary.failed > 0) <=> (phase = "Failed")
    PROVE  WrittenFromUnfinished' /\ CompletionConsistent' /\ SummaryConsistent'
<1>1. TypeOK /\ WrittenFromUnfinished
    BY DEF StatusInv
<1>2. Whole[rec.now] # None
    BY <1>1, StartTimeType, NoneAssumption DEF Times
<1>3. WrittenFromUnfinished'
    BY <1>1 DEF WrittenFromUnfinished, Unfinished, Finished, Writing
<1>4. CompletionConsistent'
    <2>1. /\ status'.phase = phase /\ status'.completionTime = Whole[rec.now]
          /\ status'.startTime = recordedStart
          /\ status'.conditions = finishConditions(phase, type, reason)
        BY DEF Finished
    <2>2. /\ status'.conditions["Completed"] = phase
          /\ status'.conditions["DeadlineExceeded"] # None <=> rec.now > startTime + Timeout
        BY <1>1, <2>1, FinishConditions
    <2>3. IF status'.conditions["DeadlineExceeded"] # None
          THEN status'.completionTime >= Whole[status'.startTime + Timeout]
          ELSE status'.completionTime <= status'.startTime + Timeout
        BY <1>1, <2>1, <2>2, StoredTimes
    <2> QED
        BY <1>2, <2>1, <2>2, <2>3 DEF CompletionConsistent
<1>5. SummaryConsistent'
    BY DEF SummaryConsistent, Finished, definitions, FilterChecks
<1> QED BY <1>3, <1>4, <1>5

\* The four ways to finish, each with its own reason to be consistent.
LEMMA FinishesConsistently ==
    ASSUME StatusInv, Finishes
    PROVE  WrittenFromUnfinished' /\ CompletionConsistent' /\ SummaryConsistent'
<1>0. TypeOK /\ WrittenFromUnfinished
    BY DEF StatusInv
<1>1. /\ pc \in Writing
      /\ rec.status.conditions = NoConditions
      /\ startTime \in Times /\ rec.now \in Times
    BY <1>0, StartTimeType DEF Finishes, FinishServiceAccountMissing, FinishDeadlineExceeded,
       FinishRunnerError, FinishAggregated, JobsEnsured, Writing, WrittenFromUnfinished, Unfinished
<1>2. CASE FinishServiceAccountMissing
    <2>1. startTime = rec.now
        BY <1>0, <1>2 DEF FinishServiceAccountMissing, WrittenFromUnfinished, Writing, startTime
    <2>2. ~(rec.now > startTime + Timeout)
        BY <1>1, <2>1, TimeAssumption DEF Times
    <2>3. Finished("Error", None,
                   finishConditions("Error", "RunnerServiceAccountMissing", "ServiceAccountNotFound"))
        BY <1>1, <1>2, FinishWrites DEF FinishServiceAccountMissing
    <2>4. "ServiceAccountNotFound" # None
        BY NoneAssumption DEF Reasons
    <2> QED
        BY <1>1, <2>2, <2>3, <2>4, FinishIsConsistent DEF TerminalPhases, ConditionTypes
<1>3. CASE FinishDeadlineExceeded
    <2>1. Finished("Error", None, finishConditions("Error", "DeadlineExceeded", "Timeout"))
        BY <1>1, <1>3, FinishWrites DEF FinishDeadlineExceeded
    <2>2. "Timeout" # None
        BY NoneAssumption DEF Reasons
    <2>3. rec.now > startTime + Timeout
        BY <1>3 DEF FinishDeadlineExceeded, deadlineExceeded
    <2> QED
        BY <1>1, <2>1, <2>2, <2>3, FinishIsConsistent DEF TerminalPhases, ConditionTypes
<1>4. CASE FinishRunnerError
    <2>1. Finished("Error", None, finishConditions("Error", "Completed", "RunnerError"))
        BY <1>1, <1>4, FinishWrites DEF FinishRunnerError
    <2>2. "RunnerError" # None
        BY NoneAssumption DEF Reasons
    <2>3. ~(rec.now > startTime + Timeout)
        BY <1>4 DEF FinishRunnerError, deadlineExceeded
    <2> QED
        BY <1>1, <2>1, <2>2, <2>3, FinishIsConsistent DEF TerminalPhases, ConditionTypes
<1>5. CASE FinishAggregated
    <2> DEFINE summary == aggregate(rec.reported)
               phase == IF summary.failed > 0 THEN "Failed" ELSE "Succeeded"
    <2>1. Finished(phase, summary, finishConditions(phase, None, None))
        BY <1>1, <1>5, FinishWrites DEF FinishAggregated
    <2>2. ~(rec.now > startTime + Timeout)
        BY <1>5 DEF FinishAggregated, deadlineExceeded
    <2>3. /\ summary \in RunSummary
          /\ summary.total = Cardinality(definitions)
          /\ summary.passed + summary.failed = summary.total
        BY AggregateCounts
    <2>4. summary # None
        BY <2>3, NoneAssumption
    <2>5. finishConditions(phase, None, None) = finishConditions(phase, None, "Timeout")
        BY DEF finishConditions
    <2>6. "Timeout" # None /\ "DeadlineExceeded" # None
        BY NoneAssumption DEF Reasons, ConditionTypes
    <2> HIDE DEF summary
    <2>7. phase \in {"Succeeded", "Failed"} /\ ((summary.failed > 0) <=> (phase = "Failed"))
        OBVIOUS
    <2>8. phase \in TerminalPhases
        BY <2>7 DEF TerminalPhases
    <2> HIDE DEF phase
    <2> QED
        BY <1>1, <2>1, <2>2, <2>3, <2>4, <2>5, <2>6, <2>7, <2>8, FinishIsConsistent
<1> QED BY <1>2, <1>3, <1>4, <1>5 DEF Finishes

LEMMA StatusInductive == Spec => []StatusInv
<1>1. Init => StatusInv
    <2> SUFFICES ASSUME Init PROVE StatusInv
        OBVIOUS
    <2>1. WrittenFromUnfinished
        BY DEF Init, WrittenFromUnfinished, Unfinished, NewStatus, Writing
    <2>2. CompletionConsistent /\ SummaryConsistent
        BY DEF Init, NewStatus, CompletionConsistent, SummaryConsistent, NoConditions,
           ConditionTypes, TerminalPhases
    <2> QED
        BY <2>1, <2>2, InitTypeOK DEF StatusInv
<1>2. StatusInv /\ TypeOK' /\ [Next]_vars => StatusInv'
    <2> SUFFICES ASSUME StatusInv, [Next]_vars
                 PROVE  WrittenFromUnfinished' /\ CompletionConsistent' /\ SummaryConsistent'
        BY DEF StatusInv
    <2>0. TypeOK /\ WrittenFromUnfinished /\ CompletionConsistent /\ SummaryConsistent
        BY DEF StatusInv
    <2>1. ASSUME UNCHANGED status
          PROVE  CompletionConsistent' /\ SummaryConsistent'
        BY <2>0, <2>1 DEF CompletionConsistent, SummaryConsistent, definitions, FilterChecks
    <2>2. CASE Elsewhere
        <3>1. UNCHANGED <<status, pc, rec>> /\ cache'.status \in {cache.status, status}
            BY <2>0, <2>2, ElsewhereKeeps, ElsewhereCaches
        <3>2. WrittenFromUnfinished'
            BY <2>0, <3>1 DEF WrittenFromUnfinished, Unfinished
        <3> QED
            BY <2>1, <3>1, <3>2
    <2>3. CASE GivesUp
        <3>1. pc' = "idle" /\ UNCHANGED <<status, cache>>
            BY <2>3, GivesUpEnds
        <3> QED
            BY <2>0, <2>1, <3>1 DEF WrittenFromUnfinished, Unfinished, Writing
    <2>4. CASE LooksAtJob
        <3>1. /\ pc = "jobs" /\ UNCHANGED <<status, cache>>
              /\ (pc' = "jobs" /\ rec'.status = rec.status) \/ pc' = "idle"
            BY <2>0, <2>4, LooksAtJobKeeps
        <3> QED
            BY <2>0, <2>1, <3>1 DEF WrittenFromUnfinished, Unfinished, Writing
    <2>5. CASE Finishes
        BY <2>5, FinishesConsistently
    <2>6. CASE StayRunning
        <3>1. /\ pc = "jobs" /\ pc' = "idle" /\ UNCHANGED cache
              /\ status' = [phase |-> "Running", startTime |-> recordedStart, completionTime |-> None,
                            summary |-> None, conditions |-> rec.status.conditions]
            BY <2>6 DEF StayRunning, JobsEnsured, applyStatus, EndReconcile, Fault
        <3>2. rec.status.conditions = NoConditions
            BY <2>0, <3>1 DEF WrittenFromUnfinished, Unfinished, Writing
        <3>3. WrittenFromUnfinished'
            BY <2>0, <3>1, <3>2 DEF WrittenFromUnfinished, Unfinished, Writing
        <3>4. CompletionConsistent' /\ SummaryConsistent'
            BY <3>1, <3>2 DEF CompletionConsistent, SummaryConsistent, NoConditions,
               ConditionTypes, TerminalPhases
        <3> QED
            BY <3>3, <3>4
    <2>7. CASE ReconcileStart
        <3>1. /\ UNCHANGED <<status, cache>> /\ rec'.status = cache.status
              /\ cache.status.phase \notin TerminalPhases
              /\ pc' = IF cache.status.startTime = None THEN "serviceAccount" ELSE "jobs"
            BY <2>7 DEF ReconcileStart, apiVars, isTerminalPhase, NoRec
        <3> QED
            BY <2>0, <2>1, <3>1 DEF WrittenFromUnfinished, Unfinished, Writing
    <2>8. CASE GetServiceAccount
        <3>1. pc = "serviceAccount" /\ UNCHANGED <<status, cache, rec>>
            BY <2>8 DEF GetServiceAccount, apiVars
        <3>2. pc' \in {"jobs", "serviceAccountMissing"}
            BY <2>8 DEF GetServiceAccount
        <3> QED
            BY <2>0, <2>1, <3>1, <3>2 DEF WrittenFromUnfinished, Unfinished, Writing
    <2>9. CASE recordMetrics \/ recheckSuite
        <3>1. pc' \in {"idle", "suiteRef"} /\ UNCHANGED <<status, cache>>
            BY <2>9 DEF recordMetrics, recheckSuite, EndReconcile, apiVars
        <3> QED
            BY <2>0, <2>1, <3>1 DEF WrittenFromUnfinished, Unfinished, Writing
    <2>10. CASE Restart
        <3>1. pc' = "idle" /\ UNCHANGED status /\ cache'.status \in {cache.status, status}
            BY <2>10 DEF Restart, apiVars
        <3> QED
            BY <2>0, <2>1, <3>1 DEF WrittenFromUnfinished, Unfinished, Writing
    <2> QED
        BY <2>2, <2>3, <2>4, <2>5, <2>6, <2>7, <2>8, <2>9, <2>10, StepCases
<1> QED BY <1>1, <1>2, TypeCorrect, PTL DEF Spec

\* The end time, the Completed condition and a terminal phase come together,
\* whichever reads a finish worked on: it was a finish of a run it had read as
\* unfinished, with none of their fields.  The times it stores, without their
\* fractions, agree with the deadline condition, whichever clock it looked at.
THEOREM CompletionCorrect == Spec => []CompletionConsistent
<1>1. StatusInv => CompletionConsistent
    BY DEF StatusInv
<1> QED BY <1>1, StatusInductive, PTL

\* A summary comes with a verdict only, and accounts for every definition.
THEOREM SummaryCorrect == Spec => []SummaryConsistent
<1>1. StatusInv => SummaryConsistent
    BY DEF StatusInv
<1> QED BY <1>1, StatusInductive, PTL
-----------------------------------------------------------------------------
(* Metrics.                                                                *)

\* The gauges tell of every check that some runner executes, once, and show a
\* failure exactly when some entry has one.
LEMMA LastResults ==
    ASSUME NEW E \in SUBSET Pods, complete(E)
    PROVE  /\ (lastResults(E).fail = {}) <=> (\A p \in E : passedAll(p))
           /\ lastResults(E).pass \cup lastResults(E).fail = {d[2] : d \in definitions}
           /\ lastResults(E).pass \cap lastResults(E).fail = {}
<1> DEFINE pass == lastResults(E).pass
           fail == lastResults(E).fail
           ran(c) == {p \in E : c \in FilterChecks(RunnerOf[p])}
<1>1. /\ pass = {c \in Checks : ran(c) # {} /\ \A p \in ran(c) : c \in passed[p]}
      /\ fail = {c \in Checks : \E p \in ran(c) : c \notin passed[p]}
    BY DEF lastResults
<1>2. ASSUME NEW r \in Runners PROVE \E p \in E : RunnerOf[p] = r
    <2>1. Cardinality(podsOf(r, E)) >= Replicas[r] /\ Replicas[r] \in Nat \ {0}
        BY ReplicasAssumption DEF complete
    <2>2. podsOf(r, E) # {}
        BY <2>1, FS_EmptySet
    <2> QED
        BY <2>2 DEF podsOf
<1> HIDE DEF pass, fail
<1>3. ASSUME NEW c \in Checks, NEW p \in ran(c) PROVE <<RunnerOf[p], c>> \in definitions
    BY PodsAssumption DEF definitions
<1>4. ASSUME NEW c \in pass \cup fail PROVE \E d \in definitions : d[2] = c
    <2>1. c \in Checks /\ ran(c) # {}
        BY <1>1
    <2>2. PICK p : p \in ran(c)
        BY <2>1
    <2> QED
        BY <1>3, <2>1, <2>2
<1>5. ASSUME NEW d \in definitions PROVE d[2] \in pass \cup fail
    <2>1. d[1] \in Runners /\ d[2] \in Checks /\ d[2] \in FilterChecks(d[1])
        BY DEF definitions
    <2>2. PICK p \in E : RunnerOf[p] = d[1]
        BY <1>2, <2>1
    <2>3. p \in ran(d[2])
        BY <2>1, <2>2
    <2> QED
        BY <1>1, <2>1, <2>3
<1>6. (fail = {}) <=> (\A p \in E : passedAll(p))
    BY <1>1 DEF passedAll, FilterChecks
<1>7. pass \cap fail = {}
    BY <1>1
<1>8. pass \cup fail = {d[2] : d \in definitions}
    BY <1>4, <1>5
<1> QED BY <1>6, <1>7, <1>8 DEF pass, fail

\* The inductive invariant of the metrics: with a cache that shows the
\* controller's own writes, a reconcile works on the status as it is; what it
\* is about to count was not counted before, and the entries that it is about
\* to set the gauges from are those of the verdict.
MetricsInv ==
    /\ pc \in Writing => rec.status = status
    /\ pc = "metrics" =>
         /\ rec.phase \in TerminalPhases /\ status.phase = rec.phase
         /\ \A phase \in TerminalPhases : runsTotal[phase] = 0
         /\ rec.phase # "Error" =>
              /\ complete(rec.reported) /\ rec.reported \subseteq reported
              /\ (rec.phase = "Succeeded") <=> (\A p \in rec.reported : passedAll(p))
    /\ CountedOnce
    /\ gauge # None => status.phase \in {"Succeeded", "Failed"}
    /\ GaugeAgreesWithVerdict

\* An unfinished run was neither counted nor shown in the gauges.
LEMMA NothingCountedYet ==
    ASSUME TypeOK, MetricsInv, status.phase \notin TerminalPhases
    PROVE  gauge = None /\ \A phase \in TerminalPhases : runsTotal[phase] = 0
<1>1. gauge = None
    BY DEF MetricsInv, TerminalPhases
<1>2. ASSUME NEW phase \in TerminalPhases PROVE runsTotal[phase] = 0
    BY DEF MetricsInv, CountedOnce, TypeOK
<1> QED BY <1>1, <1>2

\* A finish leaves the metrics to the step after it.
LEMMA FinishesMetrics ==
    ASSUME IInv, StatusInv, MetricsInv, Finishes
    PROVE  MetricsInv'
<1>0. TypeOK /\ WrittenFromUnfinished /\ ReadsAreOld
    BY DEF IInv, StatusInv
<1>1. pc \in Writing
    BY DEF Finishes, FinishServiceAccountMissing, FinishDeadlineExceeded,
       FinishRunnerError, FinishAggregated, JobsEnsured, Writing
<1>2. gauge = None /\ \A phase \in TerminalPhases : runsTotal[phase] = 0
    <2>1. status.phase \notin TerminalPhases
        BY <1>0, <1>1 DEF MetricsInv, WrittenFromUnfinished
    <2> QED
        BY <1>0, <2>1, NothingCountedYet
<1>3. ASSUME NEW phase \in TerminalPhases, NEW summary, NEW conditions,
             Finished(phase, summary, conditions),
             phase # "Error" =>
                 /\ complete(rec.reported)
                 /\ (phase = "Succeeded") <=> (\A p \in rec.reported : passedAll(p))
      PROVE  MetricsInv'
    <2>1. gauge' = None /\ \A ph \in TerminalPhases : runsTotal'[ph] = 0
        BY <1>2, <1>3 DEF Finished
    <2>2. status'.phase = phase /\ pc' \in {"metrics", "idle"}
        BY <1>3 DEF Finished
    <2>3. CASE pc' = "idle"
        BY <2>1, <2>3 DEF MetricsInv, CountedOnce, GaugeAgreesWithVerdict, Writing
    <2>4. CASE pc' = "metrics"
        <3>1. rec'.phase = phase /\ rec'.reported = rec.reported
            BY <1>0, <1>3, <2>4 DEF Finished, TypeOK, RecType
        <3>2. UNCHANGED <<passed, reported>>
            BY <1>3 DEF Finished
        <3>3. complete(rec.reported) => complete(rec.reported)'
            BY <3>1 DEF complete, podsOf
        <3>4. \A p : passedAll(p)' <=> passedAll(p)
            BY <3>2 DEF passedAll, FilterChecks
        <3>5. rec.reported \subseteq reported
            BY <1>0 DEF ReadsAreOld
        <3> QED
            BY <1>3, <2>1, <2>2, <2>4, <3>1, <3>2, <3>3, <3>4, <3>5
            DEF MetricsInv, CountedOnce, GaugeAgreesWithVerdict, Writing
    <2> QED
        BY <2>2, <2>3, <2>4
<1>4. CASE FinishServiceAccountMissing \/ FinishDeadlineExceeded \/ FinishRunnerError
    <2>1. PICK type, reason : Finished("Error", None, finishConditions("Error", type, reason))
        BY <1>1, <1>4, FinishWrites
        DEF FinishServiceAccountMissing, FinishDeadlineExceeded, FinishRunnerError
    <2> QED
        BY <1>3, <2>1 DEF TerminalPhases
<1>5. CASE FinishAggregated
    <2> DEFINE phase == IF aggregate(rec.reported).failed > 0 THEN "Failed" ELSE "Succeeded"
    <2>1. Finished(phase, aggregate(rec.reported), finishConditions(phase, None, None))
        BY <1>1, <1>5, FinishWrites DEF FinishAggregated
    <2>2. rec.reported \in SUBSET Pods
        BY <1>0 DEF TypeOK, RecType
    <2>3. (phase = "Succeeded") <=> (\A p \in rec.reported : passedAll(p))
        BY <2>2, FailedCount
    <2>4. complete(rec.reported)
        BY <1>5 DEF FinishAggregated
    <2>5. phase \in TerminalPhases
        BY DEF TerminalPhases
    <2> HIDE DEF phase
    <2> QED
        BY <1>3, <2>1, <2>3, <2>4, <2>5
<1> QED BY <1>4, <1>5 DEF Finishes
LEMMA MetricsInductive == ReadYourWrites => (Spec => []MetricsInv)
<1> SUFFICES ASSUME ReadYourWrites PROVE Spec => []MetricsInv
    OBVIOUS
<1>1. Init => MetricsInv
    BY DEF Init, MetricsInv, CountedOnce, GaugeAgreesWithVerdict, Writing
<1>2. IInv /\ StatusInv /\ MetricsInv /\ [Next]_vars
        /\ [reported \subseteq reported' /\ \A p \in reported : passed'[p] = passed[p]]_vars
        => MetricsInv'
    <2> SUFFICES ASSUME IInv, StatusInv, MetricsInv, [Next]_vars,
                        [reported \subseteq reported' /\ \A p \in reported : passed'[p] = passed[p]]_vars
                 PROVE  MetricsInv'
        OBVIOUS
    <2>0. TypeOK /\ WrittenFromUnfinished /\ ReadsAreOld
        BY DEF IInv, StatusInv
    <2>1. reported \subseteq reported' /\ \A p \in reported : passed'[p] = passed[p]
        BY DEF vars, apiVars
    \* The evidence of the verdict is still there.
    <2>2. ASSUME UNCHANGED rec, rec.reported \subseteq reported, complete(rec.reported)
          PROVE  /\ complete(rec.reported)' /\ rec'.reported \subseteq reported'
                 /\ (\A p \in rec'.reported : passedAll(p)') <=> (\A p \in rec.reported : passedAll(p))
        <3>1. \A p \in rec.reported : passedAll(p)' <=> passedAll(p)
            BY <2>1, <2>2 DEF passedAll, FilterChecks
        <3>2. complete(rec.reported)'
            BY <2>2 DEF complete, podsOf
        <3> QED
            BY <2>1, <2>2, <3>1, <3>2
    \* Steps that leave the metrics alone, or drop the gauges.
    <2>3. ASSUME UNCHANGED <<status, runsTotal>>, gauge' \in {gauge, None}
          PROVE  /\ CountedOnce' /\ (gauge' # None => status'.phase \in {"Succeeded", "Failed"})
                 /\ GaugeAgreesWithVerdict'
        BY <2>3 DEF MetricsInv, CountedOnce, GaugeAgreesWithVerdict, definitions, FilterChecks
    <2>4. CASE Elsewhere
        <3>1. UNCHANGED <<status, pc, rec, runsTotal>> /\ gauge' \in {gauge, None}
            BY <2>4, ElsewhereKeeps
        <3> QED
            BY <2>2, <2>3, <3>1 DEF MetricsInv
    <2>5. CASE GivesUp
        <3>1. pc' = "idle" /\ UNCHANGED <<status, runsTotal, gauge>>
            BY <2>5, GivesUpEnds
        <3> QED
            BY <2>3, <3>1 DEF MetricsInv, Writing
    <2>6. CASE LooksAtJob
        <3>1. /\ pc = "jobs" /\ UNCHANGED <<status, runsTotal, gauge>>
              /\ (pc' = "jobs" /\ rec'.status = rec.status) \/ pc' = "idle"
            BY <2>0, <2>6, LooksAtJobKeeps
        <3> QED
            BY <2>3, <3>1 DEF MetricsInv, Writing
    <2>7. CASE Finishes
        BY <2>7, FinishesMetrics
    <2>8. CASE StayRunning
        <3>1. pc = "jobs" /\ pc' = "idle" /\ UNCHANGED <<runsTotal, gauge>>
            BY <2>8 DEF StayRunning, JobsEnsured, EndReconcile, Fault
        <3>2. status.phase \notin TerminalPhases
            BY <2>0, <3>1 DEF MetricsInv, WrittenFromUnfinished, Writing
        <3>3. gauge' = None /\ \A phase \in TerminalPhases : runsTotal'[phase] = 0
            BY <2>0, <3>1, <3>2, NothingCountedYet
        <3> QED
            BY <3>1, <3>3 DEF MetricsInv, CountedOnce, GaugeAgreesWithVerdict, Writing
    <2>9. CASE ReconcileStart
        <3>1. UNCHANGED <<status, runsTotal, gauge>> /\ rec'.status = status
            BY <2>9 DEF ReconcileStart, apiVars, NoRec
        <3>2. pc' \in Writing
            BY <2>9 DEF ReconcileStart, Writing
        <3> QED
            BY <2>3, <3>1, <3>2 DEF MetricsInv, Writing
    <2>10. CASE GetServiceAccount
        <3>1. pc = "serviceAccount" /\ pc' \in Writing /\ UNCHANGED <<status, rec, runsTotal, gauge>>
            BY <2>10 DEF GetServiceAccount, apiVars, Writing
        <3> QED
            BY <2>3, <3>1 DEF MetricsInv, Writing
    <2>11. CASE recordMetrics
        <3>1. /\ pc = "metrics" /\ pc' \in {"idle", "suiteRef"} /\ UNCHANGED status
              /\ runsTotal' = [runsTotal EXCEPT ![rec.phase] = @ + 1]
            BY <2>11 DEF recordMetrics, EndReconcile, apiVars
        <3>2. /\ rec.phase \in TerminalPhases /\ status.phase = rec.phase
              /\ \A phase \in TerminalPhases : runsTotal[phase] = 0
            BY <3>1 DEF MetricsInv
        <3>3. CountedOnce'
            BY <2>0, <3>1, <3>2 DEF CountedOnce, TypeOK
        <3>4. CASE rec.phase = "Error"
            <4>1. UNCHANGED gauge
                BY <2>11, <3>4 DEF recordMetrics
            <4> QED
                BY <3>1, <3>3, <4>1 DEF MetricsInv, GaugeAgreesWithVerdict, Writing, definitions,
                   FilterChecks
        <3>5. CASE rec.phase # "Error"
            <4>1. gauge' = lastResults(rec.reported)
                BY <2>11, <3>5 DEF recordMetrics, SetLastResults
            <4>2. /\ complete(rec.reported)
                  /\ (rec.phase = "Succeeded") <=> (\A p \in rec.reported : passedAll(p))
                BY <3>1, <3>5 DEF MetricsInv
            <4>3. rec.reported \in SUBSET Pods
                BY <2>0 DEF TypeOK, RecType
            <4>4. /\ (gauge'.fail = {}) <=> (\A p \in rec.reported : passedAll(p))
                  /\ gauge'.pass \cup gauge'.fail = {d[2] : d \in definitions}
                  /\ gauge'.pass \cap gauge'.fail = {}
                BY <4>1, <4>2, <4>3, LastResults
            <4>5. GaugeAgreesWithVerdict'
                BY <3>1, <3>2, <4>2, <4>4 DEF GaugeAgreesWithVerdict, definitions, FilterChecks
            <4>6. status'.phase \in {"Succeeded", "Failed"}
                BY <3>1, <3>2, <3>5 DEF TerminalPhases
            <4> QED
                BY <3>1, <3>3, <4>5, <4>6 DEF MetricsInv, Writing
        <3> QED
            BY <3>4, <3>5
    <2>12. CASE recheckSuite
        <3>1. pc' = "idle" /\ UNCHANGED <<status, runsTotal>> /\ gauge' \in {gauge, None}
            BY <2>12 DEF recheckSuite, DeleteSuite, EndReconcile, apiVars
        <3> QED
            BY <2>3, <3>1 DEF MetricsInv, Writing
    <2>13. CASE Restart
        BY <2>13 DEF Restart, MetricsInv, CountedOnce, GaugeAgreesWithVerdict, Writing
    <2> QED
        BY <2>4, <2>5, <2>6, <2>7, <2>8, <2>9, <2>10, <2>11, <2>12, <2>13, StepCases
<1> QED BY <1>1, <1>2, Inductive, StatusInductive, EntriesStay, PTL DEF Spec, EntriesKept

\* With a cache that shows the controller's own writes, a manager process
\* counts a run once, under the phase that the run keeps: neither a lost
\* answer, nor a retry, nor a deletion makes it count again.
THEOREM CountedCorrect == ReadYourWrites => (Spec => []CountedOnce)
<1> SUFFICES ASSUME ReadYourWrites PROVE Spec => []CountedOnce
    OBVIOUS
<1>1. MetricsInv => CountedOnce
    BY DEF MetricsInv
<1> QED BY <1>1, MetricsInductive, PTL

\* With such a cache the gauges and the phase never tell different things,
\* although they are derived at different moments from entries that keep
\* coming in.
THEOREM GaugeCorrect == ReadYourWrites => (Spec => []GaugeAgreesWithVerdict)
<1> SUFFICES ASSUME ReadYourWrites PROVE Spec => []GaugeAgreesWithVerdict
    OBVIOUS
<1>1. MetricsInv => GaugeAgreesWithVerdict
    BY DEF MetricsInv
<1> QED BY <1>1, MetricsInductive, PTL
=============================================================================
