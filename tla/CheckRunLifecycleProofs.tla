---------------------- MODULE CheckRunLifecycleProofs -----------------------
(***************************************************************************)
(* Every step of the controller is a step of the life cycle that module    *)
(* RunLifecycle promises, or none, if the cache shows the controller's own *)
(* writes; and every step of a pod, or none, is one of module PodLife.     *)
(***************************************************************************)
EXTENDS CheckRunStatusProofs

-----------------------------------------------------------------------------
(* Starts.                                                                 *)

\* A status has a start from the moment it has a phase, and none after t.
StartedBy(st, t) ==
    /\ (st.phase = "") <=> (st.startTime = None)
    /\ st.startTime # None => st.startTime <= t

\* The inductive invariant of starts: no copy of the status has one that is
\* still to come, not even for the time at which the reconcile read it, and none
\* that loses its fraction can be later than one that loses it afterwards.
StartInv ==
    /\ StartedBy(status, Whole[now])
    /\ StartedBy(cache.status, Whole[now])
    /\ rec.now <= now
    /\ pc \in Writing => StartedBy(rec.status, Whole[rec.now])

\* A start that is past stays so.
LEMMA StartedLater ==
    ASSUME NEW st \in CheckRunStatus, NEW t \in Times, NEW u \in Times, t <= u, StartedBy(st, t)
    PROVE  StartedBy(st, u)
<1>1. st.startTime \in Times \cup {None}
    BY DEF CheckRunStatus
<1>2. \A a, b, c \in Times : a <= b /\ b <= c => a <= c
    BY TimeAssumption DEF Times
<1>3. CASE st.startTime = None
    BY <1>3 DEF StartedBy
<1>4. CASE st.startTime \in Times
    <2>1. st.startTime # None => st.startTime <= u
        BY <1>2, <1>4 DEF StartedBy
    <2> QED
        BY <2>1 DEF StartedBy
<1> QED BY <1>1, <1>3, <1>4

LEMMA ClockForward == TypeOK /\ [Next]_vars => now <= now'
<1> SUFFICES ASSUME TypeOK, [Next]_vars PROVE now <= now'
    OBVIOUS
<1>1. now \in Nat
    BY DEF TypeOK, Times
<1>2. CASE Tick
    BY <1>1, <1>2 DEF Tick
<1>3. CASE UNCHANGED now
    BY <1>1, <1>3
<1>4. CASE Reconcile
    BY <1>3, <1>4 DEF Reconcile, ReconcileGone, IgnoreTerminal, ReconcileStart, GetServiceAccount,
       FinishServiceAccountMissing, GetJob, CreateJob, JobRefused, StatusWriteFindsNoRun,
       FinishDeadlineExceeded, FinishRunnerError, FinishAggregated, StayRunning, recordMetrics,
       recheckSuite, finish, envVars
<1>5. CASE \/ ApiError \/ Restart \/ SyncRun \/ SyncJobs \/ FireTimer
           \/ SuiteDeleted \/ CleanUpSuite \/ UNCHANGED vars
    BY <1>3, <1>5 DEF ApiError, Restart, SyncRun, SyncJobs, FireTimer, SuiteDeleted, CleanUpSuite,
       envVars, vars
<1>6. CASE Cluster
    BY <1>3, <1>6 DEF Cluster, SetServiceAccount, DeleteRun, PodCreate, PodReport, PodSucceed,
       PodFail, JobComplete, JobFail, ForeignJobEnds, CollectJob, envVars
<1> QED BY <1>2, <1>4, <1>5, <1>6 DEF Next

\* The start that a write records is the one that was read, or the time of
\* the reconcile.
LEMMA StartWritten ==
    ASSUME TypeOK, StartInv, pc \in Writing
    PROVE  /\ recordedStart \in Times /\ recordedStart # None
           /\ recordedStart <= Whole[rec.now] /\ Whole[rec.now] \in Times
           /\ Whole[rec.now] <= Whole[now]
<1>1. recordedStart \in Times /\ rec.now \in Times /\ now \in Times /\ Whole[rec.now] \in Times
    BY StartTimeType DEF TypeOK
<1>2. recordedStart # None
    BY <1>1, NoneAssumption DEF Times
<1>3. /\ rec.now <= now
      /\ rec.status.startTime # None => rec.status.startTime <= Whole[rec.now]
    BY DEF StartInv, StartedBy
<1>4. recordedStart <= Whole[rec.now]
    BY <1>1, <1>3, TimeAssumption DEF recordedStart, startTime, Times
<1>5. Whole[rec.now] <= Whole[now]
    BY <1>1, <1>3, WholeAssumption
<1> QED BY <1>1, <1>2, <1>4, <1>5

\* A finish is into a terminal phase.
LEMMA WhatFinishes ==
    ASSUME Finishes
    PROVE  \E phase, summary, conditions :
               phase \in TerminalPhases /\ Finished(phase, summary, conditions)
<1>1. pc \in Writing
    BY DEF Finishes, FinishServiceAccountMissing, FinishDeadlineExceeded,
       FinishRunnerError, FinishAggregated, JobsEnsured, Writing
<1>2. PICK phase, summary, type, reason :
        /\ phase \in {"Error", "Failed", "Succeeded"}
        /\ finish(phase, summary, type, reason)
    <2>1. CASE FinishServiceAccountMissing
        BY <2>1 DEF FinishServiceAccountMissing
    <2>2. CASE FinishDeadlineExceeded
        BY <2>2 DEF FinishDeadlineExceeded
    <2>3. CASE FinishRunnerError
        BY <2>3 DEF FinishRunnerError
    <2>4. CASE FinishAggregated
        <3>1. PICK phase :
                /\ phase = IF aggregate(rec.reported).failed > 0 THEN "Failed" ELSE "Succeeded"
                /\ finish(phase, aggregate(rec.reported), None, None)
            BY <2>4 DEF FinishAggregated
        <3> QED
            BY <3>1
    <2> QED
        BY <2>1, <2>2, <2>3, <2>4 DEF Finishes
<1>3. Finished(phase, summary, finishConditions(phase, type, reason))
    BY <1>1, <1>2, FinishWrites
<1> QED BY <1>2, <1>3 DEF TerminalPhases

LEMMA StartInductive == Spec => []StartInv
<1>1. Init => StartInv
    <2> SUFFICES ASSUME Init PROVE StartInv
        OBVIOUS
    <2>1. status = NewStatus /\ cache.status = NewStatus /\ now = 0 /\ rec.now = 0 /\ pc = "idle"
        BY DEF Init, NoRec
    <2>2. \A t \in Times : StartedBy(NewStatus, t)
        BY DEF StartedBy, NewStatus
    <2>3. Whole[0] \in Times
        BY WholeAssumption, InitialValues
    <2> QED
        BY <2>1, <2>2, <2>3 DEF StartInv, Writing
<1>2. TypeOK /\ StartInv /\ TypeOK' /\ [Next]_vars => StartInv'
    <2> SUFFICES ASSUME TypeOK, StartInv, TypeOK', [Next]_vars PROVE StartInv'
        OBVIOUS
    <2>1. now \in Times /\ now' \in Times /\ rec.now \in Times /\ now <= now' /\ rec.now <= now
        BY ClockForward DEF TypeOK, RecType, StartInv
    <2>0. Whole[now] \in Times /\ Whole[now'] \in Times /\ Whole[now] <= Whole[now']
        BY <2>1, WholeAssumption
    <2>2. /\ status \in CheckRunStatus /\ cache.status \in CheckRunStatus
          /\ rec.status \in CheckRunStatus
        BY DEF TypeOK, CacheType, RecType
    <2>3. StartedBy(status, Whole[now']) /\ StartedBy(cache.status, Whole[now']) /\ rec.now <= now'
        BY <2>1, <2>0, <2>2, StartedLater DEF StartInv, Times
    <2>4. 0 <= now' /\ NoRec.now = 0
        BY <2>1 DEF Times, NoRec
    <2>5. ASSUME status' = status, cache'.status \in {cache.status, status},
                 rec'.now = rec.now \/ rec' = NoRec,
                 pc' \in Writing => StartedBy(rec'.status, Whole[rec'.now])
          PROVE  StartInv'
        BY <2>3, <2>4, <2>5 DEF StartInv
    <2>6. CASE Elsewhere
        BY <2>5, <2>6, ElsewhereKeeps, ElsewhereCaches DEF StartInv
    <2>7. CASE GivesUp
        BY <2>5, <2>7, GivesUpEnds DEF Writing
    <2>8. CASE LooksAtJob
        <3>1. /\ pc = "jobs" /\ UNCHANGED <<status, cache>>
              /\ \/ pc' = "jobs" /\ rec'.status = rec.status /\ rec'.now = rec.now
                 \/ pc' = "idle" /\ rec' = NoRec
            BY <2>8, LooksAtJobKeeps
        <3> QED
            BY <2>5, <3>1 DEF StartInv, Writing
    <2>9. CASE Finishes
        <3>1. pc \in Writing
            BY <2>9 DEF Finishes, FinishServiceAccountMissing, FinishDeadlineExceeded,
               FinishRunnerError, FinishAggregated, JobsEnsured, Writing
        <3>2. PICK phase, summary, conditions :
                  phase \in TerminalPhases /\ Finished(phase, summary, conditions)
            BY <2>9, <3>1, WhatFinishes
        <3>3. /\ status'.phase = phase /\ status'.startTime = recordedStart
              /\ pc' \notin Writing /\ UNCHANGED <<cache, now>>
            BY <3>2 DEF Finished, Writing
        <3>4. rec'.now = rec.now \/ rec' = NoRec
            BY <3>2 DEF Finished, TypeOK, RecType
        <3>5. StartedBy(status', Whole[now'])
            <4>1. /\ recordedStart \in Times /\ recordedStart # None
                  /\ recordedStart <= Whole[rec.now] /\ Whole[rec.now] \in Times
                  /\ Whole[rec.now] <= Whole[now]
                BY <3>1, StartWritten
            <4>2. recordedStart <= Whole[now']
                BY <2>0, <4>1 DEF Times
            <4>3. status'.phase # ""
                BY <3>2, <3>3 DEF TerminalPhases
            <4> QED
                BY <3>3, <4>1, <4>2, <4>3 DEF StartedBy
        <3> QED
            BY <2>3, <2>4, <3>3, <3>4, <3>5 DEF StartInv
    <2>10. CASE StayRunning
        <3>1. /\ pc = "jobs" /\ pc' = "idle" /\ rec' = NoRec /\ UNCHANGED <<cache, now>>
              /\ status'.phase = "Running" /\ status'.startTime = recordedStart
            BY <2>10 DEF StayRunning, JobsEnsured, applyStatus, EndReconcile, Fault
        <3>2. StartedBy(status', Whole[now'])
            BY <2>0, <3>1, StartWritten DEF StartedBy, Writing, Times
        <3> QED
            BY <2>3, <2>4, <3>1, <3>2 DEF StartInv, Writing
    <2>11. CASE ReconcileStart
        <3>1. /\ UNCHANGED <<status, cache, now>>
              /\ rec'.status = cache.status /\ rec'.now = now
            BY <2>11 DEF ReconcileStart, apiVars, envVars, NoRec
        <3> QED
            BY <2>1, <2>3, <3>1 DEF StartInv, Times
    <2>12. CASE GetServiceAccount
        <3>1. pc \in Writing /\ UNCHANGED <<status, cache, rec>>
            BY <2>12 DEF GetServiceAccount, apiVars, Writing
        <3> QED
            BY <2>5, <3>1 DEF StartInv
    <2>13. CASE recordMetrics \/ recheckSuite
        <3>1. /\ pc' \in {"idle", "suiteRef"} /\ rec' \in {rec, NoRec}
              /\ UNCHANGED <<status, cache>>
            BY <2>13 DEF recordMetrics, recheckSuite, EndReconcile, apiVars
        <3> QED
            BY <2>5, <3>1 DEF Writing
    <2>14. CASE Restart
        <3>1. /\ pc' = "idle" /\ rec' = NoRec /\ UNCHANGED status
              /\ cache'.status \in {cache.status, status}
            BY <2>14 DEF Restart, apiVars
        <3> QED
            BY <2>5, <3>1 DEF Writing
    <2> QED
        BY <2>6, <2>7, <2>8, <2>9, <2>10, <2>11, <2>12, <2>13, <2>14, StepCases
<1> QED BY <1>1, <1>2, TypeCorrect, PTL DEF Spec
-----------------------------------------------------------------------------
(* Refinement.                                                             *)

\* Entries come one at a time, and not with a status write.
LEMMA EntriesCome ==
    ASSUME Elsewhere
    PROVE  UNCHANGED reported \/ \E p \in Pods : reported' = reported \cup {p}
<1>1. CASE \/ ReconcileGone \/ IgnoreTerminal \/ SyncRun \/ SyncJobs \/ FireTimer
           \/ SuiteDeleted \/ CleanUpSuite \/ Tick \/ UNCHANGED vars
    BY <1>1 DEF ReconcileGone, IgnoreTerminal, SyncRun, SyncJobs, FireTimer, SuiteDeleted,
       CleanUpSuite, Tick, vars, apiVars
<1>2. CASE Cluster
    BY <1>2 DEF Cluster, SetServiceAccount, DeleteRun, PodCreate, PodReport, PodSucceed, PodFail,
       JobComplete, JobFail, ForeignJobEnds, CollectJob, apiVars
<1> QED BY <1>1, <1>2 DEF Elsewhere

LEMMA OtherStepsKeep ==
    ASSUME TypeOK, \/ GivesUp \/ LooksAtJob \/ ReconcileStart \/ GetServiceAccount
                   \/ recordMetrics \/ recheckSuite \/ Restart
    PROVE  UNCHANGED <<status, reported>>
<1>1. CASE GivesUp \/ LooksAtJob
    BY <1>1, GivesUpEnds, LooksAtJobKeeps
<1>2. CASE ReconcileStart \/ GetServiceAccount \/ recordMetrics \/ recheckSuite \/ Restart
    BY <1>2 DEF ReconcileStart, GetServiceAccount, recordMetrics, recheckSuite, Restart, apiVars
<1> QED BY <1>1, <1>2

\* Module RunLifecycle counts as this one does.
LEMMA SameCardinality == \A S : Lifecycle!Cardinality(S) = Cardinality(S)
BY DEF Lifecycle!Cardinality, Cardinality

\* A run that is read as unfinished has not ended, and a finish ends it; a
\* verdict has entries enough, since those that were read have landed.
LEMMA FinishesIsEnd ==
    ASSUME IInv, StatusInv, MetricsInv, StartInv, Finishes
    PROVE  Lifecycle!End
<1>0. TypeOK /\ WrittenFromUnfinished /\ ReadsAreOld
    BY DEF IInv, StatusInv
<1>1. pc \in Writing
    BY DEF Finishes, FinishServiceAccountMissing, FinishDeadlineExceeded,
       FinishRunnerError, FinishAggregated, JobsEnsured, Writing
<1>2. rec.status = status /\ status.phase \notin TerminalPhases
    BY <1>0, <1>1 DEF MetricsInv, WrittenFromUnfinished
<1>3. PICK phase, summary, conditions :
                  phase \in TerminalPhases /\ Finished(phase, summary, conditions)
    BY WhatFinishes
<1>4. /\ status'.phase = phase /\ status'.startTime = recordedStart
      /\ status'.completionTime = Whole[rec.now] /\ UNCHANGED reported
    BY <1>3 DEF Finished
<1>5. recordedStart \in 0 .. MaxTime /\ Whole[rec.now] \in recordedStart .. MaxTime
    <2>1. recordedStart \in Times /\ recordedStart <= Whole[rec.now] /\ Whole[rec.now] \in Times
        BY <1>0, <1>1, StartWritten
    <2> QED
        BY <2>1, TimeAssumption DEF Times
<1>6. IF status.startTime = None THEN recordedStart \in 0 .. MaxTime
                                 ELSE recordedStart = status.startTime
    BY <1>2, <1>5 DEF recordedStart, startTime
<1>7. ASSUME phase # "Error"
      PROVE  \A r \in 1 .. NumRunners :
                 Cardinality({p \in reported : RunnerOf[p] = r}) >= Replicas[r]
    <2>1. complete(rec.reported)
        <3>1. FinishAggregated
            BY <1>4, <1>7 DEF Finishes, FinishServiceAccountMissing, FinishDeadlineExceeded,
               FinishRunnerError, finish, applyStatus
        <3> QED
            BY <3>1 DEF FinishAggregated
    <2>2. SUFFICES ASSUME NEW r \in Runners PROVE Cardinality(podsOf(r, reported)) >= Replicas[r]
        BY DEF Runners, podsOf
    <2>3. IsFiniteSet(podsOf(r, reported))
        BY <1>0, PodsAssumption, FS_Subset DEF podsOf, TypeOK
    <2>4. podsOf(r, rec.reported) \subseteq podsOf(r, reported)
        BY <1>0 DEF podsOf, ReadsAreOld
    <2>5. /\ Cardinality(podsOf(r, rec.reported)) <= Cardinality(podsOf(r, reported))
          /\ IsFiniteSet(podsOf(r, rec.reported))
        BY <2>3, <2>4, FS_Subset
    <2>6. Cardinality(podsOf(r, rec.reported)) >= Replicas[r] /\ Replicas[r] \in Nat
        BY <2>1, ReplicasAssumption DEF complete
    <2>7. /\ Cardinality(podsOf(r, rec.reported)) \in Nat
          /\ Cardinality(podsOf(r, reported)) \in Nat
        BY <2>3, <2>5, FS_CardinalityType
    <2> QED
        BY <2>5, <2>6, <2>7
<1>8. status.phase \notin Lifecycle!Final /\ phase \in Lifecycle!Final
      /\ (phase \in Lifecycle!Verdicts => phase # "Error")
    BY <1>2, <1>3 DEF TerminalPhases, Lifecycle!Final, Lifecycle!Verdicts
<1>9. phase # "Error" => Lifecycle!Enough
    BY <1>7, SameCardinality DEF Lifecycle!Enough
<1> QED BY <1>4, <1>5, <1>6, <1>8, <1>9 DEF Lifecycle!End

\* Recording that a run is under way begins its life, once.
LEMMA StayRunningBegins ==
    ASSUME IInv, StatusInv, MetricsInv, StartInv, StayRunning
    PROVE  Lifecycle!Begin \/ UNCHANGED Lifecycle!vars
<1>0. TypeOK /\ WrittenFromUnfinished
    BY DEF IInv, StatusInv
<1>1. /\ pc \in Writing /\ UNCHANGED reported
      /\ status'.phase = "Running" /\ status'.startTime = recordedStart
      /\ status'.completionTime = None
    BY DEF StayRunning, JobsEnsured, applyStatus, Writing
<1>2. rec.status = status /\ status.phase \notin TerminalPhases /\ status.completionTime = None
    BY <1>0, <1>1 DEF MetricsInv, WrittenFromUnfinished, Unfinished
<1>3. recordedStart \in 0 .. MaxTime
    BY <1>0, StartTimeType DEF Times
<1>4. CASE status.startTime = None
    BY <1>1, <1>2, <1>3, <1>4 DEF StartInv, StartedBy, Lifecycle!Begin
<1>5. CASE status.startTime # None
    <2>1. status.phase = "Running"
        BY <1>0, <1>2, <1>5 DEF StartInv, StartedBy, TypeOK, CheckRunStatus, Phases
    <2>2. recordedStart = status.startTime
        BY <1>2, <1>5 DEF recordedStart, startTime
    <2> QED
        BY <1>1, <1>2, <2>1, <2>2 DEF Lifecycle!vars
<1> QED BY <1>4, <1>5

\* With a cache that shows the controller's own writes, the controller
\* implements the safety part of the run's life cycle (ImplementsLifecycle but
\* for its fairness): one start, which does not move, one end, after it, and
\* no verdict before every runner has entries enough.
THEOREM LivesSafely ==
    ReadYourWrites => (Spec => Lifecycle!Init /\ [][Lifecycle!Next]_(Lifecycle!vars))
<1> SUFFICES ASSUME ReadYourWrites PROVE Spec => Lifecycle!Init /\ [][Lifecycle!Next]_(Lifecycle!vars)
    OBVIOUS
<1>1. Init => Lifecycle!Init
    <2> SUFFICES ASSUME Init PROVE Lifecycle!Init
        OBVIOUS
    <2>1. status = NewStatus /\ reported = {}
        BY DEF Init
    <2> QED
        BY <2>1 DEF NewStatus, Lifecycle!Init
<1>2. IInv /\ StatusInv /\ MetricsInv /\ StartInv /\ [Next]_vars
        => [Lifecycle!Next]_(Lifecycle!vars)
    <2> SUFFICES ASSUME IInv, StatusInv, MetricsInv, StartInv, [Next]_vars
                 PROVE  Lifecycle!Next \/ UNCHANGED Lifecycle!vars
        OBVIOUS
    <2>0. TypeOK
        BY DEF IInv
    <2>1. CASE Elsewhere
        <3>1. UNCHANGED status /\ (UNCHANGED reported \/ \E p \in Pods : reported' = reported \cup {p})
            BY <2>1, ElsewhereKeeps, EntriesCome
        <3> QED
            BY <3>1 DEF Lifecycle!vars, Lifecycle!Next, Lifecycle!Report
    <2>2. CASE Finishes
        BY <2>2, FinishesIsEnd DEF Lifecycle!Next
    <2>3. CASE StayRunning
        BY <2>3, StayRunningBegins DEF Lifecycle!Next
    <2>4. CASE \/ GivesUp \/ LooksAtJob \/ ReconcileStart \/ GetServiceAccount
               \/ recordMetrics \/ recheckSuite \/ Restart
        BY <2>0, <2>4, OtherStepsKeep DEF Lifecycle!vars
    <2> QED
        BY <2>1, <2>2, <2>3, <2>4, StepCases
<1> QED BY <1>1, <1>2, Inductive, StatusInductive, MetricsInductive, StartInductive, PTL DEF Spec

-----------------------------------------------------------------------------
(* The pods of a run, one by one.                                          *)

\* Steps that are nobody's pod's.
LEMMA PodsUntouched ==
    ASSUME [Next]_vars,
           \A p \in Pods : ~PodCreate(p) /\ ~PodReport(p) /\ ~PodSucceed(p) /\ ~PodFail(p)
    PROVE  UNCHANGED <<pod, reported, passed>>
<1> USE DEF fixed, apiVars, ctlVars, envVars
<1>1. CASE Reconcile
    BY <1>1 DEF Reconcile, ReconcileGone, IgnoreTerminal, ReconcileStart, GetServiceAccount,
       FinishServiceAccountMissing, GetJob, CreateJob, JobRefused, StatusWriteFindsNoRun,
       FinishDeadlineExceeded, FinishRunnerError, FinishAggregated, StayRunning, recordMetrics,
       recheckSuite, finish, applyStatus
<1>2. CASE \/ ApiError \/ Restart \/ SyncRun \/ SyncJobs \/ FireTimer
           \/ SuiteDeleted \/ CleanUpSuite \/ Tick
    BY <1>2 DEF ApiError, Restart, SyncRun, SyncJobs, FireTimer, SuiteDeleted, CleanUpSuite, Tick
<1>3. CASE Cluster
    BY <1>3 DEF Cluster, SetServiceAccount, DeleteRun, JobComplete, JobFail, ForeignJobEnds, CollectJob
<1>4. CASE UNCHANGED vars
    BY <1>4 DEF vars
<1> QED
    BY <1>1, <1>2, <1>3, <1>4 DEF Next

\* What a pod does is a step of its own life, and none of another pod's.
LEMMA PodStepLives ==
    ASSUME TypeOK, NEW p \in Pods, NEW q \in Pods,
           PodCreate(q) \/ PodReport(q) \/ PodSucceed(q) \/ PodFail(q)
    PROVE  Life(p)!PodNext \/ UNCHANGED Life(p)!vars
<1>1. CASE PodReport(q)
    <2>1. PICK S \in SUBSET FilterChecks(RunnerOf[q]) : passed' = [passed EXCEPT ![q] = S]
        BY <1>1 DEF PodReport
    <2>2. /\ pod[q] \in {"running", "lost"} /\ q \notin reported
          /\ reported' = reported \cup {q} /\ UNCHANGED pod
        BY <1>1 DEF PodReport, envVars
    <2>3. CASE p = q
        <3>1. passed'[p] = S
            BY <2>1, <2>3 DEF TypeOK
        <3>2. Life(p)!Report
            BY <2>1, <2>2, <2>3, <3>1 DEF Life!Report, Life!Land
        <3> QED
            BY <3>2 DEF Life!PodNext
    <2>4. CASE p # q
        BY <2>1, <2>2, <2>4 DEF TypeOK, Life!vars
    <2> QED
        BY <2>3, <2>4
<1>2. CASE PodCreate(q) \/ PodSucceed(q) \/ PodFail(q)
    <2>1. UNCHANGED <<reported, passed>>
        BY <1>2 DEF PodCreate, PodSucceed, PodFail, apiVars
    <2>2. PICK s : /\ pod' = [pod EXCEPT ![q] = s]
                   /\ \/ pod[q] = "none" /\ s = "running"
                      \/ pod[q] = "running" /\ q \in reported /\ s = "succeeded"
                      \/ pod[q] = "running" /\ s \in {"failed", "lost"}
        BY <1>2 DEF PodCreate, PodSucceed, PodFail
    <2>3. CASE p = q
        <3>1. pod'[p] = s
            BY <2>2, <2>3 DEF TypeOK
        <3> QED
            BY <2>1, <2>2, <2>3, <3>1 DEF Life!PodNext, Life!Start, Life!End
    <2>4. CASE p # q
        BY <2>1, <2>2, <2>4 DEF TypeOK, Life!vars
    <2> QED
        BY <2>3, <2>4
<1> QED
    BY <1>1, <1>2

\* Every pod of a run lives as module PodLife has it, which is what the runner's
\* code implements (RunnerPodProofs!LifeCorrect): neither the controller, whatever
\* stale copy it writes from, nor another pod takes an entry away or changes it, and
\* no pod counts for its Job before its entry has landed.
THEOREM PodsLive ==
    ASSUME NEW p \in Pods
    PROVE  Spec => Life(p)!Init /\ [][Life(p)!PodNext]_(Life(p)!vars)
<1>1. Init => Life(p)!Init
    BY DEF Init, Life!Init
<1>2. TypeOK /\ [Next]_vars => [Life(p)!PodNext]_(Life(p)!vars)
    <2> SUFFICES ASSUME TypeOK, [Next]_vars PROVE Life(p)!PodNext \/ UNCHANGED Life(p)!vars
        OBVIOUS
    <2>1. CASE \E q \in Pods : PodCreate(q) \/ PodReport(q) \/ PodSucceed(q) \/ PodFail(q)
        BY <2>1, PodStepLives
    <2>2. CASE \A q \in Pods : ~PodCreate(q) /\ ~PodReport(q) /\ ~PodSucceed(q) /\ ~PodFail(q)
        BY <2>2, PodsUntouched DEF Life!vars
    <2> QED
        BY <2>1, <2>2
<1> QED
    BY <1>1, <1>2, TypeCorrect, PTL DEF Spec
=============================================================================
