-------------------------- MODULE RunnerPodProofs ---------------------------
(***************************************************************************)
(* Theorems about module RunnerPod, for every list of checks, every number *)
(* of attempts, every concurrency limit and every number of apply steps,   *)
(* and for a SIGTERM, a SIGKILL and a lost answer at any point.            *)
(***************************************************************************)
EXTENDS RunnerPod, TLAPS

\* The loop's attempt counter and the probes really made, by where the check is.
Counted(c) ==
    /\ check[c] = "waiting" => attempt[c] = 0 /\ probes[c] = 0
    /\ check[c] = "probing" =>
         c \in Known /\ attempt[c] = probes[c] + 1 /\ attempt[c] <= Attempts[c]
    /\ check[c] = "delaying" =>
         c \in Known /\ attempt[c] = probes[c] /\ attempt[c] < Attempts[c]

\* The check ran to its end: none of its probes was cut short, and it stopped
\* because its observation matched or its attempts were used up.
RanToItsEnd(c) ==
    /\ check[c] = "done"
    /\ genuine[c]
    /\ c \in Known =>
         /\ attempt[c] = probes[c] /\ attempt[c] <= Attempts[c]
         /\ observed[c] = Expect[c] \/ attempt[c] = Attempts[c]

\* Until the context is cancelled, nothing is cut short.
NothingCutShort ==
    ~cancelled => \A c \in Checks : genuine[c] /\ (check[c] = "done" => RanToItsEnd(c))

\* An apply is sent only by a pod whose checks all ran to their end, and what
\* landed is the one document those checks make.  This outlives a cancellation
\* that comes after the apply was sent.
AppliedWhole ==
    /\ pc = "report" => \A c \in Checks : check[c] = "done"
    /\ inFlight => pc = "report"
    /\ inFlight \/ entry # None => \A c \in Checks : RanToItsEnd(c)
    /\ entry # None => entry = results
    /\ exit = 0 => entry # None

Inv ==
    /\ TypeOK
    /\ \A c \in Checks : Counted(c)
    /\ NothingCutShort
    /\ AppliedWhole

-----------------------------------------------------------------------------
(* Lemmas.                                                                 *)

\* The document has a result for every check and is not the absence of one.
LEMMA ResultsType ==
    ASSUME TypeOK
    PROVE  results \in [Checks -> Result] /\ results # None
<1>1. ASSUME NEW c \in Checks
      PROVE  [passed |-> c \in Known /\ observed[c] = Expect[c],
              observed |-> observed[c], attempts |-> attempt[c]] \in Result
    BY DEF TypeOK, Result
<1>2. results \in [Checks -> Result]
    BY <1>1 DEF results
<1> QED
    BY <1>2, NoneAssumption

\* The document depends on the checks' observations and attempts alone.
LEMMA ResultsStay == UNCHANGED <<observed, attempt>> => results' = results
BY DEF results

\* The initial states satisfy the invariant.
LEMMA InvInit == Init => Inv
<1> SUFFICES ASSUME Init PROVE Inv
    OBVIOUS
<1>1. TypeOK
    <2>1. tries \in 0 .. Steps /\ entry \in [Checks -> Result] \cup {None}
        BY BoundsAssumption DEF Init
    <2>2. /\ check \in [Checks -> {"waiting", "probing", "delaying", "done"}]
          /\ attempt \in [Checks -> Nat] /\ probes \in [Checks -> Nat]
          /\ observed \in [Checks -> Outcomes \cup {None}]
          /\ genuine \in [Checks -> BOOLEAN]
        BY DEF Init
    <2> QED
        BY <2>1, <2>2 DEF Init, TypeOK
<1>2. \A c \in Checks : Counted(c)
    BY DEF Init, Counted
<1>3. NothingCutShort
    BY DEF Init, NothingCutShort
<1>4. AppliedWhole
    BY NoneAssumption DEF Init, AppliedWhole
<1> QED
    BY <1>1, <1>2, <1>3, <1>4 DEF Inv

\* Type correctness is inductive.
LEMMA TypeNext == TypeOK /\ [Next]_vars => TypeOK'
<1> SUFFICES ASSUME TypeOK, [Next]_vars PROVE TypeOK'
    OBVIOUS
<1> USE DEF TypeOK
<1>1. CASE Cancel
    BY <1>1 DEF Cancel
<1>2. CASE GetCheckRun
    BY <1>2 DEF GetCheckRun, Exit
<1>3. ASSUME NEW c \in Checks, StartCheck(c) PROVE TypeOK'
    BY <1>3 DEF StartCheck, Outcomes
<1>4. ASSUME NEW c \in Checks, Probe(c) PROVE TypeOK'
    BY <1>4 DEF Probe
<1>5. ASSUME NEW c \in Checks, Delay(c) PROVE TypeOK'
    BY <1>5 DEF Delay
<1>6. ASSUME NEW c \in Checks, StopRetrying(c) PROVE TypeOK'
    <2>1. Attempts[c] \in Nat
        BY AttemptsAssumption
    <2> QED
        BY <1>6, <2>1 DEF StopRetrying
<1>7. CASE ChecksDone
    BY <1>7 DEF ChecksDone
<1>8. CASE SendApply
    BY <1>8, BoundsAssumption DEF SendApply
<1>9. CASE ApplyAnswered
    BY <1>9, ResultsType DEF ApplyAnswered, Exit
<1>10. CASE ApplyFails
    <2>1. entry' \in [Checks -> Result] \cup {None}
        BY <1>10, ResultsType DEF ApplyFails
    <2> QED
        BY <1>10, <2>1 DEF ApplyFails
<1>11. CASE GiveUp
    BY <1>11 DEF GiveUp, Exit
<1>12. CASE Kill
    <2>1. entry' \in [Checks -> Result] \cup {None}
        BY <1>12, ResultsType DEF Kill
    <2> QED
        BY <1>12, <2>1 DEF Kill, Exit
<1>13. CASE UNCHANGED vars
    BY <1>13 DEF vars
<1> QED
    BY <1>1, <1>2, <1>3, <1>4, <1>5, <1>6, <1>7, <1>8, <1>9, <1>10, <1>11, <1>12, <1>13
    DEF Next

\* The steps that leave the checks alone.
KeepsChecks == UNCHANGED <<check, attempt, observed, probes, genuine>>

LEMMA KeepsWhatRan ==
    ASSUME KeepsChecks
    PROVE  /\ \A c \in Checks : Counted(c) => Counted(c)'
           /\ \A c \in Checks : RanToItsEnd(c) <=> RanToItsEnd(c)'
           /\ results' = results
BY ResultsStay DEF KeepsChecks, Counted, RanToItsEnd

\* A step of one check while the checks execute disturbs no other check.
LEMMA CheckStepKeepsOthers ==
    ASSUME Inv, NEW c \in Checks, Execute(c)
    PROVE  /\ check[c] # "done" /\ ~inFlight /\ entry = None /\ pc # "report"
           /\ UNCHANGED <<pc, cancelled, inFlight, tries, entry, exit>>
           /\ \A d \in Checks \ {c} :
                /\ check'[d] = check[d] /\ attempt'[d] = attempt[d]
                /\ observed'[d] = observed[d] /\ probes'[d] = probes[d]
                /\ genuine'[d] = genuine[d]
<1>1. check[c] # "done" /\ UNCHANGED <<pc, cancelled, inFlight, tries, entry, exit>>
    BY DEF Execute, StartCheck, Probe, Delay, StopRetrying
<1>2. ~inFlight /\ entry = None /\ pc # "report"
    BY <1>1 DEF Inv, AppliedWhole, RanToItsEnd
<1>3. TypeOK
    BY DEF Inv
<1>4. ASSUME NEW d \in Checks \ {c}
      PROVE  /\ check'[d] = check[d] /\ attempt'[d] = attempt[d]
             /\ observed'[d] = observed[d] /\ probes'[d] = probes[d]
             /\ genuine'[d] = genuine[d]
    BY <1>3 DEF TypeOK, Execute, StartCheck, Probe, Delay, StopRetrying
<1> QED
    BY <1>1, <1>2, <1>4

\* What a check's step does to the check itself.
LEMMA CheckStepOnItself ==
    ASSUME Inv, NEW c \in Checks, Execute(c)
    PROVE  /\ Counted(c)'
           /\ ~cancelled => genuine'[c] /\ (check'[c] = "done" => RanToItsEnd(c)')
<1>1. TypeOK /\ Counted(c) /\ (~cancelled => genuine[c])
    BY DEF Inv, NothingCutShort
<1>2. Attempts[c] \in Nat \ {0} /\ attempt[c] \in Nat /\ probes[c] \in Nat
    BY <1>1, AttemptsAssumption DEF TypeOK
<1>3. CASE StartCheck(c)
    BY <1>1, <1>2, <1>3 DEF TypeOK, Counted, RanToItsEnd, StartCheck
<1>4. CASE Probe(c)
    BY <1>1, <1>2, <1>4 DEF TypeOK, Counted, RanToItsEnd, Probe, settled, lastAttempt
<1>5. CASE Delay(c)
    BY <1>1, <1>2, <1>5 DEF TypeOK, Counted, RanToItsEnd, Delay
<1>6. CASE StopRetrying(c)
    BY <1>1, <1>2, <1>6 DEF TypeOK, Counted, RanToItsEnd, StopRetrying
<1> QED
    BY <1>3, <1>4, <1>5, <1>6 DEF Execute

\* A step of a check preserves the invariant.
LEMMA CheckStepKeepsInv ==
    ASSUME Inv, NEW c \in Checks, Execute(c), TypeOK'
    PROVE  Inv'
<1>1. ASSUME NEW d \in Checks \ {c}
      PROVE  Counted(d)' /\ (RanToItsEnd(d) <=> RanToItsEnd(d)')
    BY <1>1, CheckStepKeepsOthers DEF Inv, Counted, RanToItsEnd
<1>2. \A d \in Checks : Counted(d)'
    BY <1>1, CheckStepOnItself
<1>3. NothingCutShort'
    <2>1. ASSUME ~cancelled, NEW d \in Checks
          PROVE  genuine'[d] /\ (check'[d] = "done" => RanToItsEnd(d)')
        BY <1>1, <2>1, CheckStepKeepsOthers, CheckStepOnItself DEF Inv, NothingCutShort
    <2>2. cancelled' = cancelled
        BY CheckStepKeepsOthers
    <2> QED
        BY <2>1, <2>2 DEF NothingCutShort
<1>4. AppliedWhole'
    BY CheckStepKeepsOthers DEF Inv, AppliedWhole
<1> QED
    BY <1>2, <1>3, <1>4 DEF Inv

\* Every step preserves the invariant.
LEMMA InvNext == Inv /\ [Next]_vars => Inv'
<1> SUFFICES ASSUME Inv, [Next]_vars PROVE Inv'
    OBVIOUS
<1>0. TypeOK /\ TypeOK'
    BY TypeNext DEF Inv
<1>1. ASSUME NEW c \in Checks, Execute(c) PROVE Inv'
    BY <1>0, <1>1, CheckStepKeepsInv
<1>2. ASSUME KeepsChecks, (cancelled' = cancelled) \/ cancelled', AppliedWhole' PROVE Inv'
    <2>1. \A c \in Checks : Counted(c)'
        BY <1>2, KeepsWhatRan DEF Inv
    <2>2. NothingCutShort'
        BY <1>2, KeepsWhatRan DEF Inv, NothingCutShort, KeepsChecks
    <2> QED
        BY <1>0, <1>2, <2>1, <2>2 DEF Inv
<1>3. AppliedWhole /\ results # None
    BY <1>0, ResultsType DEF Inv
<1>4. CASE Cancel
    <2>1. KeepsChecks
        BY <1>4 DEF Cancel, KeepsChecks
    <2> QED
        BY <1>2, <1>3, <1>4, <2>1, KeepsWhatRan DEF Cancel, AppliedWhole, KeepsChecks
<1>5. CASE GetCheckRun
    <2>1. KeepsChecks
        BY <1>5 DEF GetCheckRun, KeepsChecks
    <2> QED
        BY <1>2, <1>3, <1>5, <2>1, KeepsWhatRan DEF GetCheckRun, Exit, AppliedWhole, KeepsChecks
<1>6. CASE ChecksDone
    <2>1. KeepsChecks
        BY <1>6 DEF ChecksDone, KeepsChecks
    <2> QED
        BY <1>2, <1>3, <1>6, <2>1, KeepsWhatRan DEF ChecksDone, AppliedWhole, KeepsChecks
<1>7. CASE SendApply
    <2>1. KeepsChecks
        BY <1>7 DEF SendApply, KeepsChecks
    <2>2. ~cancelled => \A c \in Checks : RanToItsEnd(c)
        BY <1>3, <1>7 DEF Inv, NothingCutShort, AppliedWhole, SendApply
    <2> QED
        BY <1>2, <1>3, <1>7, <2>1, <2>2, KeepsWhatRan
        DEF SendApply, AppliedWhole, KeepsChecks
<1>8. CASE ApplyAnswered
    <2>1. KeepsChecks
        BY <1>8 DEF ApplyAnswered, KeepsChecks
    <2> QED
        BY <1>2, <1>3, <1>8, <2>1, KeepsWhatRan
        DEF ApplyAnswered, Exit, AppliedWhole, KeepsChecks
<1>9. CASE ApplyFails
    <2>1. KeepsChecks
        BY <1>9 DEF ApplyFails, KeepsChecks
    <2> QED
        BY <1>2, <1>3, <1>9, <2>1, KeepsWhatRan DEF ApplyFails, AppliedWhole, KeepsChecks
<1>10. CASE GiveUp
    <2>1. KeepsChecks
        BY <1>10 DEF GiveUp, KeepsChecks
    <2> QED
        BY <1>2, <1>3, <1>10, <2>1, KeepsWhatRan DEF GiveUp, Exit, AppliedWhole, KeepsChecks
<1>11. CASE Kill
    <2>1. KeepsChecks
        BY <1>11 DEF Kill, KeepsChecks
    <2> QED
        BY <1>2, <1>3, <1>11, <2>1, KeepsWhatRan DEF Kill, Exit, AppliedWhole, KeepsChecks
<1>12. CASE UNCHANGED vars
    <2>1. KeepsChecks
        BY <1>12 DEF vars, KeepsChecks
    <2> QED
        BY <1>2, <1>3, <1>12, <2>1, KeepsWhatRan DEF vars, AppliedWhole, KeepsChecks
<1> QED
    BY <1>1, <1>4, <1>5, <1>6, <1>7, <1>8, <1>9, <1>10, <1>11, <1>12 DEF Next, Execute

\* What the invariant says of the entry in the API.
LEMMA InvImplies ==
    Inv => EntryIsGenuine /\ FailureUsesAllAttempts /\ (exit = 0 => entry # None)
<1> SUFFICES ASSUME Inv
             PROVE  EntryIsGenuine /\ FailureUsesAllAttempts /\ (exit = 0 => entry # None)
    OBVIOUS
<1>1. ASSUME entry # None
      PROVE  /\ entry = results
             /\ \A c \in Checks : RanToItsEnd(c)
    BY <1>1 DEF Inv, AppliedWhole
<1>2. EntryIsGenuine
    BY <1>1 DEF EntryIsGenuine, RanToItsEnd, results
<1>3. FailureUsesAllAttempts
    <2>1. ASSUME entry # None, NEW c \in Known
          PROVE  /\ entry[c].passed <=> observed[c] = Expect[c]
                 /\ ~entry[c].passed => probes[c] = Attempts[c]
                 /\ probes[c] <= Attempts[c]
        <3>1. c \in Checks
            BY ChecksAssumption
        <3>2. entry[c].passed = (c \in Known /\ observed[c] = Expect[c])
            BY <1>1, <2>1, <3>1 DEF results
        <3>3. RanToItsEnd(c)
            BY <1>1, <2>1, <3>1
        <3> QED
            BY <2>1, <3>2, <3>3 DEF RanToItsEnd
    <2> QED
        BY <2>1 DEF FailureUsesAllAttempts
<1>4. exit = 0 => entry # None
    BY DEF Inv, AppliedWhole
<1> QED
    BY <1>2, <1>3, <1>4

\* The invariant holds throughout.
LEMMA Invariance == Spec => []Inv
BY InvInit, InvNext, PTL DEF Spec

-----------------------------------------------------------------------------
(* Theorems.                                                               *)

\* The pod's state has its type.
THEOREM TypeCorrect == Spec => []TypeOK
<1>1. Inv => TypeOK
    BY DEF Inv
<1> QED
    BY <1>1, Invariance, PTL

\* What landed in the API tells the whole work of the pod (executeCheck and
\* report share one context): no result of a probe that SIGTERM cut short, and
\* the attempts claimed are the probes made.
THEOREM GenuineCorrect == Spec => []EntryIsGenuine
BY Invariance, InvImplies, PTL

\* A reported failure used all its attempts (the retry loop of executeCheck
\* ends early only on a match).
THEOREM AttemptsCorrect == Spec => []FailureUsesAllAttempts
BY Invariance, InvImplies, PTL

\* Exit code 0 means that the apply of report landed.
THEOREM ExitCorrect == Spec => [](exit = 0 => entry # None)
BY Invariance, InvImplies, PTL

\* A retried apply repeats the document that landed: an entry never changes.
THEOREM EntryStable == Spec => [][entry # None => UNCHANGED entry]_vars
<1>1. Inv /\ [Next]_vars => (entry # None => UNCHANGED entry)
    <2> SUFFICES ASSUME Inv, [Next]_vars, entry # None PROVE entry' = entry
        OBVIOUS
    <2>1. entry = results
        BY DEF Inv, AppliedWhole
    <2> QED
        BY <2>1 DEF Next, vars, Cancel, GetCheckRun, StartCheck, Probe, Delay, StopRetrying,
           ChecksDone, SendApply, ApplyAnswered, ApplyFails, GiveUp, Kill
<1> QED
    BY <1>1, Invariance, PTL DEF Spec

-----------------------------------------------------------------------------
(* Refinement.                                                             *)

\* An entry that is written is the whole document; if there was one before, it
\* was this document.
LEMMA WritesLand ==
    ASSUME Inv, inFlight, entry' \in {entry, results}
    PROVE  Life!Land \/ UNCHANGED entry
<1>1. results \in [Checks -> Result] /\ results # None
    BY ResultsType DEF Inv
<1>2. entry # None => entry = results
    BY DEF Inv, AppliedWhole
<1> QED
    BY <1>1, <1>2 DEF Life!Land

\* An exit ends the pod's life, and its code says whether it succeeded.
LEMMA ExitEnds ==
    ASSUME alive, NEW code, Exit(code), Life!Land \/ UNCHANGED entry,
           code = 0 => entry' # None
    PROVE  Life!PodNext
<1>1. ~alive' /\ exit' = code
    BY DEF alive, Exit
<1>2. CASE code = 0
    BY <1>1, <1>2 DEF Life!PodNext, Life!End
<1>3. CASE code # 0
    BY <1>1, <1>3 DEF Life!PodNext, Life!End
<1> QED
    BY <1>2, <1>3

\* Every step of the pod is a step of the life it promises, or none.
LEMMA PodStepsLive == Inv /\ [Next]_vars => [Life!PodNext]_(Life!vars)
<1> SUFFICES ASSUME Inv, [Next]_vars PROVE Life!PodNext \/ UNCHANGED Life!vars
    OBVIOUS
<1>1. inFlight => alive
    BY DEF Inv, AppliedWhole, alive
<1>2. results # None
    BY ResultsType DEF Inv
<1>3. CASE alive' = alive /\ UNCHANGED <<exit, entry>>
    BY <1>3 DEF Life!vars
<1>4. CASE GetCheckRun
    <2>1. CASE pc' = "execute" /\ UNCHANGED exit
        BY <1>3, <1>4, <2>1 DEF GetCheckRun, alive
    <2>2. CASE Exit(1)
        BY <1>4, <2>2, ExitEnds DEF GetCheckRun, alive
    <2> QED
        BY <1>4, <2>1, <2>2 DEF GetCheckRun
<1>5. CASE ApplyAnswered
    <2>1. Exit(0) /\ inFlight /\ entry' = results
        BY <1>5 DEF ApplyAnswered
    <2> QED
        BY <1>1, <1>2, <2>1, WritesLand, ExitEnds
<1>6. CASE ApplyFails
    <2>1. inFlight /\ entry' \in {entry, results} /\ UNCHANGED <<pc, exit>>
        BY <1>6 DEF ApplyFails
    <2>2. CASE Life!Land
        BY <1>1, <2>1, <2>2 DEF Life!PodNext, Life!Report, alive
    <2>3. CASE UNCHANGED entry
        BY <1>3, <2>1, <2>3 DEF alive
    <2> QED
        BY <2>1, <2>2, <2>3, WritesLand
<1>7. CASE GiveUp
    BY <1>7, ExitEnds DEF GiveUp, alive
<1>8. CASE Kill
    <2>1. alive /\ Exit(137) /\ (UNCHANGED entry \/ (inFlight /\ entry' \in {entry, results}))
        BY <1>8 DEF Kill
    <2> QED
        BY <2>1, WritesLand, ExitEnds
<1>9. CASE \/ Cancel \/ ChecksDone \/ SendApply \/ UNCHANGED vars
           \/ \E c \in Checks : StartCheck(c) \/ Probe(c) \/ Delay(c) \/ StopRetrying(c)
    BY <1>3, <1>9 DEF Cancel, ChecksDone, SendApply, StartCheck, Probe, Delay, StopRetrying, vars, alive
<1> QED
    BY <1>4, <1>5, <1>6, <1>7, <1>8, <1>9 DEF Next

\* The runner's code keeps the promise that its pods make to the controller: the
\* entry lands at most once and whole, never after the exit, and exit code 0 comes
\* with an entry in the API, whatever is cancelled, killed or lost.
THEOREM LifeCorrect == Spec => ImplementsPodLife
<1>1. Init => Life!Init
    BY DEF Init, alive, Life!Init
<1> QED
    BY <1>1, PodStepsLive, Invariance, PTL DEF Spec, ImplementsPodLife, Life!Spec
=============================================================================
