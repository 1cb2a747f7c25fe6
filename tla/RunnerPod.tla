----------------------------- MODULE RunnerPod ------------------------------
(***************************************************************************)
(* One runner pod (internal/runner): it reads the CheckRun, executes the   *)
(* checks of its runner with bounded concurrency, retries a check while    *)
(* its observation differs from the expectation, and applies all results   *)
(* as its single entry under status.runners[].  SIGTERM cancels the        *)
(* context that the probes, the retry delays and the apply share.          *)
(***************************************************************************)
EXTENDS Integers, FiniteSets

CONSTANTS
    NumChecks,   \* the runner's checks, in the order of the spec: 1 .. NumChecks
    Known,       \* the checks whose type the runner image knows
    Expect,      \* check -> expected observation
    Attempts,    \* check -> retries.attempts, at least 1
    Limit,       \* --max-concurrent-checks
    Steps,       \* how often the apply is tried: the code asks for 8 steps, and
                 \* the backoff's cap of 15 s ends them after 6
    None

Checks == 1 .. NumChecks
Outcomes == {"Success", "Failure"}

\* What the entry says of a check.
Result == [passed: BOOLEAN, observed: Outcomes \cup {None}, attempts: Nat]

ASSUME ChecksAssumption == NumChecks \in Nat /\ Known \subseteq Checks
ASSUME ExpectAssumption == Expect \in [Checks -> Outcomes]
ASSUME AttemptsAssumption == Attempts \in [Checks -> Nat \ {0}]
ASSUME BoundsAssumption == Limit \in Nat \ {0} /\ Steps \in Nat \ {0}
ASSUME NoneAssumption ==
    None \notin Nat \cup Outcomes /\ None \notin [Checks -> Result]

VARIABLES
    pc,         \* "get", "execute", "report" or "exited"
    check,      \* check -> "waiting", "probing", "delaying" or "done"
    attempt,    \* check -> the loop's attempt counter
    observed,   \* check -> the last observation
    probes,     \* check -> probes really made (history)
    genuine,    \* check -> was the last probe made with a live context? (history)
    cancelled,  \* was the context cancelled?
    inFlight,   \* is an apply on its way that was sent with a live context?
    tries,      \* applies made
    entry,      \* the entry in the API: None, or check -> result
    exit        \* exit code

vars == <<pc, check, attempt, observed, probes, genuine, cancelled, inFlight,
          tries, entry, exit>>

Init ==
    /\ pc = "get"
    /\ check = [c \in Checks |-> "waiting"]
    /\ attempt = [c \in Checks |-> 0]
    /\ observed = [c \in Checks |-> None]
    /\ probes = [c \in Checks |-> 0]
    /\ genuine = [c \in Checks |-> TRUE]
    /\ cancelled = FALSE
    /\ inFlight = FALSE
    /\ tries = 0
    /\ entry = None
    /\ exit = None

alive == pc # "exited"

\* SIGTERM.
Cancel ==
    /\ ~cancelled /\ alive
    /\ cancelled' = TRUE
    /\ UNCHANGED <<pc, check, attempt, observed, probes, genuine, inFlight, tries,
                   entry, exit>>

Exit(code) == pc' = "exited" /\ exit' = code

\* The CheckRun is read once; an error ends the pod.
GetCheckRun ==
    /\ pc = "get"
    /\ \/ ~cancelled /\ pc' = "execute" /\ UNCHANGED exit
       \/ Exit(1)
    /\ UNCHANGED <<check, attempt, observed, probes, genuine, cancelled, inFlight,
                   tries, entry>>

-----------------------------------------------------------------------------
(* executeChecks and executeCheck.                                         *)

\* BUG: a check that is done keeps its slot.
Started == {c \in Checks : check[c] # "waiting"}

Executing == {c \in Checks : check[c] \in {"probing", "delaying"}}

\* The group starts the checks in order, Limit of them at a time.  A check of
\* unknown type gets a failed result without a probe.
StartCheck(c) ==
    /\ pc = "execute" /\ check[c] = "waiting"
    /\ \A d \in 1 .. (c - 1) : check[d] # "waiting"
    /\ Cardinality(Executing) < Limit
    /\ attempt' = [attempt EXCEPT ![c] = 1]
    /\ IF c \in Known
       THEN check' = [check EXCEPT ![c] = "probing"] /\ UNCHANGED observed
       ELSE /\ check' = [check EXCEPT ![c] = "done"]
            /\ observed' = [observed EXCEPT ![c] = "Failure"]
    /\ UNCHANGED <<pc, probes, genuine, cancelled, inFlight, tries, entry, exit>>

\* BUG: one attempt too few.
lastAttemptOffByOne(c) == attempt[c] + 1 >= Attempts[c]

lastAttempt(c) == attempt[c] >= Attempts[c]

\* Retry only while the observation does not match the expectation.
settled(c, outcome) == outcome = Expect[c] \/ lastAttempt(c)

\* A probe ends.  What one with a cancelled context observes says nothing of
\* its target: mostly it fails.
Probe(c) ==
    /\ alive /\ check[c] = "probing"
    /\ \E outcome \in Outcomes :
         /\ observed' = [observed EXCEPT ![c] = outcome]
         /\ check' = [check EXCEPT ![c] = IF settled(c, outcome) THEN "done" ELSE "delaying"]
    /\ probes' = [probes EXCEPT ![c] = @ + 1]
    /\ genuine' = [genuine EXCEPT ![c] = ~cancelled]
    /\ UNCHANGED <<pc, attempt, cancelled, inFlight, tries, entry, exit>>

\* The delay passes and the next attempt starts.  (When the context is done as
\* well, select may still take this branch.)
Delay(c) ==
    /\ alive /\ check[c] = "delaying"
    /\ check' = [check EXCEPT ![c] = "probing"]
    /\ attempt' = [attempt EXCEPT ![c] = @ + 1]
    /\ UNCHANGED <<pc, observed, probes, genuine, cancelled, inFlight, tries, entry, exit>>

\* ctx.Done() during the delay: stop retrying, keep the last observation.
StopRetrying(c) ==
    /\ alive /\ check[c] = "delaying" /\ cancelled
    /\ check' = [check EXCEPT ![c] = "done"]
    /\ attempt' = [attempt EXCEPT ![c] = Attempts[c]]
    /\ UNCHANGED <<pc, observed, probes, genuine, cancelled, inFlight, tries, entry, exit>>

\* BUG: nobody waits for the checks that are still running.
ChecksDoneWithoutWait ==
    /\ pc = "execute"
    /\ \A c \in Checks : check[c] # "waiting"
    /\ pc' = "report"
    /\ UNCHANGED <<check, attempt, observed, probes, genuine, cancelled, inFlight,
                   tries, entry, exit>>

\* g.Wait() returns.
ChecksDone ==
    /\ pc = "execute"
    /\ \A c \in Checks : check[c] = "done"
    /\ pc' = "report"
    /\ UNCHANGED <<check, attempt, observed, probes, genuine, cancelled, inFlight,
                   tries, entry, exit>>

-----------------------------------------------------------------------------
(* report.                                                                 *)

\* The document: one result per check, whatever its verdict.
results ==
    [c \in Checks |-> [passed |-> c \in Known /\ observed[c] = Expect[c],
                       observed |-> observed[c], attempts |-> attempt[c]]]

\* BUG: the apply has a context of its own.
SendApplyDetached ==
    /\ pc = "report" /\ ~inFlight /\ tries < Steps
    /\ inFlight' = TRUE
    /\ tries' = tries + 1
    /\ UNCHANGED <<pc, check, attempt, observed, probes, genuine, cancelled, entry, exit>>

\* BUG: the backoff never runs out of steps.
SendApplyForever ==
    /\ pc = "report" /\ ~inFlight
    /\ inFlight' = ~cancelled
    /\ tries' = tries + 1
    /\ UNCHANGED <<pc, check, attempt, observed, probes, genuine, cancelled, entry, exit>>

\* An apply is sent, if the context is still live; a cancelled one fails the
\* try at once.
SendApply ==
    /\ pc = "report" /\ ~inFlight /\ tries < Steps
    /\ inFlight' = ~cancelled
    /\ tries' = tries + 1
    /\ UNCHANGED <<pc, check, attempt, observed, probes, genuine, cancelled, entry, exit>>

\* BUG: a failed apply is taken for an answer.
ApplyAnsweredAnyhow ==
    /\ inFlight
    /\ inFlight' = FALSE
    /\ entry' \in {entry, results}
    /\ Exit(0)
    /\ UNCHANGED <<check, attempt, observed, probes, genuine, cancelled, tries>>

\* The apply landed and its answer arrived: the pod is done.
ApplyAnswered ==
    /\ inFlight
    /\ inFlight' = FALSE
    /\ entry' = results
    /\ Exit(0)
    /\ UNCHANGED <<check, attempt, observed, probes, genuine, cancelled, tries>>

\* The apply fails: it did not land, or it landed and its answer was lost.
ApplyFails ==
    /\ inFlight
    /\ inFlight' = FALSE
    /\ entry' \in {entry, results}
    /\ UNCHANGED <<pc, check, attempt, observed, probes, genuine, cancelled, tries, exit>>

\* Every error is retried, until the backoff has no steps left.
GiveUp ==
    /\ pc = "report" /\ ~inFlight /\ tries = Steps
    /\ Exit(1)
    /\ UNCHANGED <<check, attempt, observed, probes, genuine, cancelled, inFlight,
                   tries, entry>>

\* SIGKILL, an eviction, the loss of the node.  What was sent may still land.
Kill ==
    /\ alive
    /\ Exit(137)
    /\ inFlight' = FALSE
    /\ entry' \in IF inFlight THEN {entry, results} ELSE {entry}
    /\ UNCHANGED <<check, attempt, observed, probes, genuine, cancelled, tries>>

-----------------------------------------------------------------------------
Execute(c) == StartCheck(c) \/ Probe(c) \/ Delay(c) \/ StopRetrying(c)

Report == SendApply \/ ApplyAnswered \/ ApplyFails \/ GiveUp

Next ==
    \/ Cancel
    \/ GetCheckRun
    \/ \E c \in Checks : StartCheck(c)
    \/ \E c \in Checks : Probe(c)
    \/ \E c \in Checks : Delay(c)
    \/ \E c \in Checks : StopRetrying(c)
    \/ ChecksDone
    \/ SendApply
    \/ ApplyAnswered
    \/ ApplyFails
    \/ GiveUp
    \/ Kill

Spec == Init /\ [][Next]_vars

\* The process runs: probes have timeouts, delays pass, the API server answers
\* or the call fails.  No fairness on signals.
FairSpec ==
    /\ Spec
    /\ WF_vars(GetCheckRun)
    /\ \A c \in Checks : WF_vars(Execute(c))
    /\ WF_vars(ChecksDone)
    /\ WF_vars(Report)

-----------------------------------------------------------------------------
(* Correctness.                                                            *)

\* Type invariant.
TypeOK ==
    /\ pc \in {"get", "execute", "report", "exited"}
    /\ check \in [Checks -> {"waiting", "probing", "delaying", "done"}]
    /\ attempt \in [Checks -> Nat]
    /\ observed \in [Checks -> Outcomes \cup {None}]
    /\ probes \in [Checks -> Nat]
    /\ genuine \in [Checks -> BOOLEAN]
    /\ cancelled \in BOOLEAN
    /\ inFlight \in BOOLEAN
    /\ tries \in 0 .. Steps
    /\ entry \in [Checks -> Result] \cup {None}
    /\ exit \in {None, 0, 1, 137}

\* An entry in the API is the pod's whole work, honestly told: a result for
\* every check, none of them from a probe that SIGTERM cut short (which would
\* turn into a pass of a check that expects failure), and the attempts it
\* claims are the probes that were made.
EntryIsGenuine ==
    entry # None =>
        /\ DOMAIN entry = Checks
        /\ \A c \in Checks :
             /\ check[c] = "done"
             /\ genuine[c]
             /\ c \in Known => entry[c].attempts = probes[c]

\* A check is reported as failed only after all its attempts, and as passed
\* only by an observation that matches its expectation, made at the attempt
\* it reports.
FailureUsesAllAttempts ==
    entry # None =>
        \A c \in Known :
            /\ entry[c].passed <=> observed[c] = Expect[c]
            /\ ~entry[c].passed => probes[c] = Attempts[c]
            /\ probes[c] <= Attempts[c]

\* The pod as module CheckRun sees it.
Life ==
    INSTANCE PodLife WITH
        Documents <- [Checks -> Result],
        state <- IF alive THEN "running" ELSE IF exit = 0 THEN "succeeded" ELSE "failed",
        reported <- entry # None,
        document <- entry

\* Whatever is cancelled, killed or lost on the way, the pod keeps the promise of
\* module PodLife: its entry has a result for every check and is written once (a
\* retried apply repeats the same document), never after the exit, and the pod
\* exits 0 only when its entry is in the API, so a Job that completes has had
\* every pod's results land.
ImplementsPodLife == Life!Spec

\* The pod ends, on its own, with its retries and tries bounded.
EventuallyExits == <>(pc = "exited")
=============================================================================
