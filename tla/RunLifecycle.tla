---------------------------- MODULE RunLifecycle ----------------------------
(***************************************************************************)
(* What a CheckRun promises to whoever watches its status: it starts once, *)
(* ends once, keeps the time of both, and carries a verdict only when      *)
(* every runner has its replicas' worth of entries.  Nothing is said of    *)
(* caches, Jobs or retries: module CheckRun shows that the controller      *)
(* implements this.                                                        *)
(***************************************************************************)
EXTENDS Integers, FiniteSets

CONSTANTS NumRunners, Replicas, Pods, RunnerOf, MaxTime, None

VARIABLES phase, startTime, completionTime, entries

vars == <<phase, startTime, completionTime, entries>>

Verdicts == {"Succeeded", "Failed"}
Final == Verdicts \cup {"Error"}

Enough ==
    \A r \in 1 .. NumRunners :
        Cardinality({p \in entries : RunnerOf[p] = r}) >= Replicas[r]

Init ==
    /\ phase = "" /\ startTime = None /\ completionTime = None
    /\ entries = {}

\* The run starts, once.
Begin ==
    /\ phase = ""
    /\ phase' = "Running"
    /\ startTime' \in 0 .. MaxTime
    /\ UNCHANGED <<completionTime, entries>>

\* The run ends, once; a start that was not recorded yet is recorded with it.
End ==
    /\ phase \notin Final
    /\ phase' \in Final
    /\ phase' \in Verdicts => Enough
    /\ IF startTime = None THEN startTime' \in 0 .. MaxTime ELSE UNCHANGED startTime
    /\ completionTime' \in startTime' .. MaxTime
    /\ UNCHANGED entries

\* A pod's entry lands, before the end or after it.
Report ==
    /\ \E p \in Pods : entries' = entries \cup {p}
    /\ UNCHANGED <<phase, startTime, completionTime>>

Next == Begin \/ End \/ Report

Spec == Init /\ [][Next]_vars /\ WF_vars(End)
=============================================================================
