------------------------------ MODULE PodLife -------------------------------
(***************************************************************************)
(* What a runner pod promises to those who count on its entry: the entry   *)
(* lands at most once, whole, while the pod runs or after the control      *)
(* plane has lost touch with it, and the pod succeeds only with its entry  *)
(* in the API.  Nothing is said of checks, retries or signals.             *)
(*                                                                         *)
(* Module RunnerPod shows that the runner's code implements this; it is    *)
(* also what module CheckRun lets each of its pods do.                     *)
(***************************************************************************)

CONSTANT Documents  \* what the entry of this pod may be

VARIABLES
    state,     \* "none", "running", "succeeded", "failed" or "lost"
    reported,  \* is the pod's entry in the API?
    document   \* its entry, if it is

vars == <<state, reported, document>>

Init == state \in {"none", "running"} /\ reported = FALSE

Start ==
    /\ state = "none"
    /\ state' = "running"
    /\ UNCHANGED <<reported, document>>

\* The entry lands.
Land == ~reported /\ reported' /\ document' \in Documents

Report == state \in {"running", "lost"} /\ Land /\ UNCHANGED state

\* The pod ends; what it had sent may land with its end.
End ==
    /\ state = "running"
    /\ Land \/ UNCHANGED <<reported, document>>
    /\ \/ state' = "succeeded" /\ reported'
       \/ state' \in {"failed", "lost"}

PodNext == Start \/ Report \/ End

Spec == Init /\ [][PodNext]_vars
=============================================================================
