----------------------------- MODULE MCCheckRun -----------------------------
(***************************************************************************)
(* Instances of CheckRun for TLC: one or two runners, one or two replicas, *)
(* a spare pod for a retry, a check restricted to the second runner.       *)
(***************************************************************************)
EXTENDS CheckRun, TLC

CONSTANTS p1, p2, p3, c1, c2

OnePodSet == {p1}
TwoPods == {p1, p2}
ThreePods == {p1, p2, p3}
OneCheck == {c1}
TwoChecks == {c1, c2}

AllOnFirst == [p \in Pods |-> 1]
OneEach == [p \in Pods |-> IF p = p1 THEN 1 ELSE 2]

Unrestricted == [c \in Checks |-> {}]
SecondOnly == [c \in Checks |-> IF c = c1 THEN {} ELSE {2}]

NoRunner == {}
FirstRunner == {1}
SecondRunner == {2}

OneReplica == [r \in Runners |-> 1]
TwoReplicas == [r \in Runners |-> 2]

\* A clock of whole seconds, and one of half seconds.
WholeSeconds == [t \in Times |-> t]
HalfSeconds == [t \in Times |-> t - (t % 2)]

PodSymmetry == Permutations(Pods)
=============================================================================
