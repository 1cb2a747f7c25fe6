---------------------------- MODULE MCRunnerPod -----------------------------
(***************************************************************************)
(* RunnerPod with three checks, two at a time: the first expects success   *)
(* and has three attempts, the second expects failure and has two, the     *)
(* third is of a type this runner image does not know.                     *)
(***************************************************************************)
EXTENDS RunnerPod

FirstTwo == {1, 2}
SecondFails == [c \in Checks |-> IF c = 2 THEN "Failure" ELSE "Success"]
ThreeTwoOne == [c \in Checks |-> 4 - c]
=============================================================================
