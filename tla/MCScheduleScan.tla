--------------------------- MODULE MCScheduleScan ---------------------------
(* An irregular schedule, with ticks at 2, 3, 5, 6, 7, 10 and 13; @every 2, *)
(* whose ticks depend on when one asks; and one that never fires.           *)
EXTENDS ScheduleScan

TickSet == {2, 3, 5, 6, 7, 10, 13}
ThreeSchedules == {"irregular", "everyTwo", "never"}
NextOf ==
    [irregular |->
        [s \in Times \cup {Zero} |->
            CHOOSE k \in TickSet : k > s /\ \A j \in TickSet : j > s => k <= j],
     everyTwo |-> [s \in Times \cup {Zero} |-> s + 2],
     never |-> [s \in Times \cup {Zero} |-> Zero]]
=============================================================================
