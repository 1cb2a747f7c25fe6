---------------------------- MODULE MCCheckSuite ----------------------------
(* Instances of CheckSuite for TLC: a tick every time unit, at odd times, or *)
(* never.                                                                    *)
EXTENDS CheckSuite

CONSTANT a

AllowOnly == {"Allow"}
ForbidOrReplace == {"Forbid", "Replace"}

NoTriggers == {}
OneTrigger == {a}

SucceededOnly == {"Succeeded"}

OddTimes == {"oddTimes"}
LivenessSchedules == {"everyOne", "never"}
StaleExpressions == {"everyOne", "never", Invalid}
LivenessExpressions == {"everyOne", Invalid}

NextOf ==
    [s \in Schedules |->
        [t \in Times \cup {Zero} |->
            CASE s = "oddTimes" -> 2 * ((t + 1) \div 2) + 1
              [] s = "everyOne" -> t + 1
              [] OTHER -> Zero]]
=============================================================================
