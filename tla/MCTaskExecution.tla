-------------------------- MODULE MCTaskExecution --------------------------
(* TaskExecution on two processes, each with a tick thread, and the /run   *)
(* threads the configuration chooses.                                      *)
EXTENDS TaskExecution

CONSTANTS p1, p2, r1, r2, c1, c2

RobotsApart   == [t \in {r1, r2} |-> IF t = r1 THEN p1 ELSE p2]
RunElsewhere  == [t \in {r1, c1} |-> IF t = c1 THEN p1 ELSE p2]
RobotAlone    == [t \in {r1} |-> p1]
RunsApart     == [t \in {r1, c1, c2} |-> IF t = c2 THEN p2 ELSE p1]
TwoCommands   == [t \in {r1, c1, c2} |-> p1]

OneManual     == [k \in {1} |-> "manual"]
OneMonitor    == [k \in {1} |-> "price_monitor"]
MonitorAndManual == [k \in {1, 2} |-> IF k = 1 THEN "price_monitor" ELSE "manual"]
=============================================================================
