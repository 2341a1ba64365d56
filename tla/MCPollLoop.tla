----------------------------- MODULE MCPollLoop -----------------------------
(* Sensors 1 (accelerometer) and 2 (magnetometer) with a virtual sensor 3   *)
(* on both; or sensor 1 alone with a virtual sensor 2 on it.                *)
EXTENDS PollLoop

MCDep == [s \in Sensor |-> IF s \in Hw THEN {s} ELSE Hw]
MCCommands == [type : {"enable", "disable"}, sensor : {1, Number}]
                \cup {[type |-> "period", sensor |-> 1], [type |-> "bad"]}
MCSwitching == [type : {"enable", "disable"}, sensor : {1, Number}]
=============================================================================
