-------------------------- MODULE MCSensorManager --------------------------
(* The device's contexts: accelerometer and magnetometer, the orientation   *)
(* sensor on both of them and the uncalibrated magnetometer on the second.  *)
EXTENDS ManagerCommands

CONSTANTS acc, mag, prox, ori, unc

MCDep == [s \in Sensor |-> CASE s = ori -> SelectSeq(<<acc, mag>>, LAMBDA h : h \in Hw)
                             [] s = unc -> <<mag>>
                             [] OTHER -> <<s>>]
MCMinDelay == [s \in Sensor |-> 2]
MCMinDelayMixed == [s \in Sensor |-> IF s = unc THEN 0 ELSE 2]
=============================================================================
