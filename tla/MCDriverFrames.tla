--------------------------- MODULE MCDriverFrames ---------------------------
(* The five drivers, the accelerometer with two axes.  -1 is an ordinary     *)
(* value to all but the proximity sensor.                                    *)
EXTENDS DriverFrames

MCAxesOf == [k \in Kind |-> IF k = "accel" THEN {"x", "y"} ELSE {"x"}]
MCValue == {-1, 1}
=============================================================================
