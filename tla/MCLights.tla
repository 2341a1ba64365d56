------------------------------ MODULE MCLights ------------------------------
(* Two threads and two devices; a light the vendor has and the wrapper not; *)
(* black, a colour that rounds to 0, one below the minimum, white.          *)
EXTENDS Lights, TLC

CONSTANTS t1, t2, d1, d2

MCColor == {[a |-> 255, r |-> 0, g |-> 0, b |-> 0], [a |-> 255, r |-> 2, g |-> 0, b |-> 0],
            [a |-> 0, r |-> 60, g |-> 60, b |-> 60], [a |-> 255, r |-> 255, g |-> 255, b |-> 255]}
MCGamma == (60 :> 10) @@ (255 :> 255)    \* 255 * (level / 255) ^ 2.2, cut off
=============================================================================
