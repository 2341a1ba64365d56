---------------------------- MODULE MCCompassCal ----------------------------
(* The buffers have the sizes they have in the code, and samples enough to  *)
(* fill them, to be dropped by a fit and to fill them again.                *)
EXTENDS CompassCal
=============================================================================
