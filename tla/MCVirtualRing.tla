--------------------------- MODULE MCVirtualRing ---------------------------
(* A ring of three, and samples enough for more than two turns of it.       *)
EXTENDS VirtualRing
=============================================================================
