----------------------------- MODULE MCCalStore -----------------------------
(* Up to three sensors: one that returns all its offsets, one that keeps    *)
(* them in memory, one without calibration; two parameters each.            *)
EXTENDS CalStore
=============================================================================
