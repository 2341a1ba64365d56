----------------------------- MODULE MCCalLibs -----------------------------
(* Three libraries, one of them without algorithms; two sensors of a type   *)
(* and one of another.                                                      *)
EXTENDS CalLibs, TLC

CONSTANTS A, B, C

MCNumber == (A :> 2) @@ (B :> 1) @@ (C :> 0)
MCSensor == {[type |-> "mag", name |-> "akm"], [type |-> "mag", name |-> "bosch"],
             [type |-> "acc", name |-> "akm"]}
MCTypeName == [mag |-> "compass", acc |-> "accelerometer"]
MCConfigs == {NoFile, Misread, <<A, A>>} \cup {c \in UNION {[1 .. n -> Lib] : n \in 0 .. 3} : IsInjective(c)}
MCAttributes ==
  {[valid |-> TRUE, type |-> "mag", compatible |-> c] : c \in SUBSET {"akm", "compass"} \ {{}}}
    \cup {[valid |-> FALSE, type |-> "mag", compatible |-> {"akm"}]}
=============================================================================
