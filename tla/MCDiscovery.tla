---------------------------- MODULE MCDiscovery ----------------------------
(* Up to three sensors, two of them of one type, one of a type without a    *)
(* driver and one of a type that is not supported; nodes in any order.      *)
(* With room for nine, three sensors and the virtual ones just fit: three   *)
(* more directories go to this limit and beyond.                            *)
EXTENDS Discovery, TLC

MCTypeName ==
  [t \in {"acc", "mag", "gyro", "press", "step", "uncalibrated",
          "orientation", "linear", "rotation", "gravity"} |->
     IF t = "mag" THEN "compass" ELSE t]
Entries ==
  {[complete |-> TRUE, type |-> "acc", name |-> "bma"],
   [complete |-> TRUE, type |-> "mag", name |-> "akm"],
   [complete |-> TRUE, type |-> "mag", name |-> "ak2"],
   [complete |-> FALSE, type |-> "mag", name |-> "yas"],
   [complete |-> TRUE, type |-> "gyro", name |-> "l3g"],
   [complete |-> TRUE, type |-> "press", name |-> "bmp"],
   [complete |-> TRUE, type |-> "step", name |-> "step"]}
Nodes == {[opens |-> TRUE, name |-> "akm"], [opens |-> TRUE, name |-> "ak2"],
          [opens |-> TRUE, name |-> "compass"]}
Names == {VirtualSensors[k].name : k \in DOMAIN VirtualSensors}
MCName == {"bma", "akm", "ak2", "yas", "l3g", "bmp", "step", "compass"} \cup Names
Lists(S, n) == UNION {[1 .. k -> S] : k \in 0 .. n}
Acc == [complete |-> TRUE, type |-> "acc", name |-> "bma"]
Mags == {e \in Entries : e.type = "mag"}
MCSensorDirs ==
  {d \in Lists(Entries, 3) : IsInjective(d)}
    \cup {<<Acc>> \o d : d \in {m \in [1 .. 3 -> Mags] : IsInjective(m)}}
    \cup {<<Acc, [Acc EXCEPT !.name = "bmp"]>> \o d :
            d \in {m \in [1 .. 2 -> Mags] : \A k \in 1 .. 2 : m[k].complete}}
    \cup {[k \in 1 .. 10 |-> Acc]}
MCEventDirs == {d \in Lists(Nodes, 3) : IsInjective(d)}
MCAlgoSets == {{}, Names} \cup {Names \ {n} : n \in Names}
MCSupported == {"acc", "mag", "gyro", "press"}
MCDriven == {"acc", "mag", "gyro"}
=============================================================================
