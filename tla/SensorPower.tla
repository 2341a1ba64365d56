---------------------------- MODULE SensorPower ----------------------------
(***************************************************************************)
(* What the sensor manager promises about the background hardware: it is   *)
(* shared by use counting.  A sensor that somebody uses is never switched  *)
(* off; how and when an unused one is switched is left open.               *)
(***************************************************************************)
CONSTANTS Hw,     \* the hardware sensors
          User    \* whoever may use one: hardware and virtual sensors alike

VARIABLES users,  \* who uses each hardware sensor
          on      \* whether its driver is enabled

vars == <<users, on>>

Init == users = [h \in Hw |-> {}] /\ on \in [Hw -> BOOLEAN]

\* A user gets hold of a sensor, which is on from then on.
Acquire(h, u) ==
  /\ users' = [users EXCEPT ![h] = @ \cup {u}]
  /\ on' = [on EXCEPT ![h] = TRUE]

\* A user lets go; only when nobody is left may the sensor be switched off.
Release(h, u) ==
  /\ users' = [users EXCEPT ![h] = @ \ {u}]
  /\ \/ UNCHANGED on
     \/ users[h] \subseteq {u} /\ on' = [on EXCEPT ![h] = FALSE]

\* A sensor may come on without a user: an enable that failed half-way.
SwitchOn(h) ==
  /\ on' = [on EXCEPT ![h] = TRUE]
  /\ UNCHANGED users

Next ==
  \E h \in Hw : SwitchOn(h) \/ \E u \in User : Acquire(h, u) \/ Release(h, u)

Spec == Init /\ [][Next]_vars
=============================================================================
