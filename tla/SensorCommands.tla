--------------------------- MODULE SensorCommands ---------------------------
(***************************************************************************)
(* What one command of the framework leaves of the sensor manager, as far  *)
(* as the polling thread can tell: who is enabled, who is registered with  *)
(* each hardware sensor and which drivers are on.  PollLoop carries its    *)
(* commands out by these definitions; SensorManager, which takes a step    *)
(* for each background sensor and driver call, is shown to do no more.     *)
(***************************************************************************)
EXTENDS Integers

CONSTANTS
  Hw, Sensor,  \* the hardware sensors, and all sensors
  Dep,         \* the background sensors of every sensor, as a set
  Flaky        \* hardware whose driver's accesses may fail

VARIABLES
  enable,      \* SensorContext.enable
  listeners,   \* who is registered with each hardware context
  mEnabled     \* which drivers are enabled

\* activate(s, 1): enable is set whatever happened.  Of the background
\* sensors some may have failed, which shows in rc only if the last one has;
\* a driver may note that it is enabled and then fail (ProximitySensor).
Enabled(s, rc) ==
  \E ok \in SUBSET Dep[s], noted \in SUBSET (Dep[s] \cap Flaky) :
    /\ Dep[s] \ Flaky \subseteq ok
    /\ rc = 0 \/ (rc = -1 /\ ok # Dep[s])
    /\ enable' = [enable EXCEPT ![s] = TRUE]
    /\ listeners' = [h \in Hw |-> IF h \in ok THEN listeners[h] \cup {s}
                                               ELSE listeners[h]]
    /\ mEnabled' = [h \in Hw |-> h \in ok \cup noted \/ mEnabled[h]]

\* activate(s, 0): nobody is registered for s any more, and drivers without a
\* listener are off unless that failed, which is not reported.
Disabled(s, rc) ==
  LET unused == {h \in Dep[s] : listeners[h] \subseteq {s}} IN
  /\ rc = 0
  /\ enable' = [enable EXCEPT ![s] = FALSE]
  /\ listeners' = [h \in Hw |-> listeners[h] \ {s}]
  /\ \E off \in SUBSET unused :
       /\ unused \ Flaky \subseteq off
       /\ mEnabled' = [h \in Hw |-> mEnabled[h] /\ h \notin off]

\* setDelay() touches none of this.
Carried(type, s, rc) ==
  \/ type = "enable" /\ Enabled(s, rc)
  \/ type = "disable" /\ Disabled(s, rc)
  \/ type = "period" /\ rc = 0 /\ UNCHANGED <<enable, listeners, mEnabled>>
=============================================================================
