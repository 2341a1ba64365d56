----------------------------- MODULE ParamStore -----------------------------
(***************************************************************************)
(* What the calibration store promises.  When the HAL starts, the offsets  *)
(* a sensor is given are the ones stored last for that sensor, or none:    *)
(* never offsets that have been replaced since, nor those of another       *)
(* sensor.  Once it is up, a calibration of a sensor that is told to apply *)
(* what it measures is all that changes that sensor's offsets, and one     *)
(* that is told to save its result is all that changes what is stored for  *)
(* it, whatever becomes of the calibration.                                *)
(***************************************************************************)
CONSTANTS Sensor, Offsets, NoEntry,
          Zero,     \* the offsets that correct nothing
          Unsure    \* sensors whose device may not take what it is given

VARIABLES stored,   \* the offsets stored for each sensor, or NoEntry
          used,     \* the offsets each device works with
          phase,    \* "off", "start" while sensors are restored, "on"
          request   \* the calibration under way, if any: what it is for and
                    \* its result, or NoEntry before there is one

vars == <<stored, used, phase, request>>

Init ==
  /\ stored = [s \in Sensor |-> NoEntry] /\ used = [s \in Sensor |-> Zero]
  /\ phase = "off" /\ request = {}

-----------------------------------------------------------------------------
Start == phase = "off" /\ phase' = "start" /\ UNCHANGED <<stored, used, request>>

\* A restore; one that finds nothing leaves the device alone or uncorrected.
Load(s) ==
  /\ phase = "start"
  /\ \E v \in {stored[s], Zero} \ {NoEntry} : used' = [used EXCEPT ![s] = v]
  /\ UNCHANGED <<stored, phase, request>>

LoadFails(s) ==
  /\ phase = "start" /\ s \in Unsure
  /\ \E v \in Offsets : used' = [used EXCEPT ![s] = v]
  /\ UNCHANGED <<stored, phase, request>>

Finish == phase = "start" /\ phase' = "on" /\ UNCHANGED <<stored, used, request>>

-----------------------------------------------------------------------------
Begin(s) ==
  /\ phase = "on" /\ request = {}
  /\ \E apply, save \in BOOLEAN :
       request' = {[sensor |-> s, apply |-> apply, save |-> save, result |-> NoEntry]}
  /\ UNCHANGED <<stored, used, phase>>

\* What the calibration q may have done to its own device by the time it has
\* measured.
applied(q) ==
  {used} \cup
    {[used EXCEPT ![q.sensor] = v] :
       v \in IF q.apply /\ q.result = NoEntry THEN Offsets ELSE {}}

\* One that is to save its result keeps it, any other is over.
Measure(q) ==
  /\ q.result = NoEntry
  /\ used' \in applied(q)
  /\ \E v \in Offsets :
       request' = IF q.save THEN {[q EXCEPT !.result = v]} ELSE {}
  /\ UNCHANGED <<stored, phase>>

\* What the store may hold once q has begun to save.
saved(q) ==
  {stored} \cup
    (IF q.save /\ q.result # NoEntry
       THEN {[stored EXCEPT ![q.sensor] = q.result]} ELSE {})

\* A calibration ends: it has saved its result, or has failed.
End(q) ==
  /\ stored' \in saved(q) /\ used' \in applied(q)
  /\ request' = {}
  /\ UNCHANGED phase

-----------------------------------------------------------------------------
\* Everything stops: in a restore, which may leave the one sensor it was at
\* anyhow; in a calibration, as if that ended; or in between.
StopStarting ==
  /\ phase = "start"
  /\ used' = used \/ \E s \in Sensor : \E v \in Offsets : used' = [used EXCEPT ![s] = v]
  /\ phase' = "off"
  /\ UNCHANGED <<stored, request>>

Stop ==
  /\ phase = "on"
  /\ \/ request = {} /\ UNCHANGED <<stored, used>>
     \/ \E q \in request : stored' \in saved(q) /\ used' \in applied(q)
  /\ phase' = "off" /\ request' = {}

\* The devices forget their offsets when the phone is switched off.
Restart ==
  /\ phase = "off"
  /\ used' = [s \in Sensor |-> Zero]
  /\ UNCHANGED <<stored, phase, request>>

Next ==
  \/ Start \/ Finish \/ StopStarting \/ Stop \/ Restart
  \/ \E s \in Sensor : Load(s) \/ LoadFails(s) \/ Begin(s)
  \/ \E q \in request : Measure(q) \/ End(q)

Spec == Init /\ [][Next]_vars
=============================================================================
