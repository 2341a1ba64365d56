------------------------------ MODULE CalStore ------------------------------
(***************************************************************************)
(* Calibration parameters: measured by calibrate() (NativeSensorManager    *)
(* and the drivers), kept in two files by sensors_XML, and restored to the *)
(* devices when the HAL starts (initCalibrate).                            *)
(*                                                                         *)
(* The file under /persist is the one written; the one under /data is a    *)
(* copy of it, made by the first restore that finds none, read by every    *)
(* restore, and removed by every calibrate().  Both are rewritten in place, *)
(* so a failure or a crash on the way can leave half a file.  A file is    *)
(* what it says of each sensor and whether it is whole; the six attribute  *)
(* names and the XML library are left out.  calibrate() calls come one at  *)
(* a time.                                                                 *)
(***************************************************************************)
EXTENDS Integers

CONSTANTS
  NumSensors,   \* hardware sensors, numbered as in the sensor list
  Calibrates,   \* those whose driver implements calibrate(): accelerometer,
                \* proximity; SensorBase refuses for the others
  Caching,      \* those whose driver measures one parameter at a time and
                \* keeps the others in memory: ProximitySensor
  Flaky,        \* those whose calibrate node may fail, at any access
  Axis,         \* 0 .. 2: x, y, z or threshold_h, threshold_l, bias
  AllAxes,      \* AXIS_XYZ
  Value,        \* the values of one parameter
  Limit,        \* the one strtol() gives for a number that is too large
  NoEntry,      \* what a file without the sensor says of it
  Faults        \* what may go wrong

Sensor == 1 .. NumSensors
Offsets == [Axis -> Value]
Zero == [a \in Axis |-> 0]

Fault == {"remove",  \* removing the copy
          "copy",    \* the cp of a restore
          "save",    \* xmlSaveFormatFileEnc()
          "crash"}   \* the HAL's process or the phone may stop at any time

ASSUME SizeAssumption ==
  /\ NumSensors \in Nat
  /\ Caching \cup Flaky \subseteq Calibrates /\ Calibrates \subseteq Sensor
  /\ Faults \subseteq Fault

ASSUME ValueAssumption ==
  /\ {0, Limit} \subseteq Value /\ NoEntry \notin Offsets
  /\ Axis \subseteq Nat /\ AllAxes \notin Axis

VARIABLES
  persist,      \* /persist/sensors_calibration_params.xml
  copy,         \* /data/sensors_calibration_param.xml
  device,       \* the offsets each device works with
  mCached,      \* mThreshold_h, mThreshold_l, mBias of a Caching driver
  pc,           \* "down"; "boot" in getDataInfo(); "up"; in calibrate()
                \* "measure" or "save"
  next,         \* the sensor initCalibrate() has reached
  target,       \* the sensor calibrate() is for
  para,         \* its cal_cmd_t
  cal_result,   \* its result, forgotten when it returns
  rc            \* the return value of the last calibrate()

files == <<persist, copy>>
call == <<target, para, cal_result, rc>>
vars == <<files, device, mCached, pc, next, call>>

State == {"absent", "torn", "whole"}
File == [state : State, entry : [Sensor -> Offsets \cup {NoEntry}]]
Absent == [state |-> "absent", entry |-> [s \in Sensor |-> NoEntry]]
exists(f) == f.state # "absent"

\* What is left of a file whose writing stopped half-way: it tells what it
\* was to say only as far as recovered() lets it.
torn(f) == [f EXCEPT !.state = "torn"]

Command == [axis : Axis \cup {AllAxes}, save : BOOLEAN, apply_now : BOOLEAN]

Init ==
  /\ persist = Absent /\ copy = Absent
  /\ device = [s \in Sensor |-> Zero]
  /\ mCached = [s \in Caching |-> Zero]
  /\ pc = "down" /\ next = 1
  /\ target \in Sensor /\ para \in Command /\ cal_result = Zero /\ rc = 0

-----------------------------------------------------------------------------
(* Start: getDataInfo() makes the drivers and restores each in turn.       *)

\* Mutant: the list is taken to start at 0.
Boot_fromZero ==
  /\ pc = "down"
  /\ pc' = "boot" /\ next' = 0
  /\ mCached' = [s \in Caching |-> Zero]
  /\ UNCHANGED <<files, device, call>>

Boot ==
  /\ pc = "down"
  /\ pc' = "boot" /\ next' = 1
  /\ mCached' = [s \in Caching |-> Zero]
  /\ UNCHANGED <<files, device, call>>

\* read_sensors_params() makes the copy if there is none: system("cp ..."),
\* whose result nobody looks at.
copied ==
  IF exists(copy) \/ ~exists(persist) THEN {copy}
  ELSE {persist} \cup (IF "copy" \in Faults THEN {Absent, torn(persist)} ELSE {})

\* Mutant: the search runs on to the last sensor's node.
recovered_lastNode(f, s) ==
  CASE f.state = "absent" -> {}
    [] f.state = "whole" -> {IF f.entry[NumSensors] = NoEntry THEN Zero ELSE f.entry[NumSensors]}
    [] f.state = "torn" -> {Zero} \cup ({f.entry[s]} \ {NoEntry})

\* Mutant: in half a file, the node the search stops at is taken for s's.
recovered_stopsAt(f, s) ==
  CASE f.state = "absent" -> {}
    [] f.state = "whole" -> {IF f.entry[s] = NoEntry THEN Zero ELSE f.entry[s]}
    [] f.state = "torn" -> {Zero} \cup ({f.entry[NumSensors]} \ {NoEntry})

\* The offsets it may find for s in the copy.  XML_PARSE_RECOVER makes what
\* it can of half a file.
recovered(f, s) ==
  CASE f.state = "absent" -> {}
    [] f.state = "whole" -> {IF f.entry[s] = NoEntry THEN Zero ELSE f.entry[s]}
    [] f.state = "torn" -> {Zero} \cup ({f.entry[s]} \ {NoEntry})

\* The device of s after only part of the writes that give it offsets, which
\* go parameter by parameter and each in two halves, high and low.  The one
\* they stop at may have any value; those after it are as they were, those
\* before it done: not so in ProximitySensor, which misses the failure of a
\* low half.
partly(s, offsets) ==
  {[device EXCEPT ![s] = o] : o \in
     {o \in Offsets : \E stop \in Axis :
        /\ \A a \in Axis : a > stop => o[a] = device[s][a]
        /\ s \in Caching \cap Flaky
             \/ \A a \in Axis : a < stop => o[a] = offsets[a]}}

\* The driver's initCalibrate(): writes the offsets, then CMD_COMPLETE.
Apply(s, offsets) ==
  IF s \in Calibrates
    THEN device' \in {[device EXCEPT ![s] = offsets]}
                      \cup (IF s \in Flaky THEN partly(s, offsets) ELSE {})
    ELSE UNCHANGED device

\* initCalibrate(next) with what it has read; its result is dropped.
Restore ==
  /\ pc = "boot" /\ next <= NumSensors
  /\ copy' \in copied
  /\ \E offsets \in recovered(copy', next) : Apply(next, offsets)
  /\ next' = next + 1
  /\ UNCHANGED <<persist, mCached, pc, call>>

\* No file to read, or nothing in it.
RestoreError ==
  /\ pc = "boot" /\ next <= NumSensors
  /\ copy' \in copied /\ copy'.state # "whole"
  /\ next' = next + 1
  /\ UNCHANGED <<persist, device, mCached, pc, call>>

\* Half an entry: atoi() of a null pointer ends the process.
RestoreDies ==
  /\ pc = "boot" /\ next <= NumSensors
  /\ copy' \in copied /\ copy'.state = "torn"
  /\ pc' = "down"
  /\ UNCHANGED <<persist, device, mCached, next, call>>

BootDone ==
  /\ pc = "boot" /\ next > NumSensors
  /\ pc' = "up"
  /\ UNCHANGED <<files, device, mCached, next, call>>

-----------------------------------------------------------------------------
(* calibrate(handle, para)                                                 *)

\* Mutant: the copy is left where it is.
Calibrate_keepCopy(s, p) ==
  /\ pc = "up"
  /\ pc' = "measure"
  /\ copy' = copy
  /\ target' = s /\ para' = p /\ cal_result' = Zero
  /\ UNCHANGED <<persist, device, mCached, next, rc>>

\* It first removes the copy, and does not look at the result.
Calibrate(s, p) ==
  /\ pc = "up"
  /\ pc' = "measure"
  /\ copy' \in {Absent} \cup (IF "remove" \in Faults THEN {copy} ELSE {})
  /\ target' = s /\ para' = p /\ cal_result' = Zero
  /\ UNCHANGED <<persist, device, mCached, next, rc>>

\* What the command may have made of the device: if it is to apply what it
\* measures, the measurement m.
commanded(m) == IF para.apply_now THEN [device EXCEPT ![target] = m] ELSE device

\* The driver's calibrate() has written the command and read its numbers.
Measured(result) ==
  /\ cal_result' = IF para.save THEN result ELSE Zero
  /\ pc' = IF para.save THEN "save" ELSE "up"
  /\ rc' = IF para.save THEN rc ELSE 0
  /\ UNCHANGED <<files, next, target, para>>

\* AccelSensor returns all of them.  It does not look whether the command was
\* written: if it was not, the numbers are whatever the node has.
MeasureAll ==
  /\ pc = "measure" /\ target \in Calibrates \ Caching
  /\ \E m \in Offsets :
       /\ Measured(m)
       /\ device' \in {commanded(m)} \cup (IF target \in Flaky THEN {device} ELSE {})
  /\ UNCHANGED mCached

\* ProximitySensor notes the one of the axis and returns what it has noted.
MeasureOne ==
  /\ pc = "measure" /\ target \in Caching
  /\ \E m \in Offsets :
       LET noted == [a \in Axis |-> IF a = para.axis THEN m[a]
                                                    ELSE mCached[target][a]] IN
       /\ mCached' = [mCached EXCEPT ![target] = noted]
       /\ Measured(noted) /\ device' = commanded(m)

\* SensorBase's calibrate(), for a driver without one.
NoCalibrate ==
  /\ pc = "measure" /\ target \notin Calibrates
  /\ pc' = "up" /\ rc' = -1
  /\ UNCHANGED <<files, device, mCached, next, target, para, cal_result>>

\* An access fails, or what was read is no number or too large.  By then the
\* device may have applied what it measured, and ProximitySensor has noted
\* what strtol() makes of such a number: 0, or its limit.
MeasureFails ==
  /\ pc = "measure" /\ target \in Flaky
  /\ device' \in {device} \cup {commanded(m) : m \in Offsets}
  /\ mCached' \in {mCached} \cup
       {[mCached EXCEPT ![s] = [a \in Axis |-> IF a = para.axis THEN v ELSE @[a]]] :
          s \in Caching \cap {target}, v \in {0, Limit}}
  /\ pc' = "up" /\ rc' = -1
  /\ UNCHANGED <<files, next, target, para, cal_result>>

\* The document write_sensors_params() is about to save.
newFile == [state |-> "whole",
            entry |-> [persist.entry EXCEPT ![target] = cal_result]]

\* write_sensors_params() reads the old file, without recovery, and saves
\* the new one in its place; whether that worked, it does not ask.
Save ==
  /\ pc = "save" /\ persist.state # "torn"
  /\ persist' \in {newFile} \cup
       (IF "save" \in Faults THEN {persist, torn(newFile)} ELSE {})
  /\ pc' = "up" /\ rc' = 0 /\ cal_result' = Zero
  /\ UNCHANGED <<copy, device, mCached, next, target, para>>

\* A torn file is not well-formed: -EINVAL.
SaveRefused ==
  /\ pc = "save" /\ persist.state = "torn"
  /\ pc' = "up" /\ rc' = -1 /\ cal_result' = Zero
  /\ UNCHANGED <<files, device, mCached, next, target, para>>

-----------------------------------------------------------------------------
\* The process stops, in the middle of whatever it was writing: the copy or a
\* device in a start, a device or the file in a calibrate().
Crash ==
  /\ pc = "up" \/ (pc # "down" /\ "crash" \in Faults)
  /\ pc' = "down"
  /\ copy' \in {copy} \cup
       (IF pc = "boot" /\ next <= NumSensors /\ ~exists(copy) /\ exists(persist)
          THEN {persist, torn(persist)} ELSE {})
  /\ persist' \in {persist} \cup
       (IF pc = "save" /\ persist.state # "torn" THEN {newFile, torn(newFile)} ELSE {})
  /\ device' \in {device} \cup
       (CASE pc = "boot" /\ next \in Calibrates ->
               UNION {partly(next, offsets) : offsets \in recovered(copy', next)}
          [] pc = "measure" /\ target \in Calibrates -> {commanded(m) : m \in Offsets}
          [] OTHER -> {})
  /\ cal_result' = Zero
  /\ UNCHANGED <<mCached, next, target, para, rc>>

\* The phone with all its devices was off, not only the process.
PowerCycle ==
  /\ pc = "down"
  /\ device' = [s \in Sensor |-> Zero]
  /\ UNCHANGED <<files, mCached, pc, next, call>>

Next ==
  \/ Boot \/ Restore \/ RestoreError \/ RestoreDies \/ BootDone
  \/ \E s \in Sensor : \E p \in Command : Calibrate(s, p)
  \/ MeasureAll \/ MeasureOne \/ NoCalibrate \/ MeasureFails \/ Save \/ SaveRefused
  \/ Crash \/ PowerCycle

Spec == Init /\ [][Next]_vars

-----------------------------------------------------------------------------
TypeOK ==
  /\ persist \in File /\ copy \in File
  /\ device \in [Sensor -> Offsets]
  /\ mCached \in [Caching -> Offsets]
  /\ pc \in {"down", "boot", "up", "measure", "save"}
  /\ next \in 1 .. (NumSensors + 1)
  /\ target \in Sensor /\ para \in Command /\ cal_result \in Offsets
  /\ rc \in {0, -1}

\* As long as it can be removed, the copy never tells anything but what is
\* stored: every calibrate() removes it before it can store something new,
\* and whatever fails or stops in between, it comes back only from the
\* stored file (NativeSensorManager.cpp:816, sensors_XML.cpp:153-163).
CopyFresh ==
  ("remove" \notin Faults /\ exists(copy)) =>
    /\ copy.entry = persist.entry
    /\ copy.state = "whole" => persist.state = "whole"

\* While the HAL starts, each sensor restored so far has exactly the offsets
\* stored for it, whatever saves failed and wherever the program stopped
\* before, if its own device works (sensors_XML.cpp:200-213).
RestoredExactly ==
  (Faults \cap {"remove", "copy"} = {} /\ copy.state = "whole" /\ pc = "boot") =>
    \A s \in Calibrates \ Flaky : s < next =>
      device[s] = IF persist.entry[s] = NoEntry THEN Zero ELSE persist.entry[s]

\* What ParamStore calls the phase and the calibration under way.
phase == CASE pc = "down" -> "off" [] pc = "boot" -> "start" [] OTHER -> "on"
request ==
  IF pc \in {"measure", "save"}
    THEN {[sensor |-> target, apply |-> para.apply_now, save |-> para.save,
           result |-> IF pc = "save" THEN cal_result ELSE NoEntry]}
    ELSE {}

Store == INSTANCE ParamStore WITH
  stored <- persist.entry, used <- device, Unsure <- Flaky

\* Two files and three steps implement one store: as long as the copy can be
\* removed, no crash and no failure makes a start give a sensor offsets that
\* were replaced or are another sensor's, only the calibration under way
\* touches what its own sensor uses and what is stored for it, and each only
\* if it was asked to (NativeSensorManager.cpp:804-856, sensors_XML.cpp).
StoreSpec == Store!Spec

\* What "The axis to calibrate" says (sensors_extension.h:109): calibrating
\* one parameter of a sensor that has stored ones leaves the others stored
\* for it as they are.
OtherAxesKept ==
  [][\A s \in Caching : \A a \in Axis \ {para.axis} :
       (persist.entry[s] # NoEntry /\ persist' # persist)
          => persist'.entry[s][a] = persist.entry[s][a]]_vars
=============================================================================
