--------------------------- MODULE CalStoreProofs ---------------------------
(***************************************************************************)
(* Proofs about the calibration store: type correctness, that the copy     *)
(* never falls behind the stored file, and that the two files implement    *)
(* one store, for any sensors, parameters and values and under any faults  *)
(* but a copy that cannot be removed.                                      *)
(***************************************************************************)
EXTENDS CalStore, TLAPS

\* The copy is gone from the moment calibrate() starts until the next start.
GoneWhileCalibrating == exists(copy) => pc \notin {"measure", "save"}

\* Only a calibrate() that is to save gets as far as saving.
SaveAsked == pc = "save" => para.save

IInv ==
  /\ TypeOK /\ CopyFresh /\ SaveAsked
  /\ "remove" \notin Faults => GoneWhileCalibrating

-----------------------------------------------------------------------------
LEMMA ZeroOffsets == Zero \in Offsets
  BY ValueAssumption DEF Zero, Offsets

LEMMA AbsentFile == Absent \in File /\ Absent.state = "absent"
  BY DEF Absent, File, State

\* Half a file says what the whole one was to say, and is there.
LEMMA TornFile ==
  ASSUME NEW f \in File
  PROVE  /\ torn(f) \in File
         /\ torn(f).state = "torn"
         /\ torn(f).entry = f.entry
  BY DEF torn, File, State

\* Whatever comes of making the copy is a file that agrees with /persist, if
\* the copy that was there did.
LEMMA CopiedFile ==
  ASSUME IInv, NEW c \in copied
  PROVE  /\ c \in File
         /\ ("remove" \notin Faults /\ exists(c)) =>
               /\ c.entry = persist.entry
               /\ c.state = "whole" => persist.state = "whole"
  <1>1. persist \in File /\ copy \in File
    BY DEF IInv, TypeOK
  <1>2. c \in {copy, persist, Absent, torn(persist)}
    BY DEF copied
  <1>3. CASE c = copy
    BY <1>1, <1>3 DEF IInv, CopyFresh
  <1>4. CASE c = persist
    BY <1>1, <1>4
  <1>5. CASE c = Absent
    BY <1>5, AbsentFile DEF exists
  <1>6. CASE c = torn(persist)
    BY <1>1, <1>6, TornFile
  <1> QED BY <1>2, <1>3, <1>4, <1>5, <1>6

\* What is read for a sensor is what the file says of it, or Zero.
LEMMA RecoveredOffsets ==
  ASSUME NEW f \in File, NEW s \in Sensor, NEW v \in recovered(f, s)
  PROVE  v \in Offsets /\ v \in {f.entry[s], Zero} \ {NoEntry} /\ exists(f)
  <1>1. f.state \in State /\ f.entry[s] \in Offsets \cup {NoEntry}
    BY DEF File
  <1>2. Zero # NoEntry
    BY ZeroOffsets, ValueAssumption
  <1> QED BY <1>1, <1>2, ZeroOffsets DEF recovered, exists, State

\* A device only part of whose writes were made has offsets all the same.
LEMMA PartlyDevice ==
  ASSUME TypeOK, NEW s \in Sensor, NEW v, NEW d \in partly(s, v)
  PROVE  /\ d \in [Sensor -> Offsets]
         /\ \E o \in Offsets : d = [device EXCEPT ![s] = o]
  BY DEF partly, TypeOK

\* What a restore does to the device, whether all its writes are made or not.
LEMMA ApplyEffect ==
  ASSUME TypeOK, NEW s \in Sensor, NEW v \in Offsets, Apply(s, v)
  PROVE  /\ device' \in [Sensor -> Offsets]
         /\ \/ device' = device \/ device' = [device EXCEPT ![s] = v]
            \/ s \in Flaky /\ \E o \in Offsets : device' = [device EXCEPT ![s] = o]
  <1>1. device \in [Sensor -> Offsets]
    BY DEF TypeOK
  <1>2. CASE device' = device \/ device' = [device EXCEPT ![s] = v]
    BY <1>1, <1>2
  <1>3. CASE s \in Flaky /\ device' \in partly(s, v)
    BY <1>3, PartlyDevice
  <1> QED BY <1>2, <1>3 DEF Apply

\* What a command does to the device, if it applies what it measures.
LEMMA CommandedDevice ==
  ASSUME TypeOK, NEW m \in Offsets
  PROVE  /\ commanded(m) \in [Sensor -> Offsets]
         /\ \/ commanded(m) = device
            \/ para.apply_now /\ commanded(m) = [device EXCEPT ![target] = m]
  <1>1. device \in [Sensor -> Offsets] /\ target \in Sensor
    BY DEF TypeOK
  <1>2. CASE para.apply_now
    BY <1>1, <1>2 DEF commanded
  <1>3. CASE ~para.apply_now
    BY <1>1, <1>3 DEF commanded
  <1> QED BY <1>2, <1>3

LEMMA NewFile ==
  ASSUME IInv
  PROVE  newFile \in File /\ newFile.state = "whole"
  BY DEF IInv, TypeOK, newFile, File, State

-----------------------------------------------------------------------------
LEMMA InvInit == ASSUME Init PROVE IInv
  <1>1. TypeOK
    BY AbsentFile, ZeroOffsets, SizeAssumption DEF Init, TypeOK
  <1>2. ~exists(copy)
    BY AbsentFile DEF Init, exists
  <1> QED BY <1>1, <1>2 DEF Init, IInv, CopyFresh, SaveAsked, GoneWhileCalibrating

\* A step of the start leaves /persist alone and the copy as good as it was.
LEMMA BootStepInv ==
  ASSUME IInv, pc = "boot", next <= NumSensors, copy' \in copied,
         UNCHANGED <<persist, mCached, call>>,
         pc' \in {"boot", "down"}, next' \in {next, next + 1},
         device' \in [Sensor -> Offsets]
  PROVE  IInv'
  <1>1. TypeOK'
    <2>1. copy' \in File
      BY CopiedFile
    <2>2. next' \in 1 .. (NumSensors + 1)
      BY SizeAssumption DEF IInv, TypeOK
    <2> QED BY <2>1, <2>2 DEF IInv, TypeOK, call
  <1>2. CopyFresh'
    BY CopiedFile DEF CopyFresh, exists
  <1> QED BY <1>1, <1>2 DEF IInv, SaveAsked, GoneWhileCalibrating

\* What a crash leaves of the devices: one that was being restored has part of
\* its writes, one that was measuring may have applied its measurement.
LEMMA CrashDevice ==
  ASSUME IInv, Crash
  PROVE  /\ device' \in [Sensor -> Offsets]
         /\ \/ device' = device
            \/ pc = "boot" /\ \E s \in Sensor : \E o \in Offsets :
                 device' = [device EXCEPT ![s] = o]
            \/ pc = "measure" /\ para.apply_now /\ \E m \in Offsets :
                 device' = [device EXCEPT ![target] = m]
  <1>1. TypeOK /\ device \in [Sensor -> Offsets]
    BY DEF IInv, TypeOK
  <1>2. CASE device' = device
    BY <1>1, <1>2
  <1>3. ASSUME pc = "boot", next \in Calibrates,
               NEW v \in recovered(copy', next), device' \in partly(next, v)
        PROVE  /\ device' \in [Sensor -> Offsets]
               /\ \E s \in Sensor : \E o \in Offsets : device' = [device EXCEPT ![s] = o]
    <2>1. next \in Sensor
      BY <1>3, SizeAssumption
    <2> QED BY <1>1, <1>3, <2>1, PartlyDevice
  <1>4. ASSUME pc = "measure", NEW m \in Offsets, device' = commanded(m)
        PROVE  /\ device' \in [Sensor -> Offsets]
               /\ \/ device' = device
                  \/ para.apply_now /\ device' = [device EXCEPT ![target] = m]
    BY <1>1, <1>4, CommandedDevice
  <1>5. \/ device' = device
        \/ /\ pc = "boot" /\ next \in Calibrates
           /\ \E v \in recovered(copy', next) : device' \in partly(next, v)
        \/ pc = "measure" /\ \E m \in Offsets : device' = commanded(m)
    BY DEF Crash
  <1> QED BY <1>2, <1>3, <1>4, <1>5

LEMMA InvNext == ASSUME IInv, [Next]_vars PROVE IInv'
  <1> USE DEF IInv
  <1>1. CASE Boot
    <2>1. next' \in 1 .. (NumSensors + 1) /\ mCached' \in [Caching -> Offsets]
      BY <1>1, ZeroOffsets, SizeAssumption DEF Boot
    <2> QED BY <1>1, <2>1
            DEF Boot, TypeOK, CopyFresh, SaveAsked, GoneWhileCalibrating, exists,
                files, call
  <1>2. CASE Restore
    <2>1. next \in Sensor
      BY <1>2, SizeAssumption DEF Restore, TypeOK, Sensor
    <2>2. PICK v \in recovered(copy', next) : Apply(next, v)
      BY <1>2 DEF Restore
    <2>3. v \in Offsets
      BY <1>2, <2>1, <2>2, CopiedFile, RecoveredOffsets DEF Restore
    <2>4. device' \in [Sensor -> Offsets]
      BY <2>1, <2>2, <2>3, ApplyEffect
    <2> QED BY <1>2, <2>4, BootStepInv DEF Restore
  <1>3. CASE RestoreError
    BY <1>3, BootStepInv DEF RestoreError, TypeOK
  <1>4. CASE RestoreDies
    BY <1>4, BootStepInv DEF RestoreDies, TypeOK
  <1>5. CASE BootDone
    BY <1>5 DEF BootDone, TypeOK, CopyFresh, SaveAsked, GoneWhileCalibrating, files,
                call
  <1>6. ASSUME NEW s \in Sensor, NEW p \in Command, Calibrate(s, p) PROVE IInv'
    <2>1. copy' \in {Absent, copy} /\ ("remove" \notin Faults => copy' = Absent)
      BY <1>6 DEF Calibrate
    <2>2. TypeOK'
      BY <1>6, <2>1, AbsentFile, ZeroOffsets DEF Calibrate, TypeOK
    <2>3. "remove" \notin Faults => ~exists(copy')
      BY <2>1, AbsentFile DEF exists
    <2>4. SaveAsked'
      BY <1>6 DEF Calibrate, SaveAsked
    <2> QED BY <2>2, <2>3, <2>4 DEF CopyFresh, GoneWhileCalibrating, exists
  <1>7. ASSUME NEW r \in Offsets, Measured(r), pc = "measure",
               device' \in [Sensor -> Offsets], mCached' \in [Caching -> Offsets]
        PROVE  IInv'
    <2>1. TypeOK'
      BY <1>7, ZeroOffsets DEF Measured, TypeOK, files
    <2> QED BY <1>7, <2>1
            DEF Measured, CopyFresh, SaveAsked, GoneWhileCalibrating, files
  <1>8. CASE MeasureAll
    <2>1. PICK m \in Offsets : Measured(m) /\ device' \in {commanded(m), device}
      BY <1>8 DEF MeasureAll
    <2>2. device' \in [Sensor -> Offsets]
      BY <2>1, CommandedDevice DEF TypeOK
    <2> QED BY <1>7, <1>8, <2>1, <2>2 DEF MeasureAll, TypeOK
  <1>9. CASE MeasureOne
    <2>1. PICK m \in Offsets :
            LET noted == [a \in Axis |-> IF a = para.axis THEN m[a]
                                                    ELSE mCached[target][a]] IN
            /\ mCached' = [mCached EXCEPT ![target] = noted]
            /\ Measured(noted) /\ device' = commanded(m)
      BY <1>9 DEF MeasureOne
    <2> DEFINE noted == [a \in Axis |-> IF a = para.axis THEN m[a]
                                                    ELSE mCached[target][a]]
    <2>2. target \in Caching /\ mCached \in [Caching -> Offsets]
      BY <1>9 DEF MeasureOne, TypeOK
    <2>3. noted \in Offsets
      BY <2>2 DEF Offsets
    <2>4. mCached' \in [Caching -> Offsets]
      BY <2>1, <2>2, <2>3
    <2>5. device' \in [Sensor -> Offsets]
      BY <2>1, CommandedDevice
    <2> QED BY <1>7, <1>9, <2>1, <2>3, <2>4, <2>5 DEF MeasureOne
  <1>10. CASE MeasureFails
    <2>1. mCached' \in [Caching -> Offsets]
      <3> DEFINE noted(s, v) == [mCached EXCEPT ![s] =
                                   [a \in Axis |-> IF a = para.axis THEN v ELSE @[a]]]
      <3>1. ASSUME NEW s \in Caching, NEW v \in {0, Limit}
            PROVE  noted(s, v) \in [Caching -> Offsets]
        <4>1. mCached \in [Caching -> Offsets] /\ mCached[s] \in Offsets
          BY <3>1 DEF TypeOK
        <4>2. [a \in Axis |-> IF a = para.axis THEN v ELSE mCached[s][a]] \in Offsets
          BY <3>1, <4>1, ValueAssumption DEF Offsets
        <4> QED BY <4>1, <4>2
      <3>2. mCached' \in {mCached} \cup
              {noted(s, v) : s \in Caching \cap {target}, v \in {0, Limit}}
        BY <1>10 DEF MeasureFails
      <3> HIDE DEF noted
      <3>3. CASE mCached' = mCached
        BY <3>3 DEF TypeOK
      <3> QED BY <3>1, <3>2, <3>3
    <2>2. device' \in [Sensor -> Offsets]
      BY <1>10, CommandedDevice DEF MeasureFails, TypeOK
    <2>3. TypeOK'
      BY <1>10, <2>1, <2>2 DEF MeasureFails, TypeOK, files
    <2> QED BY <1>10, <2>3
            DEF MeasureFails, CopyFresh, SaveAsked, GoneWhileCalibrating, files
  <1>11. CASE Save
    <2>1. persist' \in {persist, newFile, torn(newFile)}
      BY <1>11 DEF Save
    <2>2. persist' \in File
      BY <2>1, NewFile, TornFile DEF TypeOK
    <2>3. TypeOK'
      BY <1>11, <2>2, ZeroOffsets DEF Save, TypeOK
    <2>4. "remove" \notin Faults => ~exists(copy')
      BY <1>11 DEF Save, GoneWhileCalibrating
    <2>5. SaveAsked'
      BY <1>11 DEF Save, SaveAsked
    <2> QED BY <2>3, <2>4, <2>5 DEF CopyFresh, GoneWhileCalibrating, exists
  <1>12. CASE SaveRefused
    BY <1>12, ZeroOffsets
       DEF SaveRefused, TypeOK, CopyFresh, SaveAsked, GoneWhileCalibrating, files
  <1>13. CASE Crash
    <2>1. /\ pc' = "down" /\ cal_result' = Zero
          /\ UNCHANGED <<mCached, next, target, para, rc>>
          /\ pc = "save" \/ persist' = persist
          /\ persist' \in {persist, newFile, torn(newFile)}
          /\ copy' \in {copy} \/ (pc = "boot" /\ copy' \in {persist, torn(persist)})
      BY <1>13 DEF Crash
    <2>2. persist' \in File /\ copy' \in File
      BY <2>1, NewFile, TornFile DEF TypeOK
    <2>3. TypeOK'
      <3>1. device' \in [Sensor -> Offsets]
        BY <1>13, CrashDevice
      <3> QED BY <2>1, <2>2, <3>1, ZeroOffsets DEF TypeOK
    <2>6. SaveAsked'
      BY <2>1 DEF SaveAsked
    <2>4. CASE pc = "save"
      <3>1. "remove" \notin Faults => ~exists(copy')
        BY <2>1, <2>4 DEF GoneWhileCalibrating
      <3> QED BY <2>3, <2>6, <3>1 DEF CopyFresh, GoneWhileCalibrating, exists
    <2>5. CASE persist' = persist
      <3>1. CopyFresh'
        BY <2>1, <2>5, TornFile DEF CopyFresh, exists, TypeOK
      <3> QED BY <2>1, <2>3, <2>6, <3>1 DEF GoneWhileCalibrating
    <2> QED BY <2>1, <2>4, <2>5
  <1>14. CASE PowerCycle
    BY <1>14, ZeroOffsets
       DEF PowerCycle, TypeOK, CopyFresh, SaveAsked, GoneWhileCalibrating, files, call
  <1>15. CASE NoCalibrate
    BY <1>15
       DEF NoCalibrate, TypeOK, CopyFresh, SaveAsked, GoneWhileCalibrating, files
  <1>16. CASE UNCHANGED vars
    BY <1>16 DEF vars, files, call, TypeOK, CopyFresh, SaveAsked, GoneWhileCalibrating
  <1> QED BY <1>1, <1>2, <1>3, <1>4, <1>5, <1>6, <1>8, <1>9, <1>10, <1>11,
             <1>12, <1>13, <1>14, <1>15, <1>16 DEF Next

LEMMA Invariance == Spec => []IInv
  BY InvInit, InvNext, PTL DEF Spec

-----------------------------------------------------------------------------
\* Files, offsets and results keep their types, under any faults.
THEOREM TypeCorrect == Spec => []TypeOK
  BY Invariance, PTL DEF IInv

\* The copy never tells anything but what is stored, for any sensors and
\* wherever the program fails or stops (NativeSensorManager.cpp:816).
THEOREM NeverBehind == Spec => []CopyFresh
  BY Invariance, PTL DEF IInv

-----------------------------------------------------------------------------
(* The two files implement one store.                                      *)

LEMMA RefinesInit == ASSUME Init PROVE Store!Init
  BY DEF Init, Store!Init, Absent, phase, request

\* The phase and the calibration under way, as ParamStore sees them.
LEMMA View ==
  ASSUME IInv
  PROVE  /\ pc = "down" => phase = "off" /\ request = {}
         /\ pc = "boot" => phase = "start" /\ request = {}
         /\ pc = "up" => phase = "on" /\ request = {}
         /\ pc = "measure" => /\ phase = "on"
                              /\ request = {[sensor |-> target, apply |-> para.apply_now,
                                             save |-> para.save, result |-> NoEntry]}
         /\ pc = "save" => /\ phase = "on"
                           /\ request = {[sensor |-> target, apply |-> para.apply_now,
                                          save |-> TRUE, result |-> cal_result]}
  <1>1. pc = "save" => para.save = TRUE
    BY DEF IInv, SaveAsked, TypeOK, Command
  <1> QED BY <1>1 DEF phase, request

\* What becomes of the stored offsets by a save that is done, failed or cut.
LEMMA SaveEffect ==
  ASSUME IInv, persist' \in {persist, newFile, torn(newFile)}
  PROVE  persist'.entry \in {persist.entry, [persist.entry EXCEPT ![target] = cal_result]}
  <1>1. newFile.entry = [persist.entry EXCEPT ![target] = cal_result]
    BY DEF newFile
  <1> QED BY <1>1, NewFile, TornFile

LEMMA RefinesNext ==
  ASSUME "remove" \notin Faults, IInv, IInv', [Next]_vars
  PROVE  [Store!Next]_Store!vars
  <1> USE DEF Store!vars
  <1> DEFINE asked == [sensor |-> target, apply |-> para.apply_now,
                       save |-> para.save, result |-> NoEntry]
             saving == [sensor |-> target, apply |-> para.apply_now,
                        save |-> TRUE, result |-> cal_result]
  <1>0. /\ target \in Sensor /\ para.save \in BOOLEAN /\ para.apply_now \in BOOLEAN
        /\ cal_result \in Offsets /\ cal_result # NoEntry
        /\ pc \in {"down", "boot", "up", "measure", "save"}
    BY ValueAssumption DEF IInv, TypeOK, Command
  <1>1. CASE UNCHANGED vars
    BY <1>1 DEF vars, files, call, phase, request
  <1>2. CASE Boot
    <2>1. /\ phase = "off" /\ request = {} /\ phase' = "start" /\ request' = {}
          /\ persist' = persist /\ device' = device
      BY <1>2, View DEF Boot, files, phase, request
    <2> QED BY <2>1 DEF Store!Next, Store!Start
  <1>3. CASE BootDone
    <2>1. /\ phase = "start" /\ request = {} /\ phase' = "on" /\ request' = {}
          /\ persist' = persist /\ device' = device
      BY <1>3, View DEF BootDone, files, phase, request
    <2> QED BY <2>1 DEF Store!Next, Store!Finish
  <1>4. CASE Restore
    <2>1. next \in Sensor
      BY <1>4, SizeAssumption DEF Restore, IInv, TypeOK, Sensor
    <2>2. PICK v \in recovered(copy', next) : Apply(next, v)
      BY <1>4 DEF Restore
    <2>3. /\ copy' \in File /\ v \in Offsets /\ exists(copy')
          /\ v \in {copy'.entry[next], Zero} \ {NoEntry}
      BY <1>4, <2>1, <2>2, CopiedFile, RecoveredOffsets DEF Restore
    <2>4. copy'.entry = persist.entry
      BY <1>4, <2>3, CopiedFile DEF Restore
    <2>5. /\ phase = "start" /\ request = {} /\ phase' = "start" /\ request' = {}
          /\ persist' = persist
      BY <1>4, View DEF Restore, phase, request
    <2>6. \/ device' = device \/ device' = [device EXCEPT ![next] = v]
          \/ next \in Flaky /\ \E o \in Offsets : device' = [device EXCEPT ![next] = o]
      BY <2>1, <2>2, <2>3, ApplyEffect DEF IInv
    <2>7. CASE device' = device
      BY <2>5, <2>7
    <2>8. CASE device' = [device EXCEPT ![next] = v]
      <3>1. Store!Load(next)
        BY <2>3, <2>4, <2>5, <2>8 DEF Store!Load
      <3> QED BY <2>1, <3>1 DEF Store!Next
    <2>9. CASE next \in Flaky /\ \E o \in Offsets : device' = [device EXCEPT ![next] = o]
      <3>1. Store!LoadFails(next)
        BY <2>5, <2>9 DEF Store!LoadFails
      <3> QED BY <2>1, <3>1 DEF Store!Next
    <2> QED BY <2>6, <2>7, <2>8, <2>9
  <1>5. CASE RestoreError
    BY <1>5 DEF RestoreError, phase, request
  <1>6. CASE RestoreDies
    <2>1. /\ phase = "start" /\ request = {} /\ phase' = "off" /\ request' = {}
          /\ persist' = persist /\ device' = device
      BY <1>6, View DEF RestoreDies, phase, request
    <2> QED BY <2>1 DEF Store!Next, Store!StopStarting
  <1>7. ASSUME NEW s \in Sensor, NEW p \in Command, Calibrate(s, p)
        PROVE  [Store!Next]_Store!vars
    <2>1. /\ phase = "on" /\ request = {} /\ phase' = "on"
          /\ request' = {[sensor |-> s, apply |-> p.apply_now, save |-> p.save,
                          result |-> NoEntry]}
          /\ persist' = persist /\ device' = device
      BY <1>7, View DEF Calibrate, phase, request
    <2>2. p.apply_now \in BOOLEAN /\ p.save \in BOOLEAN
      BY DEF Command
    <2>3. Store!Begin(s)
      BY <2>1, <2>2 DEF Store!Begin
    <2> QED BY <2>3 DEF Store!Next
  <1>8. ASSUME pc = "measure", NEW d, d = device \/ (para.apply_now /\
                 \E m \in Offsets : d = [device EXCEPT ![target] = m])
        PROVE  request = {asked} /\ d \in Store!applied(asked)
    BY <1>8, View DEF Store!applied
  <1>9. ASSUME pc = "measure", NEW r \in Offsets, NEW m \in Offsets, Measured(r),
               device' = device \/ device' = commanded(m)
        PROVE  [Store!Next]_Store!vars
    <2>1. request = {asked} /\ device' \in Store!applied(asked)
      BY <1>8, <1>9, CommandedDevice DEF IInv
    <2>2. persist' = persist /\ phase = "on" /\ phase' = "on"
      BY <1>9, View DEF Measured, files, phase
    <2>3. request' = IF para.save THEN {[asked EXCEPT !.result = r]} ELSE {}
      <3>1. CASE para.save
        <4>1. [asked EXCEPT !.result = r] =
                [sensor |-> target, apply |-> para.apply_now,
                 save |-> para.save, result |-> r]
          OBVIOUS
        <4>2. /\ pc' = "save" /\ target' = target /\ para' = para
              /\ cal_result' = r
          BY <1>9, <3>1 DEF Measured
        <4>3. request' = {[sensor |-> target, apply |-> para.apply_now,
                           save |-> para.save, result |-> r]}
          BY <4>2 DEF request
        <4> QED BY <3>1, <4>1, <4>3
      <3>2. CASE ~para.save
        BY <1>9, <3>2 DEF Measured, request
      <3> QED BY <3>1, <3>2
    <2>4. Store!Measure(asked)
      BY <2>1, <2>2, <2>3 DEF Store!Measure
    <2> QED BY <2>1, <2>4 DEF Store!Next
  <1>10. CASE MeasureAll \/ MeasureOne
    <2>1. CASE MeasureAll
      BY <1>9, <2>1 DEF MeasureAll
    <2>2. CASE MeasureOne
      <3> DEFINE noted(m) == [a \in Axis |-> IF a = para.axis THEN m[a]
                                                    ELSE mCached[target][a]]
      <3>1. PICK m \in Offsets : Measured(noted(m)) /\ device' = commanded(m)
        BY <2>2 DEF MeasureOne
      <3>2. noted(m) \in Offsets
        BY <2>2 DEF MeasureOne, IInv, TypeOK, Offsets
      <3> QED BY <1>9, <2>2, <3>1, <3>2 DEF MeasureOne
    <2> QED BY <1>10, <2>1, <2>2
  <1>11. CASE NoCalibrate \/ MeasureFails
    <2>1. /\ pc = "measure" /\ persist' = persist /\ pc' = "up"
      BY <1>11 DEF NoCalibrate, MeasureFails, files
    <2>2. device' = device \/ \E m \in Offsets : device' = commanded(m)
      BY <1>11 DEF NoCalibrate, MeasureFails
    <2>3. request = {asked} /\ device' \in Store!applied(asked)
      BY <1>8, <2>1, <2>2, CommandedDevice DEF IInv
    <2>4. phase = "on" /\ phase' = "on" /\ request' = {}
      BY <2>1, View DEF phase, request
    <2>5. Store!End(asked)
      BY <2>1, <2>3, <2>4 DEF Store!End, Store!saved
    <2> QED BY <2>3, <2>5 DEF Store!Next
  <1>12. ASSUME pc = "save", persist' \in {persist, newFile, torn(newFile)}
         PROVE  request = {saving} /\ persist'.entry \in Store!saved(saving)
    BY <1>0, <1>12, SaveEffect, View DEF Store!saved
  <1>13. CASE Save \/ SaveRefused
    <2>1. /\ pc = "save" /\ persist' \in {persist, newFile, torn(newFile)}
          /\ pc' = "up" /\ device' = device
      BY <1>13 DEF Save, SaveRefused, files
    <2>2. request = {saving} /\ persist'.entry \in Store!saved(saving)
      BY <1>12, <2>1
    <2>3. phase = "on" /\ phase' = "on" /\ request' = {}
      BY <2>1, View DEF phase, request
    <2>4. Store!End(saving)
      BY <2>1, <2>2, <2>3 DEF Store!End, Store!applied
    <2> QED BY <2>2, <2>4 DEF Store!Next
  <1>14. CASE Crash
    <2>1. /\ pc # "down" /\ pc' = "down" /\ phase' = "off" /\ request' = {}
          /\ persist' \in {persist, newFile, torn(newFile)}
          /\ pc = "save" \/ persist' = persist
      BY <1>14 DEF Crash, phase, request
    <2>2. CASE pc = "boot"
      <3>1. /\ phase = "start" /\ request = {} /\ persist' = persist
            /\ device' = device \/ \E s \in Sensor : \E o \in Offsets :
                 device' = [device EXCEPT ![s] = o]
        BY <1>14, <2>1, <2>2, CrashDevice, View
      <3> QED BY <2>1, <3>1 DEF Store!Next, Store!StopStarting
    <2>3. CASE pc = "up"
      <3>1. phase = "on" /\ request = {} /\ persist' = persist /\ device' = device
        BY <1>14, <2>1, <2>3, CrashDevice, View
      <3> QED BY <2>1, <3>1 DEF Store!Next, Store!Stop
    <2>4. CASE pc = "measure"
      <3>1. phase = "on" /\ persist' = persist
        BY <2>1, <2>4, View
      <3>2. request = {asked} /\ device' \in Store!applied(asked)
        BY <1>8, <1>14, <2>4, CrashDevice
      <3> QED BY <2>1, <3>1, <3>2 DEF Store!Next, Store!Stop, Store!saved
    <2>5. CASE pc = "save"
      <3>1. phase = "on" /\ device' = device
        BY <1>14, <2>5, CrashDevice, View
      <3>2. request = {saving} /\ persist'.entry \in Store!saved(saving)
        BY <1>12, <2>1, <2>5
      <3> QED BY <2>1, <3>1, <3>2 DEF Store!Next, Store!Stop, Store!applied
    <2> QED BY <1>0, <2>1, <2>2, <2>3, <2>4, <2>5
  <1>15. CASE PowerCycle
    <2>1. /\ phase = "off" /\ request = {} /\ phase' = "off" /\ request' = {}
          /\ persist' = persist /\ device' = [s \in Sensor |-> Zero]
      BY <1>15, View DEF PowerCycle, files, phase, request
    <2> QED BY <2>1 DEF Store!Next, Store!Restart
  <1> QED BY <1>1, <1>2, <1>3, <1>4, <1>5, <1>6, <1>7, <1>10, <1>11, <1>13, <1>14,
             <1>15 DEF Next

\* Two files and three steps implement one store: wherever the program fails
\* or stops, a start gives a sensor its own latest stored offsets or none, and
\* otherwise only the calibration under way changes its own sensor's, in the
\* device and in what is stored.  Without the removal of the copy a start may
\* give offsets that have been replaced.
THEOREM Refinement == ASSUME "remove" \notin Faults PROVE Spec => StoreSpec
  <1>1. Init => Store!Init
    BY RefinesInit
  <1>2. IInv /\ IInv' /\ [Next]_vars => [Store!Next]_Store!vars
    BY RefinesNext
  <1> QED BY <1>1, <1>2, Invariance, PTL DEF Spec, StoreSpec, Store!Spec

-----------------------------------------------------------------------------
\* While nothing but saves and measurements may fail, a start that found no
\* copy at its first sensor finds none later, and what it has restored from
\* a whole one is what is stored.
RestoredSoFar ==
  (Faults \cap {"remove", "copy"} = {} /\ pc = "boot") =>
    /\ next > 1 /\ ~exists(copy) => ~exists(persist)
    /\ copy.state = "whole" =>
         \A s \in Calibrates \ Flaky : s < next =>
           device[s] = IF persist.entry[s] = NoEntry THEN Zero ELSE persist.entry[s]

LEMMA RestoredNext ==
  ASSUME IInv, RestoredSoFar, [Next]_vars
  PROVE  RestoredSoFar'
  <1> SUFFICES ASSUME Faults \cap {"remove", "copy"} = {}, pc' = "boot"
               PROVE  RestoredSoFar'
    BY DEF RestoredSoFar
  <1> USE DEF IInv
  <1>1. "remove" \notin Faults /\ "copy" \notin Faults
    OBVIOUS
  <1>2. CASE Boot
    <2>1. next' = 1 /\ \A s \in Calibrates : ~(s < next')
      BY <1>2, SizeAssumption DEF Boot, Sensor
    <2> QED BY <2>1 DEF RestoredSoFar
  <1>3. ASSUME pc = "boot", copy' \in copied, next <= NumSensors, next' = next + 1,
               persist' = persist
        PROVE  /\ ~exists(copy)' => ~exists(persist)'
               /\ copy' = copy \/ (~exists(copy) /\ exists(persist))
               /\ next \in Nat
    BY <1>1, <1>3 DEF copied, exists, TypeOK
  <1>4. CASE Restore
    <2>1. /\ pc = "boot" /\ persist' = persist /\ next' = next + 1
          /\ ~exists(copy)' => ~exists(persist)'
          /\ copy' = copy \/ (~exists(copy) /\ exists(persist))
          /\ next \in Nat
      BY <1>3, <1>4 DEF Restore
    <2>2. PICK v \in recovered(copy', next) : Apply(next, v)
      BY <1>4 DEF Restore
    <2> SUFFICES ASSUME copy'.state = "whole", NEW s \in Calibrates \ Flaky, s < next'
                 PROVE  device'[s] = IF persist.entry[s] = NoEntry
                                       THEN Zero ELSE persist.entry[s]
      BY <2>1 DEF RestoredSoFar
    <2>3. copy' \in File /\ copy'.entry = persist.entry
      BY <1>1, <1>4, CopiedFile DEF Restore, exists
    <2>4. v = IF persist.entry[next] = NoEntry THEN Zero ELSE persist.entry[next]
      BY <2>2, <2>3 DEF recovered
    <2>5. s \in Sensor /\ s \in Nat /\ device \in [Sensor -> Offsets]
      BY SizeAssumption DEF Sensor, TypeOK
    <2>6. CASE s = next
      BY <2>2, <2>4, <2>5, <2>6 DEF Apply
    <2>7. CASE s # next
      <3>1. s < next
        BY <2>1, <2>5, <2>7
      <3>2. next > 1
        BY <2>1, <2>5, <3>1, SizeAssumption DEF Sensor
      <3>3. copy' = copy
        BY <2>1, <3>2 DEF RestoredSoFar
      <3>4. device'[s] = device[s]
        BY <2>1, <2>2, <2>5, <2>7 DEF Apply, partly
      <3> QED BY <2>1, <3>1, <3>3, <3>4 DEF RestoredSoFar
    <2> QED BY <2>6, <2>7
  <1>5. CASE RestoreError
    BY <1>3, <1>5 DEF RestoreError, RestoredSoFar
  <1>6. CASE RestoreDies \/ BootDone \/ Crash \/ Save \/ SaveRefused
    BY <1>6 DEF RestoreDies, BootDone, Crash, Save, SaveRefused
  <1>7. CASE MeasureAll \/ MeasureOne \/ NoCalibrate \/ MeasureFails
    BY <1>7 DEF MeasureAll, MeasureOne, Measured, NoCalibrate, MeasureFails
  <1>8. CASE PowerCycle \/ \E s \in Sensor : \E p \in Command : Calibrate(s, p)
    BY <1>8 DEF PowerCycle, Calibrate
  <1>9. CASE UNCHANGED vars
    BY <1>9 DEF vars, files, RestoredSoFar, exists
  <1> QED BY <1>2, <1>4, <1>5, <1>6, <1>7, <1>8, <1>9 DEF Next

\* Each start gives every sensor whose device works exactly what is stored
\* for it, whatever saves failed and wherever the program stopped before
\* (sensors_XML.cpp:152-217, NativeSensorManager.cpp:834-856).
THEOREM ExactlyRestored == Spec => []RestoredExactly
  <1>1. Init => RestoredSoFar
    BY DEF Init, RestoredSoFar
  <1>2. Spec => []RestoredSoFar
    BY <1>1, RestoredNext, Invariance, PTL DEF Spec
  <1>3. RestoredSoFar => RestoredExactly
    BY DEF RestoredSoFar, RestoredExactly
  <1> QED BY <1>2, <1>3, PTL
=============================================================================
