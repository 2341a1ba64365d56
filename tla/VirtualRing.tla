---------------------------- MODULE VirtualRing ----------------------------
(***************************************************************************)
(* VirtualSensor: the ring its results wait in, and the algorithms of the  *)
(* common calibration library that make them out of the samples the        *)
(* manager hands on from the background sensors, one at a time.            *)
(*                                                                         *)
(* The algorithms keep the last sample of either sensor in static          *)
(* variables; each is used by one virtual sensor only.  A sample is known  *)
(* by its arrival, so that a result tells what it was made of.  Pointers   *)
(* are offsets from mBuffer.                                               *)
(***************************************************************************)
EXTENDS Integers, Sequences

CONSTANTS
  N,           \* MAX_EVENTS, 250
  MaxSamples,  \* bound on the samples counted
  NoResult     \* content of a slot nothing was written to

Algo == {"orientation", "rotation", "uncalibrated"}
Result == [mag : Nat, acc : Nat]

ASSUME SizeAssumption == N \in Nat \ {0} /\ MaxSamples \in Nat
ASSUME ResultAssumption == NoResult \notin Result

VARIABLES
  algo,        \* the algorithm that was found for the sensor
  mBuffer, mRead, mWrite, mFreeSpace,
  acc,         \* the static acc of the algorithm, 0 before there is one
  samples,     \* how many samples have arrived
  accs,        \* those of the accelerometer
  lost         \* whether one ever found the ring full

ring == <<mBuffer, mRead, mWrite, mFreeSpace>>
vars == <<algo, ring, acc, samples, accs, lost>>

Slot == 0 .. (N - 1)

\* mBufferEnd - mBuffer - mFreeSpace
waiting == N - mFreeSpace

Init ==
  /\ algo \in Algo
  /\ mBuffer = [s \in Slot |-> NoResult]
  /\ mRead = 0 /\ mWrite = 0 /\ mFreeSpace = N
  /\ acc = 0 /\ samples = 0 /\ accs = {} /\ lost = FALSE

Arrive == samples < MaxSamples /\ samples' = samples + 1

\* Mutant: only the first one is noted.
InjectAcc_once ==
  /\ Arrive /\ accs' = accs \cup {samples'}
  /\ mFreeSpace > 0
  /\ acc' = IF algo # "uncalibrated" /\ acc = 0 THEN samples' ELSE acc
  /\ UNCHANGED <<algo, ring, lost>>

\* injectEvents() of an accelerometer sample: the algorithms that fuse note
\* it, none makes a result of it.
InjectAcc ==
  /\ Arrive /\ accs' = accs \cup {samples'}
  /\ mFreeSpace > 0
  /\ acc' = IF algo # "uncalibrated" THEN samples' ELSE acc
  /\ UNCHANGED <<algo, ring, lost>>

\* Mutant: the last slot is left out.
InjectMag_earlyWrap ==
  /\ Arrive
  /\ mFreeSpace > 0
  /\ mBuffer' = [mBuffer EXCEPT ![mWrite] = [mag |-> samples', acc |-> acc]]
  /\ mWrite' = IF mWrite + 1 >= N - 1 THEN 0 ELSE mWrite + 1
  /\ mFreeSpace' = mFreeSpace - 1
  /\ UNCHANGED <<algo, mRead, acc, accs, lost>>

\* injectEvents() of a magnetometer sample, which makes a result, even if
\* there has been no sample of the accelerometer to make it of.
InjectMag ==
  /\ Arrive
  /\ mFreeSpace > 0
  /\ mBuffer' = [mBuffer EXCEPT ![mWrite] = [mag |-> samples', acc |-> acc]]
  /\ mWrite' = IF mWrite + 1 >= N THEN 0 ELSE mWrite + 1
  /\ mFreeSpace' = mFreeSpace - 1
  /\ UNCHANGED <<algo, mRead, acc, accs, lost>>

\* injectEvents() of either when the ring is full: the algorithm is not even
\* called, so that it does not note the sample.
InjectFull ==
  /\ Arrive
  /\ accs' \in {accs, accs \cup {samples'}}
  /\ mFreeSpace = 0
  /\ lost' = TRUE
  /\ UNCHANGED <<algo, ring, acc>>

\* Mutant: mRead may rest on mBufferEnd.
Read_lateWrap ==
  \E n \in 1 .. waiting :
    /\ mRead' = IF mRead + n > N THEN mRead + n - N ELSE mRead + n
    /\ mFreeSpace' = mFreeSpace + n
    /\ UNCHANGED <<algo, mBuffer, mWrite, acc, samples, accs, lost>>

\* readEvents() for as many as there are, or as the caller has room for.
Read ==
  \E n \in 1 .. waiting :
    /\ mRead' = IF mRead + n >= N THEN mRead + n - N ELSE mRead + n
    /\ mFreeSpace' = mFreeSpace + n
    /\ UNCHANGED <<algo, mBuffer, mWrite, acc, samples, accs, lost>>

Next == InjectAcc \/ InjectMag \/ InjectFull \/ Read

Spec == Init /\ [][Next]_vars

-----------------------------------------------------------------------------
TypeOK ==
  /\ algo \in Algo
  /\ mBuffer \in [Slot -> Result \cup {NoResult}]
  /\ mRead \in Slot /\ mWrite \in Slot
  /\ mFreeSpace \in 0 .. N
  /\ samples \in 0 .. MaxSamples
  /\ acc \in 0 .. samples
  /\ accs \subseteq 1 .. samples
  /\ lost \in BOOLEAN

\* The slot of the i-th result waiting.
slotOf(i) == IF mRead + i - 1 >= N THEN mRead + i - 1 - N ELSE mRead + i - 1

\* The results readEvents() will hand out, oldest first.
results == [i \in 1 .. waiting |-> mBuffer[slotOf(i)]]

\* A result r was made of the newest accelerometer sample before it.
OfNewest(r) ==
  /\ r.acc \in accs \cup {0}
  /\ \A a \in accs : a < r.mag => a <= r.acc

\* As long as the ring never was full, every orientation and rotation that
\* waits, however long it has waited and however many turns of the ring ago
\* it was made, pairs its magnetometer sample with the newest accelerometer
\* sample before it (VirtualSensor.cpp:105-124, common_wrapper.c:194-289).
FusesNewest ==
  (~lost /\ algo # "uncalibrated") =>
    \A i \in 1 .. waiting : OfNewest(results[i])

Queue == INSTANCE FusionQueue WITH Capacity <- N, queue <- results,
                                   newest <- acc, notes <- algo # "uncalibrated"

\* The ring implements a queue: no result is lost, repeated, overwritten or
\* reordered between the algorithm and the polling thread.
QueueSpec == Queue!Spec
=============================================================================
