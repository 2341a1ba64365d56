---------------------------- MODULE InputReader ----------------------------
(***************************************************************************)
(* InputEventCircularReader (sensors/InputEventReader.cpp): the ring the   *)
(* five hardware drivers read their evdev node through.                    *)
(*                                                                         *)
(* The buffer has 2*N slots for a capacity of N events.  fill() lets the   *)
(* kernel write up to mFreeSpace events straight at mHead, past mBufferEnd *)
(* if need be, and then copies what went past the end to the front.  Note  *)
(* that mHead may rest on mBufferEnd itself (the test is a strict >) while *)
(* mCurr never does.  Pointers are offsets from mBuffer.                   *)
(***************************************************************************)
EXTENDS Integers, Sequences

CONSTANTS Event,      \* the input events a device can post
          N,          \* numEvents: 6 for accelerometer, gyro, compass; 4 else
          KernelCap,  \* bound on the kernel's queue, for model checking
          NoEvent     \* content of a slot nothing was written to

ASSUME SizeAssumption == N \in Nat \ {0} /\ KernelCap \in Nat
ASSUME EventAssumption == NoEvent \notin Event

VARIABLES kernel,     \* the evdev node's queue, oldest first (external)
          mBuffer,    \* 2*N slots
          mHead,      \* where the next read() writes
          mCurr,      \* the oldest event not consumed
          mFreeSpace, \* events that still fit
          filled      \* what the last fill() returned, -1 for any -errno

ring == <<mBuffer, mHead, mCurr, mFreeSpace>>
vars == <<kernel, ring, filled>>

Slot == 0 .. (2 * N - 1)

\* mBufferEnd - mBuffer - mFreeSpace: the events readEvent() can offer.
available == N - mFreeSpace

Init ==
  /\ kernel = << >>
  /\ mBuffer = [s \in Slot |-> NoEvent]
  /\ mHead = 0 /\ mCurr = 0 /\ mFreeSpace = N
  /\ filled = 0

\* The kernel queues a packet on the device node: what the device posts up to
\* and with a SYN_REPORT can be read from then on.
Post(packet) ==
  /\ Len(kernel) + Len(packet) <= KernelCap
  /\ kernel' = kernel \o packet
  /\ UNCHANGED <<ring, filled>>

\* The buffer after read() wrote the n oldest kernel events at mHead.
received(n) ==
  [s \in Slot |-> IF s \in mHead .. (mHead + n - 1)
                    THEN kernel[s - mHead + 1] ELSE mBuffer[s]]

\* Mutant: one event too few is copied to the front.
wrapped_shortCopy(n) ==
  LET s == mHead + n - N
  IN  [i \in Slot |-> IF i < s - 1 THEN received(n)[N + i] ELSE received(n)[i]]

\* ... and after the memcpy of the events that went past mBufferEnd.
wrapped(n) ==
  LET s == mHead + n - N
  IN  [i \in Slot |-> IF i < s THEN received(n)[N + i] ELSE received(n)[i]]

\* Mutant: mHead stays behind mBufferEnd after the copy.
movedHead_noReset(n) == mHead + n

movedHead(n) == IF mHead + n > N THEN mHead + n - N ELSE mHead + n

\* fill() when read() returns n whole events.
FillSome ==
  \E n \in 1 .. Len(kernel) :
    /\ n <= mFreeSpace
    /\ mBuffer' = wrapped(n)
    /\ mHead' = movedHead(n)
    /\ mFreeSpace' = mFreeSpace - n
    /\ kernel' = SubSeq(kernel, n + 1, Len(kernel))
    /\ filled' = n
    /\ UNCHANGED mCurr

\* fill() when read() fails: EAGAIN on an empty queue, or any other error.
FillError ==
  /\ mFreeSpace > 0
  /\ filled' = -1
  /\ UNCHANGED <<kernel, ring>>

\* fill() of a full ring returns 0 and does not read at all.
FillFull ==
  /\ mFreeSpace = 0
  /\ filled' = 0
  /\ UNCHANGED <<kernel, ring>>

\* next(), which the drivers call only after readEvent() has offered an event.
Consume ==
  /\ available > 0
  /\ mCurr' = IF mCurr + 1 >= N THEN 0 ELSE mCurr + 1
  /\ mFreeSpace' = mFreeSpace + 1
  /\ UNCHANGED <<kernel, mBuffer, mHead, filled>>

Next ==
  \/ \E packet \in Seq(Event) : Post(packet)
  \/ FillSome \/ FillError \/ FillFull
  \/ Consume

Spec == Init /\ [][Next]_vars

-----------------------------------------------------------------------------
\* Every pointer stays in the buffer: mHead may reach mBufferEnd, mCurr not.
\* Nothing fill() can write leaves the 2*N slots (InputEventReader.cpp:53).
TypeOK ==
  /\ kernel \in Seq(Event)
  /\ mBuffer \in [Slot -> Event \cup {NoEvent}]
  /\ mHead \in 0 .. N
  /\ mCurr \in 0 .. (N - 1)
  /\ mFreeSpace \in 0 .. N
  /\ filled \in -1 .. N

\* The three offsets agree: mHead is as far ahead of mCurr as the count of
\* events says, give or take one turn of the ring (InputEventReader.cpp:61-67
\* against 83-87).  A whole turn ahead, +N, is the empty ring with mHead left
\* on mBufferEnd and mCurr wrapped to the front.
PointersAgree == mHead - (mCurr + available) \in {-N, 0, N}

\* The slot of the i-th event not yet consumed.
slotOf(i) == IF mCurr + i - 1 >= N THEN mCurr + i - 1 - N ELSE mCurr + i - 1

\* The events readEvent() will offer, in the order it will offer them.
queued == [i \in 1 .. available |-> mBuffer[slotOf(i)]]

Fifo == INSTANCE EventFifo WITH Capacity <- N, held <- queued

\* The ring implements a first-in first-out hand-over: no event read from
\* the kernel is lost, overwritten, repeated or reordered before a driver
\* consumes it.
FifoSpec == Fifo!Spec
=============================================================================
