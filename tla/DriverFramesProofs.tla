------------------------- MODULE DriverFramesProofs -------------------------
(***************************************************************************)
(* The ring of InputEventCircularReader is a bounded FIFO, for every       *)
(* capacity, every set of events and every bound on the kernel's queue.  A *)
(* driver uses it as InputReader says, looks only at events the device     *)
(* posted, and never writes more events than it was given room for, for    *)
(* every size of the room and however frames are cut; and what it writes   *)
(* are the due readings of ReadingFeed, once each, in order and whole.     *)
(***************************************************************************)
EXTENDS DriverFrames, SequenceTheorems, FiniteSetTheorems, TLAPS

(***************************************************************************)
(* InputReader                                                             *)
(***************************************************************************)
Inv == TypeOK /\ PointersAgree

USE SizeAssumption DEF Slot, available

\* Where read() and the copy leave an event: what fill() puts in slot i.
LEMMA WrappedSlots ==
  ASSUME Inv, NEW n \in 1 .. Len(kernel), n <= mFreeSpace
  PROVE  /\ wrapped(n) \in [Slot -> Event \cup {NoEvent}]
         /\ \A i \in Slot :
              wrapped(n)[i] =
                IF i < mHead + n - N THEN kernel[N + i - mHead + 1]
                ELSE IF i \in mHead .. (mHead + n - 1) THEN kernel[i - mHead + 1]
                ELSE mBuffer[i]
  <1> DEFINE r == received(n)
  <1>1. r \in [Slot -> Event \cup {NoEvent}]
    <2>1. \A s \in mHead .. (mHead + n - 1) : kernel[s - mHead + 1] \in Event
      <3> TAKE s \in mHead .. (mHead + n - 1)
      <3>1. s - mHead + 1 \in 1 .. Len(kernel)
        BY DEF Inv, TypeOK
      <3> QED BY <3>1 DEF Inv, TypeOK
    <2> QED BY <2>1 DEF Inv, TypeOK, received
  <1>2. \A i \in Slot : r[i] = IF i \in mHead .. (mHead + n - 1)
                                 THEN kernel[i - mHead + 1] ELSE mBuffer[i]
    BY DEF received
  <1>3. \A i \in Slot : i < mHead + n - N =>
           /\ N + i \in Slot
           /\ N + i \in mHead .. (mHead + n - 1)
    BY DEF Inv, TypeOK
  <1>4. wrapped(n) = [i \in Slot |-> IF i < mHead + n - N THEN r[N + i] ELSE r[i]]
    BY DEF wrapped
  <1> HIDE DEF r
  <1>5. wrapped(n) \in [Slot -> Event \cup {NoEvent}]
    BY <1>1, <1>3, <1>4
  <1>6. ASSUME NEW i \in Slot
        PROVE  wrapped(n)[i] =
                IF i < mHead + n - N THEN kernel[N + i - mHead + 1]
                ELSE IF i \in mHead .. (mHead + n - 1) THEN kernel[i - mHead + 1]
                ELSE mBuffer[i]
    <2>1. CASE i < mHead + n - N
      <3>1. N + i \in Slot /\ N + i \in mHead .. (mHead + n - 1)
        BY <2>1, <1>3
      <3>2. r[N + i] = kernel[N + i - mHead + 1]
        <4> PICK s \in Slot : s = N + i
          BY <3>1
        <4>1. r[s] = kernel[s - mHead + 1]
          BY <3>1, <1>2
        <4> QED BY <4>1 DEF Inv, TypeOK
      <3>3. wrapped(n)[i] = r[N + i]
        BY <2>1, <1>4
      <3> QED BY <2>1, <3>2, <3>3
    <2>2. CASE ~(i < mHead + n - N)
      BY <2>2, <1>2, <1>4
    <2> QED BY <2>1, <2>2
  <1> QED BY <1>5, <1>6

-----------------------------------------------------------------------------
LEMMA InvInit == Init => Inv
  BY DEF Init, Inv, TypeOK, PointersAgree

LEMMA InvNext == Inv /\ [Next]_vars => Inv'
  <1> SUFFICES ASSUME Inv, [Next]_vars PROVE Inv'
    OBVIOUS
  <1>1. CASE UNCHANGED vars
    BY <1>1 DEF Inv, TypeOK, PointersAgree, vars, ring
  <1>2. ASSUME NEW packet \in Seq(Event), Post(packet) PROVE Inv'
    <2>1. kernel \o packet \in Seq(Event)
      BY DEF Inv, TypeOK
    <2> QED BY <1>2, <2>1 DEF Inv, TypeOK, PointersAgree, Post, ring
  <1>3. CASE FillSome
    <2> PICK n \in 1 .. Len(kernel) :
          /\ n <= mFreeSpace
          /\ mBuffer' = wrapped(n)
          /\ mHead' = movedHead(n)
          /\ mFreeSpace' = mFreeSpace - n
          /\ kernel' = SubSeq(kernel, n + 1, Len(kernel))
          /\ filled' = n
          /\ UNCHANGED mCurr
      BY <1>3 DEF FillSome
    <2>1. kernel' \in Seq(Event)
      BY DEF Inv, TypeOK
    <2>2. mBuffer' \in [Slot -> Event \cup {NoEvent}]
      BY WrappedSlots
    <2>3. /\ mHead' \in 0 .. N /\ mCurr' \in 0 .. (N - 1)
          /\ mFreeSpace' \in 0 .. N /\ filled' \in -1 .. N
      BY DEF Inv, TypeOK, movedHead
    <2>4. PointersAgree'
      BY DEF Inv, TypeOK, PointersAgree, movedHead
    <2> QED BY <2>1, <2>2, <2>3, <2>4 DEF Inv, TypeOK
  <1>4. CASE FillError
    BY <1>4 DEF Inv, TypeOK, PointersAgree, FillError, ring
  <1>5. CASE FillFull
    BY <1>5 DEF Inv, TypeOK, PointersAgree, FillFull, ring
  <1>6. CASE Consume
    BY <1>6 DEF Inv, TypeOK, PointersAgree, Consume
  <1> QED BY <1>1, <1>2, <1>3, <1>4, <1>5, <1>6 DEF Next

\* Every reachable state is well typed: no pointer leaves the buffer and
\* fill() never writes beyond its 2*N slots.
THEOREM TypeCorrect == Spec => []TypeOK
  <1>1. Inv => TypeOK
    BY DEF Inv
  <1> QED BY InvInit, InvNext, <1>1, PTL DEF Spec

\* The offsets of the ring agree with its count, after any number of turns.
THEOREM PointersCorrect == Spec => []PointersAgree
  <1>1. Inv => PointersAgree
    BY DEF Inv
  <1> QED BY InvInit, InvNext, <1>1, PTL DEF Spec

-----------------------------------------------------------------------------
\* The events on offer form a sequence no longer than the ring's capacity.
LEMMA QueuedType ==
  TypeOK =>
         /\ queued \in Seq(Event \cup {NoEvent})
         /\ Len(queued) = available
         /\ \A i \in 1 .. available : /\ slotOf(i) \in 0 .. (N - 1)
                                      /\ queued[i] = mBuffer[slotOf(i)]
  <1> SUFFICES ASSUME TypeOK
               PROVE  /\ queued \in Seq(Event \cup {NoEvent})
                      /\ Len(queued) = available
                      /\ \A i \in 1 .. available :
                           /\ slotOf(i) \in 0 .. (N - 1)
                           /\ queued[i] = mBuffer[slotOf(i)]
    OBVIOUS
  <1>1. \A i \in 1 .. available : slotOf(i) \in 0 .. (N - 1)
    BY DEF TypeOK, slotOf
  <1>2. \A i \in 1 .. available : mBuffer[slotOf(i)] \in Event \cup {NoEvent}
    BY <1>1 DEF TypeOK
  <1>3. available \in Nat
    BY DEF TypeOK
  <1> QED BY <1>1, <1>2, <1>3 DEF queued

\* fill() appends the fetched events to the events on offer.
LEMMA FillAppends ==
  ASSUME Inv, Inv', NEW n \in 1 .. Len(kernel),
         n <= mFreeSpace,
         mBuffer' = wrapped(n),
         mHead' = movedHead(n),
         mFreeSpace' = mFreeSpace - n,
         mCurr' = mCurr
  PROVE  queued' = queued \o SubSeq(kernel, 1, n)
  <1> DEFINE old == N - mFreeSpace
  <1>1. old \in Nat /\ (N - mFreeSpace') = old + n
    BY DEF Inv, TypeOK
  <1>2. \A i \in 1 .. (old + n) : slotOf(i)' = slotOf(i) /\ slotOf(i) \in 0 .. (N - 1)
    BY DEF Inv, TypeOK, slotOf
  <1>3. ASSUME NEW i \in 1 .. old PROVE mBuffer'[slotOf(i)] = mBuffer[slotOf(i)]
    <2>1. slotOf(i) \in Slot /\ ~(slotOf(i) < mHead + n - N)
          /\ slotOf(i) \notin mHead .. (mHead + n - 1)
      BY DEF Inv, TypeOK, PointersAgree, slotOf
    <2> QED BY <2>1, WrappedSlots
  <1>4. ASSUME NEW i \in (old + 1) .. (old + n)
        PROVE  mBuffer'[slotOf(i)] = kernel[i - old]
    <2>1. CASE slotOf(i) < mHead + n - N
      <3>1. N + slotOf(i) - mHead + 1 = i - old
        BY <2>1 DEF Inv, TypeOK, PointersAgree, slotOf
      <3>2. slotOf(i) \in Slot
        BY <1>2, <1>1
      <3> QED BY <3>1, <3>2, <2>1, WrappedSlots
    <2>2. CASE ~(slotOf(i) < mHead + n - N)
      <3>1. slotOf(i) - mHead + 1 = i - old /\ slotOf(i) \in mHead .. (mHead + n - 1)
        BY <2>2 DEF Inv, TypeOK, PointersAgree, slotOf
      <3>2. slotOf(i) \in Slot
        BY <1>2, <1>1
      <3> QED BY <3>1, <3>2, <2>2, WrappedSlots
    <2> QED BY <2>1, <2>2
  <1>5. /\ queued \in Seq(Event \cup {NoEvent}) /\ Len(queued) = old
        /\ \A i \in 1 .. old : queued[i] = mBuffer[slotOf(i)]
    BY QueuedType DEF Inv
  <1>6. queued' = [i \in 1 .. (old + n) |-> mBuffer'[slotOf(i)]]
    BY <1>1, <1>2 DEF queued
  <1>7. queued' \in Seq(Event \cup {NoEvent}) /\ Len(queued') = old + n
    <2>1. \A i \in 1 .. (old + n) : mBuffer'[slotOf(i)] \in Event \cup {NoEvent}
      BY <1>2 DEF Inv, TypeOK
    <2> QED BY <1>1, <1>6, <2>1
  <1> DEFINE new == SubSeq(kernel, 1, n)
  <1>8. /\ new \in Seq(Event \cup {NoEvent}) /\ Len(new) = n
        /\ \A i \in 1 .. n : new[i] = kernel[i]
    <2>1. kernel \in Seq(Event) /\ 1 \in 1 .. (Len(kernel) + 1) /\ n \in 0 .. Len(kernel)
      BY DEF Inv, TypeOK
    <2>2. /\ new \in Seq(Event) /\ Len(new) = n
          /\ \A i \in 1 .. n : new[i] = kernel[1 + i - 1]
      BY <2>1, SubSeqProperties
    <2> QED BY <2>2
  <1> HIDE DEF old, new
  <1>9. ASSUME NEW i \in 1 .. (old + n) PROVE queued'[i] = (queued \o new)[i]
    <2>1. (queued \o new)[i] = IF i <= old THEN queued[i] ELSE new[i - old]
      BY <1>5, <1>8, ConcatProperties
    <2>2. CASE i <= old
      <3>1. i \in 1 .. old
        BY <2>2, <1>1
      <3> QED BY <3>1, <2>1, <2>2, <1>3, <1>5, <1>6
    <2>3. CASE ~(i <= old)
      <3>1. i \in (old + 1) .. (old + n) /\ i - old \in 1 .. n
        BY <2>3, <1>1
      <3> QED BY <3>1, <2>1, <2>3, <1>4, <1>6, <1>8
    <2> QED BY <2>2, <2>3
  <1>10. /\ queued \o new \in Seq(Event \cup {NoEvent})
         /\ Len(queued \o new) = old + n
    BY <1>5, <1>8, ConcatProperties
  <1>11. queued' = queued \o new
    BY <1>7, <1>9, <1>10, SeqEqual
  <1> QED BY <1>11 DEF new

\* next() removes the oldest event on offer and no other.
LEMMA ConsumeTakesHead ==
  ASSUME Inv, Consume
  PROVE  queued # << >> /\ queued' = Tail(queued)
  <1> DEFINE k == N - mFreeSpace
             E == Event \cup {NoEvent}
  <1>1. k \in Nat /\ k > 0 /\ N - mFreeSpace' = k - 1
    BY DEF Inv, TypeOK, Consume
  <1>2. \A i \in 1 .. (k - 1) : slotOf(i)' = slotOf(i + 1)
    BY DEF Inv, TypeOK, Consume, slotOf
  <1>3. mBuffer' = mBuffer
    BY DEF Consume
  <1>4. /\ queued \in Seq(E) /\ Len(queued) = k
        /\ \A i \in 1 .. k : queued[i] = mBuffer[slotOf(i)]
    BY QueuedType DEF Inv
  <1>5. /\ queued' \in Seq(E) /\ Len(queued') = k - 1
        /\ \A i \in 1 .. (k - 1) : queued'[i] = mBuffer'[slotOf(i)']
    <2>1. TypeOK'
      BY InvNext DEF Inv, Next
    <2>2. /\ queued' \in Seq(E)
          /\ Len(queued') = available'
          /\ \A i \in 1 .. available' : queued'[i] = mBuffer'[slotOf(i)']
      <3>1. (/\ queued \in Seq(Event \cup {NoEvent})
             /\ Len(queued) = available
             /\ \A i \in 1 .. available : /\ slotOf(i) \in 0 .. (N - 1)
                                          /\ queued[i] = mBuffer[slotOf(i)])'
        BY <2>1, QueuedType, PTL
      <3> QED BY <3>1
    <2> QED BY <1>1, <2>2
  <1> HIDE DEF k, E
  <1>6. queued # << >>
    BY <1>1, <1>4
  <1>7. /\ Tail(queued) \in Seq(E) /\ Len(Tail(queued)) = k - 1
        /\ \A i \in 1 .. (k - 1) : Tail(queued)[i] = queued[i + 1]
    BY <1>1, <1>4, <1>6, HeadTailProperties
  <1>8. ASSUME NEW i \in 1 .. (k - 1) PROVE queued'[i] = Tail(queued)[i]
    <2>1. i + 1 \in 1 .. k
      BY <1>1
    <2>2. Tail(queued)[i] = mBuffer[slotOf(i + 1)]
      BY <2>1, <1>4, <1>7
    <2> QED BY <2>2, <1>2, <1>3, <1>5
  <1> QED BY <1>5, <1>6, <1>7, <1>8, SeqEqual

LEMMA RefinementInit == Init => Fifo!Init
  BY DEF Init, Fifo!Init, queued

\* Every step of the ring is a step of the FIFO or leaves it unchanged.
LEMMA RefinementNext == Inv /\ Inv' /\ [Next]_vars => [Fifo!Next]_(Fifo!vars)
  <1> SUFFICES ASSUME Inv, Inv', [Next]_vars PROVE [Fifo!Next]_(Fifo!vars)
    OBVIOUS
  <1> USE DEF Fifo!vars
  <1>1. ASSUME UNCHANGED ring PROVE queued' = queued
    BY <1>1 DEF ring, queued, slotOf
  <1>2. CASE UNCHANGED vars
    BY <1>2, <1>1 DEF vars
  <1>3. ASSUME NEW packet \in Seq(Event), Post(packet) PROVE Fifo!Post
    <2>1. /\ kernel \o packet \in Seq(Event)
          /\ Len(kernel \o packet) = Len(kernel) + Len(packet)
      BY DEF Inv, TypeOK
    <2>2. SubSeq(kernel \o packet, 1, Len(kernel)) = kernel
      <3>1. CASE Len(kernel) = 0
        BY <3>1, SubSeqEmpty, EmptySeq DEF Inv, TypeOK
      <3>2. CASE Len(kernel) # 0
        BY <3>2, SubSeqOfConcat1, SubSeqFull DEF Inv, TypeOK
      <3> QED BY <3>1, <3>2
    <2> QED BY <1>3, <1>1, <2>1, <2>2 DEF Post, Fifo!Post, Inv, TypeOK
  <1>4. CASE FillSome
    <2> PICK n \in 1 .. Len(kernel) :
          /\ n <= mFreeSpace
          /\ mBuffer' = wrapped(n)
          /\ mHead' = movedHead(n)
          /\ mFreeSpace' = mFreeSpace - n
          /\ kernel' = SubSeq(kernel, n + 1, Len(kernel))
          /\ filled' = n
          /\ UNCHANGED mCurr
      BY <1>4 DEF FillSome
    <2>1. queued' = queued \o SubSeq(kernel, 1, n)
      BY FillAppends
    <2>2. Len(queued) + n <= N
      BY QueuedType DEF Inv, TypeOK
    <2> QED BY <2>1, <2>2 DEF Fifo!Next, Fifo!Fetch
  <1>5. CASE FillError \/ FillFull
    BY <1>5, <1>1 DEF FillError, FillFull
  <1>6. CASE Consume
    <2>1. UNCHANGED kernel
      BY <1>6 DEF Consume
    <2> QED BY <1>6, <2>1, ConsumeTakesHead DEF Fifo!Next, Fifo!Take
  <1> QED BY <1>2, <1>3, <1>4, <1>5, <1>6 DEF Next, Fifo!Next

\* The ring implements the FIFO: between read() and the drivers no input
\* event is lost, altered, repeated or reordered, whatever the wrap-around.
THEOREM Refinement == Spec => FifoSpec
  <1> QED BY InvInit, InvNext, RefinementInit, RefinementNext, PTL
          DEF Spec, FifoSpec, Fifo!Spec

(***************************************************************************)
(* DriverFrames                                                            *)
(***************************************************************************)
HIDE SizeAssumption DEF Slot, available
USE SizeAssumption, FrameAssumption DEF Time

\* What readEvent() offers has been posted: it is never an unwritten slot.
OnlyPosted == \A i \in 1 .. available : queued[i] \in Event

\* Between two calls nothing is given.
IdleEmpty == pc = "idle" => data = << >>

FrameInv == FramesOK /\ IdleEmpty /\ PointersAgree /\ OnlyPosted

-----------------------------------------------------------------------------
(* The reader.                                                             *)

LEMMA OnlyPostedStep ==
  ASSUME Inv, Inv', OnlyPosted, [Next]_vars
  PROVE  OnlyPosted'
  <1>1. /\ queued \in Seq(Event \cup {NoEvent}) /\ Len(queued) = available
        /\ queued' \in Seq(Event \cup {NoEvent}) /\ Len(queued') = available'
    <2>1. TypeOK /\ TypeOK'
      BY DEF Inv
    <2>2. (/\ queued \in Seq(Event \cup {NoEvent})
           /\ Len(queued) = available
           /\ \A i \in 1 .. available : /\ slotOf(i) \in 0 .. (N - 1)
                                        /\ queued[i] = mBuffer[slotOf(i)])'
      BY <2>1, QueuedType, PTL
    <2> QED BY <2>1, <2>2, QueuedType
  <1>2. kernel \in Seq(Event) /\ available \in Nat
    BY DEF Inv, TypeOK, available
  <1>3. queued \in Seq(Event)
    BY <1>1, <1>2 DEF OnlyPosted
  <1>4. ASSUME queued' \in Seq(Event) PROVE OnlyPosted'
    BY <1>1, <1>4 DEF OnlyPosted
  <1>5. [Fifo!Next]_(Fifo!vars)
    BY RefinementNext
  <1>6. CASE UNCHANGED queued
    BY <1>3, <1>4, <1>6
  <1>7. CASE Fifo!Fetch
    <2>1. PICK n \in 1 .. Len(kernel) : queued' = queued \o SubSeq(kernel, 1, n)
      BY <1>7 DEF Fifo!Fetch
    <2>2. SubSeq(kernel, 1, n) \in Seq(Event)
      BY <1>2
    <2> QED BY <1>3, <1>4, <2>1, <2>2
  <1>8. CASE Fifo!Take
    BY <1>3, <1>4, <1>8 DEF Fifo!Take
  <1> QED BY <1>5, <1>6, <1>7, <1>8 DEF Fifo!Next, Fifo!Post, Fifo!vars

\* The event a driver looks at is one the device posted.
LEMMA EventType ==
  ASSUME FrameInv, available > 0
  PROVE  event \in InputEvent
  <1>1. 1 \in 1 .. available /\ slotOf(1) = mCurr
    BY DEF FrameInv, FramesOK, TypeOK, available, slotOf
  <1>2. queued[1] = event
    BY <1>1 DEF queued, event
  <1> QED BY <1>1, <1>2 DEF FrameInv, OnlyPosted

-----------------------------------------------------------------------------
(* A packet is made of events.                                             *)

LEMMA DivMonotone ==
  ASSUME NEW d \in Nat \ {0}, NEW b \in Nat, NEW a \in 0 .. b
  PROVE  a \div d \in 0 .. (b \div d)
  <1> DEFINE p == a \div d
             q == b \div d
  <1>1. /\ p \in Nat /\ d * p <= a
        /\ q \in Nat /\ b < d * q + d
    OBVIOUS
  <1> HIDE DEF p, q
  <1>2. ASSUME p > q PROVE FALSE
    <2>1. PICK k \in Nat : p = q + 1 + k
      <3>1. p - q - 1 \in Nat /\ p = q + 1 + (p - q - 1)
        BY <1>1, <1>2
      <3> QED BY <3>1
    <2>2. d * p = d * q + d + d * k
      BY <1>1, <2>1
    <2>3. d * k \in Nat /\ d * q \in Nat
      BY <1>1, <2>1
    <2> QED BY <1>1, <2>2, <2>3
  <1>3. p <= q
    BY <1>1, <1>2
  <1> QED BY <1>1, <1>3 DEF p, q

LEMMA PacketType ==
  ASSUME FramesOK, NEW new \in [AxesOf[kind] -> Value], NEW stamped \in BOOLEAN,
         NEW changed \in SUBSET AxesOf[kind], NEW f \in orders(changed)
  PROVE  ([i \in DOMAIN f |-> [code |-> f[i], value |-> new[f[i]]]]
            \o (IF stamped THEN stamp ELSE << >>)
            \o << [code |-> "SYN_REPORT", value |-> 0] >>) \in Seq(InputEvent)
  <1>1. AxesOf[kind] \subseteq Axis
    BY DEF FramesOK, MembersOK, Kinds, Axis
  <1>2. Cardinality(changed) \in Nat /\ f \in [1 .. Cardinality(changed) -> changed]
    BY FS_Subset, FS_CardinalityType DEF orders, FramesOK, MembersOK
  <1>3. [i \in DOMAIN f |-> [code |-> f[i], value |-> new[f[i]]]] \in Seq(InputEvent)
    <2>1. \A i \in 1 .. Cardinality(changed) :
            [code |-> f[i], value |-> new[f[i]]] \in InputEvent
      BY <1>1, <1>2 DEF InputEvent
    <2> QED BY <1>2, <2>1
  <1>4. stamp \in Seq(InputEvent)
    <2>1. now \div Second \in 0 .. (LastTime \div Second)
      BY DivMonotone DEF FramesOK, MembersOK
    <2>2. now % Second \in 0 .. (Second - 1)
      BY DEF FramesOK, MembersOK
    <2> QED BY <2>1, <2>2 DEF stamp, InputEvent
  <1>5. << [code |-> "SYN_REPORT", value |-> 0] >> \in Seq(InputEvent)
    BY DEF InputEvent
  <1> QED BY <1>3, <1>4, <1>5

\* Whatever the driver and its device do, the ring does as InputReader says.
LEMMA ReaderStep ==
  ASSUME FramesOK, [FrameNext]_frameVars
  PROVE  [Next]_vars
  <1>1. CASE Measure
    <2>1. PICK new \in [AxesOf[kind] -> Value], stamped \in BOOLEAN :
            LET changed == {a \in AxesOf[kind] : new[a] # shown[a]}
            IN  \E f \in orders(changed) :
                  Post([i \in DOMAIN f |-> [code |-> f[i], value |-> new[f[i]]]]
                         \o (IF stamped THEN stamp ELSE << >>)
                         \o << [code |-> "SYN_REPORT", value |-> 0] >>)
      BY <1>1 DEF Measure
    <2> DEFINE changed == {a \in AxesOf[kind] : new[a] # shown[a]}
    <2>2. changed \in SUBSET AxesOf[kind]
      OBVIOUS
    <2>3. \E packet \in Seq(InputEvent) : Post(packet)
      BY <2>1, <2>2, PacketType
    <2> QED BY <2>3 DEF Next
  <1>2. CASE BeginRead
    BY <1>2 DEF BeginRead, Next
  <1>3. CASE ReadAxis \/ ReadSec \/ ReadNsec \/ ReadReport
    BY <1>3 DEF ReadAxis, ReadSec, ReadNsec, ReadReport, Taking, Next
  <1>4. CASE ReadAgain
    BY <1>4 DEF ReadAgain, Next
  <1>5. CASE EndRead
    BY <1>5 DEF EndRead, Next
  <1>6. CASE Tick \/ Enable \/ ReadInitial \/ UNCHANGED frameVars
    BY <1>6 DEF Tick, Enable, ReadInitial, frameVars
  <1> QED BY <1>1, <1>2, <1>3, <1>4, <1>5, <1>6 DEF FrameNext

-----------------------------------------------------------------------------
(* The driver's members.                                                   *)

\* What a driver keeps, and gives.
Pending == [data : [AxesOf[kind] -> Value \cup {0}], timestamp : Nat]

LEMMA MembersInit == FrameInit => MembersOK /\ IdleEmpty
  <1> SUFFICES ASSUME FrameInit PROVE MembersOK /\ IdleEmpty
    OBVIOUS
  <1>1. mPendingEvent \in Pending
    BY DEF FrameInit, Pending
  <1>2. data \in Seq(Pending) /\ Len(data) = 0
    BY DEF FrameInit
  <1>3. mEnabled \in BOOLEAN /\ mHasPendingEvent \in BOOLEAN /\ mUseAbsTimeStamp \in BOOLEAN
    BY Zenon DEF FrameInit
  <1>4. /\ kind \in Kinds /\ now = 0 /\ shown \in [AxesOf[kind] -> Value]
        /\ mEnabledTime = 0 /\ report_time = 0
        /\ pc = "idle" /\ count = 0 /\ data = << >>
    BY DEF FrameInit
  <1>5. now \in Time
    BY <1>4
  <1> QED BY <1>1, <1>2, <1>3, <1>4, <1>5 DEF MembersOK, Pending, IdleEmpty

\* What is left to show of a step of the driver itself.
LEMMA MembersKept ==
  ASSUME MembersOK, UNCHANGED device,
         mEnabled' \in BOOLEAN, mHasPendingEvent' \in BOOLEAN,
         mUseAbsTimeStamp' \in BOOLEAN,
         mEnabledTime' \in Nat, report_time' \in Nat,
         mPendingEvent' \in Pending, pc' \in {"idle", "loop"},
         data' \in Seq(Pending), count' \in Nat, Len(data') + count' <= Room
  PROVE  MembersOK'
  BY DEF MembersOK, Pending, device

LEMMA MembersNow ==
  ASSUME MembersOK
  PROVE  /\ mEnabled \in BOOLEAN /\ mHasPendingEvent \in BOOLEAN
         /\ mUseAbsTimeStamp \in BOOLEAN
         /\ mEnabledTime \in Nat /\ report_time \in Nat
         /\ mPendingEvent \in Pending /\ pc \in {"idle", "loop"}
         /\ data \in Seq(Pending) /\ count \in Nat /\ Len(data) + count <= Room
         /\ now \in Nat /\ shown \in [AxesOf[kind] -> Value]
  BY DEF MembersOK, Pending

\* A step of the device changes none of them.
LEMMA DeviceStep ==
  ASSUME MembersOK, Tick \/ Measure \/ UNCHANGED frameVars
  PROVE  MembersOK'
  <1>1. CASE Tick
    BY <1>1 DEF Tick, MembersOK, decoder, call, switch
  <1>2. CASE Measure
    <2>1. shown' \in [AxesOf[kind] -> Value]
      BY <1>2 DEF Measure
    <2>2. UNCHANGED <<now, kind, switch, mHasPendingEvent, decoder, call>>
      BY <1>2 DEF Measure
    <2> QED BY <2>1, <2>2 DEF MembersOK, decoder, call, switch
  <1>3. CASE UNCHANGED frameVars
    BY <1>3 DEF frameVars, device, switch, decoder, call, MembersOK
  <1> QED BY <1>1, <1>2, <1>3

LEMMA EnableStep ==
  ASSUME MembersOK, Enable
  PROVE  MembersOK'
  <1>1. PICK on \in BOOLEAN : SwitchNode(on) \/ SwitchNoNode(on)
    BY DEF Enable
  <1>2. mEnabled' \in BOOLEAN /\ mHasPendingEvent' \in BOOLEAN
    <2>1. CASE SwitchNode(on)
      BY <1>1, <2>1, Zenon DEF SwitchNode, MembersOK
    <2>2. CASE SwitchNoNode(on)
      BY <1>1, <2>2, Zenon DEF SwitchNoNode
    <2> QED BY <1>1, <2>1, <2>2
  <1>3. mEnabledTime' \in Nat
    BY <1>1, MembersNow DEF SwitchNode, SwitchNoNode
  <1>4. mPendingEvent' \in Pending
    BY <1>1, MembersNow DEF SwitchNode, SwitchNoNode, Pending
  <1>5. UNCHANGED <<device, mUseAbsTimeStamp, report_time, call>>
    BY DEF Enable
  <1> QED BY <1>2, <1>3, <1>4, <1>5, MembersNow, MembersKept DEF call

\* An event given is one of the call's.
LEMMA GiveType ==
  ASSUME MembersOK, NEW e \in Pending, Give(e)
  PROVE  data' \in Seq(Pending) /\ Len(data') = Len(data) + 1
  BY MembersNow DEF Give

LEMMA ReadStep ==
  ASSUME FrameInv, ReadAxis \/ ReadSec \/ ReadNsec \/ ReadReport
  PROVE  MembersOK'
  <1>1. /\ available > 0 /\ count > 0
        /\ UNCHANGED device /\ UNCHANGED switch
        /\ UNCHANGED mHasPendingEvent /\ UNCHANGED pc
    BY DEF ReadAxis, ReadSec, ReadNsec, ReadReport, Taking, Consume
  <1>2. event \in InputEvent
    BY <1>1, EventType
  <1>3. MembersOK
    BY DEF FrameInv, FramesOK
  <1>4. CASE ReadAxis
    <2>1. event.code \in Axis /\ event.value \in Value
      BY <1>2, <1>4 DEF ReadAxis, Taking, InputEvent
    <2>2. mPendingEvent' \in Pending
      BY <1>3, <1>4, <2>1, MembersNow DEF ReadAxis, understood, Pending
    <2>3. UNCHANGED <<mUseAbsTimeStamp, report_time, count, data>>
      BY <1>4 DEF ReadAxis
    <2> QED BY <1>1, <1>3, <2>2, <2>3, MembersNow, MembersKept DEF switch
  <1>5. CASE ReadSec
    <2>1. event.value \in Nat
      BY <1>2, <1>5 DEF ReadSec, Taking, InputEvent
    <2>2. event.value * Second \in Nat
      BY <2>1
    <2>3. report_time' \in Nat /\ mUseAbsTimeStamp' \in BOOLEAN
      BY <1>5, <2>2 DEF ReadSec
    <2>4. UNCHANGED <<mPendingEvent, count, data>>
      BY <1>5 DEF ReadSec
    <2> QED BY <1>1, <1>3, <2>3, <2>4, MembersNow, MembersKept DEF switch
  <1>6. CASE ReadNsec
    <2>1. event.value \in Nat
      BY <1>2, <1>6 DEF ReadNsec, Taking, InputEvent
    <2>2. report_time + event.value \in Nat
      BY <1>3, <2>1, MembersNow
    <2>3. mPendingEvent' \in Pending /\ mUseAbsTimeStamp' \in BOOLEAN
      BY <1>3, <1>6, <2>2, MembersNow DEF ReadNsec, Pending
    <2>4. UNCHANGED <<report_time, count, data>>
      BY <1>6 DEF ReadNsec
    <2> QED BY <1>1, <1>3, <2>3, <2>4, MembersNow, MembersKept DEF switch
  <1>7. CASE ReadReport
    <2>1. mUseAbsTimeStamp' \in BOOLEAN
      BY <1>7, Zenon DEF ReadReport
    <2>2. counts => count' = count - 1
      BY <1>7 DEF ReadReport
    <2>3. ~counts => count' = count
      BY <1>3, <1>7, MembersNow DEF ReadReport
    <2>4. reports => counts
      BY DEF reports, counts
    <2>5. /\ data' \in Seq(Pending)
          /\ Len(data') = Len(data) + (IF reports THEN 1 ELSE 0)
      <3>1. CASE reports
        <4>1. Give(mPendingEvent)
          BY <1>7, <3>1 DEF ReadReport
        <4> QED BY <1>3, <3>1, <4>1, GiveType, MembersNow
      <3>2. CASE ~reports
        BY <1>3, <1>7, <3>2, MembersNow DEF ReadReport
      <3> QED BY <3>1, <3>2
    <2>6. count' \in Nat /\ Len(data') + count' <= Room
      <3>1. CASE counts
        BY <1>1, <1>3, <2>2, <2>5, <3>1, MembersNow
      <3>2. CASE ~counts
        BY <1>1, <1>3, <2>3, <2>4, <2>5, <3>2, MembersNow
      <3> QED BY <3>1, <3>2
    <2>7. UNCHANGED <<report_time, mPendingEvent>>
      BY <1>7 DEF ReadReport
    <2> QED BY <1>1, <1>3, <2>1, <2>5, <2>6, <2>7, MembersNow, MembersKept DEF switch
  <1> QED BY <1>4, <1>5, <1>6, <1>7

LEMMA CallStep ==
  ASSUME MembersOK, IdleEmpty, ReadInitial \/ BeginRead \/ ReadAgain \/ EndRead
  PROVE  MembersOK'
  <1>1. CASE ReadInitial
    <2>1. mPendingEvent' \in Pending
      BY <1>1, MembersNow DEF ReadInitial, Pending
    <2>2. data' \in Seq(Pending) /\ Len(data') <= 1
      <3>1. Len(data) = 0
        BY <1>1 DEF ReadInitial, IdleEmpty
      <3>2. CASE mEnabled
        <4>1. Give(mPendingEvent')
          BY <1>1, <3>2 DEF ReadInitial
        <4>2. data' = Append(data, mPendingEvent')
          BY <4>1 DEF Give
        <4> QED BY <2>1, <3>1, <4>2, MembersNow
      <3>3. CASE ~mEnabled
        BY <1>1, <3>1, <3>3, MembersNow DEF ReadInitial
      <3> QED BY <3>2, <3>3
    <2>3. /\ UNCHANGED <<device, switch, mUseAbsTimeStamp, report_time>>
          /\ mHasPendingEvent' = FALSE /\ pc' = "loop" /\ count' = 0
      BY <1>1 DEF ReadInitial
    <2>4. Len(data') + 0 <= Room
      BY <2>2
    <2> QED BY <2>1, <2>2, <2>3, <2>4, MembersNow, MembersKept DEF switch
  <1>2. CASE BeginRead
    <2>1. PICK n \in 1 .. Room : count' = n
      BY <1>2 DEF BeginRead
    <2>2. UNCHANGED <<device, switch, mHasPendingEvent, decoder, data>> /\ pc' = "loop"
      BY <1>2 DEF BeginRead
    <2>3. data = << >>
      BY <1>2 DEF BeginRead, IdleEmpty
    <2>4. Len(data') = 0
      BY <2>2, <2>3
    <2>5. n \in Nat /\ 0 + n <= Room
      OBVIOUS
    <2>6. count' \in Nat /\ Len(data') + count' <= Room
      BY <2>1, <2>4, <2>5
    <2> QED BY <2>2, <2>6, MembersNow, MembersKept DEF switch, decoder
  <1>3. CASE ReadAgain
    <2>1. UNCHANGED <<device, switch, mHasPendingEvent, decoder, call>>
      BY <1>3 DEF ReadAgain
    <2> QED BY <2>1, MembersNow, MembersKept DEF switch, decoder, call
  <1>4. CASE EndRead
    <2>1. /\ UNCHANGED <<device, switch, mHasPendingEvent, decoder>>
          /\ pc' = "idle" /\ count' = 0 /\ data' = << >>
      BY <1>4 DEF EndRead
    <2>2. data' \in Seq(Pending) /\ Len(data') + count' <= Room
      <3>1. Len(data') = 0
        BY <2>1
      <3> QED BY <2>1, <3>1
    <2> QED BY <2>1, <2>2, MembersNow, MembersKept DEF switch, decoder
  <1> QED BY <1>1, <1>2, <1>3, <1>4

LEMMA IdleStep == IdleEmpty /\ [FrameNext]_frameVars => IdleEmpty'
  <1> SUFFICES ASSUME IdleEmpty, [FrameNext]_frameVars PROVE IdleEmpty'
    OBVIOUS
  <1>1. CASE UNCHANGED call
    BY <1>1 DEF IdleEmpty, call
  <1>2. CASE ReadInitial \/ BeginRead \/ EndRead
    BY <1>2 DEF ReadInitial, BeginRead, EndRead, IdleEmpty
  <1>3. CASE ReadAxis \/ ReadSec \/ ReadNsec \/ ReadReport
    BY <1>3 DEF ReadAxis, ReadSec, ReadNsec, ReadReport, Taking, IdleEmpty
  <1>4. CASE Tick \/ Measure \/ Enable \/ ReadAgain \/ UNCHANGED frameVars
    BY <1>1, <1>4 DEF Tick, Measure, Enable, ReadAgain, frameVars
  <1> QED BY <1>2, <1>3, <1>4 DEF FrameNext

-----------------------------------------------------------------------------
LEMMA FrameInvInit == FrameInit => FrameInv
  <1> SUFFICES ASSUME FrameInit PROVE FrameInv
    OBVIOUS
  <1>1. Init
    BY DEF FrameInit
  <1>2. Inv
    BY <1>1, InvInit
  <1>3. OnlyPosted
    <2>1. available = 0
      BY <1>1 DEF Init, available
    <2> QED BY <2>1 DEF OnlyPosted
  <1> QED BY <1>2, <1>3, MembersInit DEF Inv, FrameInv, FramesOK

LEMMA FrameInvNext == FrameInv /\ [FrameNext]_frameVars => FrameInv'
  <1> SUFFICES ASSUME FrameInv, [FrameNext]_frameVars PROVE FrameInv'
    OBVIOUS
  <1>1. FramesOK /\ MembersOK /\ IdleEmpty /\ Inv /\ OnlyPosted
    BY DEF FrameInv, FramesOK, Inv
  <1>2. [Next]_vars
    BY <1>1, ReaderStep
  <1>3. Inv'
    BY <1>1, <1>2, InvNext
  <1>4. OnlyPosted'
    BY <1>1, <1>2, <1>3, OnlyPostedStep
  <1>5. MembersOK'
    BY <1>1, DeviceStep, EnableStep, ReadStep, CallStep DEF FrameNext
  <1>6. IdleEmpty'
    BY <1>1, IdleStep
  <1> QED BY <1>3, <1>4, <1>5, <1>6 DEF FrameInv, FramesOK, Inv

\* However frames are cut, the ring's offsets stay in its buffer and a call
\* writes no more events than it has room for (the while of readEvents()).
THEOREM RoomKept == FrameSpec => []FramesOK
  <1>1. FrameInv => FramesOK
    BY DEF FrameInv
  <1> QED BY FrameInvInit, FrameInvNext, <1>1, PTL DEF FrameSpec

\* The driver never looks at a slot nothing was written to (readEvent()).
THEOREM NothingUnwritten == FrameSpec => []OnlyPosted
  <1>1. FrameInv => OnlyPosted
    BY DEF FrameInv
  <1> QED BY FrameInvInit, FrameInvNext, <1>1, PTL DEF FrameSpec

\* A driver and its device use the ring as InputReader says, ...
THEOREM ReaderUsed == FrameSpec => Spec
  <1>1. FrameInit => Init
    BY DEF FrameInit
  <1>2. FrameInv /\ [FrameNext]_frameVars => [Next]_vars
    BY ReaderStep DEF FrameInv
  <1> QED BY FrameInvInit, FrameInvNext, <1>1, <1>2, PTL DEF FrameSpec, Spec

\* ... so that it hands the driver every input event once and in order.
THEOREM FramesFifo == FrameSpec => FifoSpec
  BY ReaderUsed, Refinement

(***************************************************************************)
(* The feed of readings.                                                   *)
(***************************************************************************)
HIDE FrameAssumption DEF Time
HIDE SizeAssumption

\* The events posted and not yet looked at, oldest first.
line == queued \o kernel

\* Whether driver k takes a value in: the proximity sensor passes -1 over.
taken(k, v) == ~(k = "proximity" /\ v = -1)

\* What driver k knows of its axes after one more event.
said(k, d, e) ==
  [a \in AxesOf[k] |-> IF e.code = a /\ taken(k, e.value) THEN e.value ELSE d[a]]

\* What driver k can know of its axes.
Known(k) == [AxesOf[k] -> Value \cup {0}]

\* F[p] frames end within the first p events of L; W are their readings.
Counted(F, L, W) ==
  /\ F \in [0 .. Len(L) -> 0 .. Len(W)]
  /\ F[0] = 0 /\ F[Len(L)] = Len(W)
  /\ \A p \in 1 .. Len(L) : F[p] = IF L[p].code = "SYN_REPORT" THEN F[p - 1] + 1 ELSE F[p - 1]
  /\ \A p, q \in 0 .. Len(L) : p <= q => F[p] <= F[q]

\* Each frame begins with an axis and ends with SYN_REPORT; the two halves of
\* the reading's time, if it is stamped, come right before that.
Framed(F, L, W) ==
  \A p \in 1 .. Len(L) :
    /\ L[p].code # "SYN_REPORT" => p < Len(L) /\ F[p] < Len(W)
    /\ L[p].code = "SYN_REPORT" =>
         /\ p < Len(L) => L[p + 1].code \in Axis
         /\ p > 1 /\ W[F[p]].stamped => L[p - 1].code = "SYN_TIME_NSEC"
    /\ L[p].code = "SYN_TIME_SEC" =>
         /\ L[p + 1].code = "SYN_TIME_NSEC"
         /\ L[p].value * Second + L[p + 1].value = W[F[p] + 1].time
    /\ L[p].code = "SYN_TIME_NSEC" =>
         /\ L[p + 1].code = "SYN_REPORT" /\ W[F[p] + 1].stamped
         /\ p > 1 => L[p - 1].code = "SYN_TIME_SEC"

\* The driver has what has been read of a stamp.
Decoded ==
  line # << >> =>
    /\ line[1].code = "SYN_TIME_NSEC" => report_time + line[1].value = waiting[1].time
    /\ line[1].code = "SYN_REPORT" /\ waiting[1].stamped =>
         mUseAbsTimeStamp /\ (doubt = 0 => mPendingEvent.timestamp = waiting[1].time)

\* What driver k will know after p events, beginning with d.
Follows(k, D, d, L) ==
  /\ D \in [0 .. Len(L) -> Known(k)]
  /\ D[0] = d
  /\ \A p \in 1 .. Len(L) : D[p] = said(k, D[p - 1], L[p])

\* It is what was posted, but for the first n readings.
Matched(F, D, L, W, n) ==
  \A p \in 1 .. Len(L) :
    L[p].code = "SYN_REPORT" /\ F[p] > n => D[p] = W[F[p]].data

\* In the end it is t, which is s, but where an axis shows a value passed over.
Ends(k, D, L, t, s) ==
  \A a \in AxesOf[k] :
    taken(k, s[a]) => /\ D[Len(L)][a] = t[a]
                      /\ t[a] = s[a] \/ \A p \in 1 .. Len(L) : L[p].code # a

\* The events left, L, make up the readings left, W, beginning with d.
Explains(k, L, W, d, n, t, s) ==
  \E F \in [0 .. Len(L) -> 0 .. Len(W)], D \in [0 .. Len(L) -> Known(k)] :
    /\ Counted(F, L, W) /\ Framed(F, L, W)
    /\ Follows(k, D, d, L) /\ Matched(F, D, L, W, n)
    /\ Ends(k, D, L, t, s)

Explained == Explains(kind, line, waiting, mPendingEvent.data, doubt, told, shown)

\* No time is later than now, nor mEnabledTime later than the driver lets it be.
Dated ==
  /\ \A m \in 1 .. Len(waiting) : waiting[m].time <= now
  /\ mPendingEvent.timestamp \in Time
  /\ mEnabledTime <= now + IgnoreTime
  /\ kind \notin Fetching => mEnabledTime = 0

\* A stamp the accelerometer has kept is too old once it is enabled.
Outdated ==
  kind = "accel" /\ mUseAbsTimeStamp /\ (waiting = << >> \/ ~waiting[1].stamped) =>
    /\ mPendingEvent.timestamp <= now
    /\ mEnabled => mPendingEvent.timestamp < mEnabledTime

\* An initial event is given before anything is read, and puts in doubt what
\* was posted before it.
Starts ==
  /\ doubt <= Len(waiting)
  /\ kind \notin Starting => doubt = 0 /\ ~mHasPendingEvent
  /\ mHasPendingEvent => pc = "idle"
  /\ mHasPendingEvent /\ doubt = 0 /\ line # << >> => line[1].code \in Axis

Readings == [data : Known(kind), time : Time, stamped : BOOLEAN]

HistoryOK ==
  /\ told \in Known(kind)
  /\ waiting \in Seq(Readings)
  /\ doubt \in Nat

FeedInv == FrameInv /\ HistoryOK /\ Explained /\ Decoded /\ Dated /\ Outdated /\ Starts

-----------------------------------------------------------------------------
(* Lines and what explains them.                                           *)

LEMMA EventParts ==
  ASSUME NEW e \in InputEvent
  PROVE  /\ e.code \in Axis \cup {"SYN_TIME_SEC", "SYN_TIME_NSEC", "SYN_REPORT"}
         /\ e.code \in Axis => e.value \in Value
         /\ e.code \in {"SYN_TIME_SEC", "SYN_TIME_NSEC"} => e.value \in Nat
  BY FrameAssumption DEF InputEvent, Time

\* S without its first d elements is T.
Later(S, T, d) ==
  /\ Len(S) \in Nat /\ Len(T) \in Nat /\ d \in Nat /\ Len(S) = Len(T) + d
  /\ \A k \in 1 .. Len(T) : T[k] = S[k + d]

\* G counts what F does from the second event on.
Lowered(G, F, n) == \A p \in 0 .. n : G[p] = F[p + 1] - F[1]

\* The oldest event is gone.
LEMMA ShiftCounted ==
  ASSUME NEW L, NEW W, NEW n \in Nat,
         NEW F, Counted(F, L, W), Framed(F, L, W),
         NEW M, Later(L, M, 1), Len(M) = n,
         NEW V, Later(W, V, F[1])
  PROVE  \E G :
           /\ Lowered(G, F, n)
           /\ Counted(G, M, V) /\ Framed(G, M, V)
  <1>0. PICK w \in Nat, v \in Nat, u \in Nat :
          /\ w = Len(W) /\ v = Len(V) /\ u = F[1] /\ w = v + u /\ Len(L) = n + 1
    BY DEF Later
  <1>A. w = v + u
    BY <1>0, Zenon
  <1>V. \A k \in 1 .. v : V[k] = W[k + u]
    BY <1>0 DEF Later
  <1>M. \A p \in 1 .. n : M[p] = L[p + 1]
    BY DEF Later
  <1>F. F \in [0 .. (n + 1) -> 0 .. w] /\ F[0] = 0 /\ F[n + 1] = w
    BY <1>0, Zenon DEF Counted
  <1>C. \A p \in 1 .. (n + 1) :
          F[p] = IF L[p].code = "SYN_REPORT" THEN F[p - 1] + 1 ELSE F[p - 1]
    BY <1>0, Zenon DEF Counted
  <1>L. \A p, q \in 0 .. (n + 1) : p <= q => F[p] <= F[q]
    BY <1>0, Zenon DEF Counted
  <1>T. \A p \in 0 .. (n + 1) : F[p] \in Nat /\ F[p] <= w
    BY <1>F
  <1>U. u \in {0, 1}
    <2>1. 1 \in 1 .. (n + 1) /\ 1 - 1 = 0
      OBVIOUS
    <2>2. F[1] = IF L[1].code = "SYN_REPORT" THEN 0 + 1 ELSE 0
      BY <1>C, <1>F, <2>1
    <2> QED BY <1>0, <2>2
  \* The value at the next place.
  <1>N. ASSUME NEW p \in 0 .. n
        PROVE  \E q \in 1 .. (n + 1), x \in Nat :
                 /\ q = p + 1 /\ q - 1 = p /\ x = F[q] /\ u <= x /\ x <= w
    <2>1. PICK q \in 1 .. (n + 1) : q = p + 1 /\ q - 1 = p /\ q \in 0 .. (n + 1) /\ 1 <= q
      <3>1. p + 1 \in 1 .. (n + 1)
        OBVIOUS
      <3> QED BY <3>1
    <2>2. 1 \in 0 .. (n + 1)
      OBVIOUS
    <2>3. F[1] <= F[q] /\ F[q] \in Nat /\ F[q] <= w
      BY <1>L, <1>T, <2>1, <2>2
    <2> QED BY <1>0, <2>1, <2>3
  <1>G. PICK G \in [0 .. n -> 0 .. v] : \A p \in 0 .. n : G[p] = F[p + 1] - u
    <2>1. \A p \in 0 .. n : F[p + 1] - u \in 0 .. v
      <3> TAKE p \in 0 .. n
      <3>1. PICK q \in 1 .. (n + 1), x \in Nat :
              q = p + 1 /\ q - 1 = p /\ x = F[q] /\ u <= x /\ x <= w
        BY <1>N
      <3>2. x - u \in 0 .. v
        BY <1>0, <3>1
      <3> QED BY <3>1, <3>2
    <2> DEFINE g == [p \in 0 .. n |-> F[p + 1] - u]
    <2>2. g \in [0 .. n -> 0 .. v]
      BY <2>1
    <2>3. \A p \in 0 .. n : g[p] = F[p + 1] - u
      OBVIOUS
    <2> HIDE DEF g
    <2> QED BY <2>2, <2>3
  <1>H. ASSUME NEW p \in 0 .. n
        PROVE  \E q \in 1 .. (n + 1), x \in Nat, y \in Nat :
                 /\ q = p + 1 /\ q - 1 = p /\ x = F[q] /\ u <= x /\ x <= w
                 /\ y = G[p] /\ y = x - u /\ y <= v
    <2>1. PICK q \in 1 .. (n + 1), x \in Nat :
            q = p + 1 /\ q - 1 = p /\ x = F[q] /\ u <= x /\ x <= w
      BY <1>N
    <2>2. G[p] = x - u
      BY <1>G, <2>1
    <2>3. x - u \in Nat /\ x - u <= v
      <3>1. u <= x /\ x <= w
        BY <2>1, Zenon
      <3> QED BY <1>A, <3>1
    <2> QED BY <2>1, <2>2, <2>3
  <1>4. Counted(G, M, V)
    <2>1. G[0] = 0 /\ G[n] = v
      <3>1. 0 \in 0 .. n /\ n \in 0 .. n /\ 0 + 1 = 1
        OBVIOUS
      <3>2. G[0] = u - u /\ G[n] = w - u
        BY <1>0, <1>F, <1>G, <3>1
      <3> QED BY <1>0, <3>2
    <2>2. ASSUME NEW p \in 1 .. n
          PROVE  G[p] = IF M[p].code = "SYN_REPORT" THEN G[p - 1] + 1 ELSE G[p - 1]
      <3>1. PICK o \in 0 .. n : o = p - 1 /\ o + 1 = p /\ p \in 0 .. n
        <4>1. p - 1 \in 0 .. n
          OBVIOUS
        <4> QED BY <4>1
      <3>2. PICK q \in 1 .. (n + 1), x \in Nat, y \in Nat :
              /\ q = p + 1 /\ q - 1 = p /\ x = F[q] /\ u <= x /\ x <= w
              /\ y = G[p] /\ y = x - u /\ y <= v
        BY <1>H, <3>1
      <3>3. PICK r \in 1 .. (n + 1), a \in Nat, b \in Nat :
              /\ r = o + 1 /\ r - 1 = o /\ a = F[r] /\ u <= a /\ a <= w
              /\ b = G[o] /\ b = a - u /\ b <= v
        BY <1>H, <3>1
      <3>4. M[p] = L[q] /\ r = p
        BY <1>M, <3>1, <3>2, <3>3
      <3>5. x = IF L[q].code = "SYN_REPORT" THEN a + 1 ELSE a
        BY <1>C, <3>2, <3>3, <3>4
      <3>6. (x = a + 1 => y = b + 1) /\ (x = a => y = b)
        <4>1. y = x - u /\ b = a - u
          BY <3>2, <3>3, Zenon
        <4> QED BY <4>1
      <3>7. y = IF M[p].code = "SYN_REPORT" THEN b + 1 ELSE b
        BY <3>4, <3>5, <3>6, Zenon
      <3> QED BY <3>1, <3>2, <3>3, <3>7
    <2>3. ASSUME NEW p \in 0 .. n, NEW q \in 0 .. n, p <= q PROVE G[p] <= G[q]
      <3>1. PICK r \in 1 .. (n + 1), x \in Nat, y \in Nat :
              /\ r = p + 1 /\ r - 1 = p /\ x = F[r] /\ u <= x /\ x <= w
              /\ y = G[p] /\ y = x - u /\ y <= v
        BY <1>H
      <3>2. PICK t \in 1 .. (n + 1), a \in Nat, b \in Nat :
              /\ t = q + 1 /\ t - 1 = q /\ a = F[t] /\ u <= a /\ a <= w
              /\ b = G[q] /\ b = a - u /\ b <= v
        BY <1>H
      <3>3. r <= t /\ r \in 0 .. (n + 1) /\ t \in 0 .. (n + 1)
        BY <2>3, <3>1, <3>2
      <3>4. x <= a
        BY <1>L, <3>1, <3>2, <3>3
      <3>5. y <= b
        <4>1. y = x - u /\ b = a - u
          BY <3>1, <3>2, Zenon
        <4> QED BY <3>4, <4>1
      <3> QED BY <3>1, <3>2, <3>5
    <2> QED BY <1>0, <2>1, <2>2, <2>3, Zenon DEF Counted
  <1>5. Framed(G, M, V)
    <2> SUFFICES ASSUME NEW p \in 1 .. n
                 PROVE  /\ M[p].code # "SYN_REPORT" => p < n /\ G[p] < v
                        /\ M[p].code = "SYN_REPORT" =>
                             /\ p < n => M[p + 1].code \in Axis
                             /\ p > 1 /\ V[G[p]].stamped => M[p - 1].code = "SYN_TIME_NSEC"
                        /\ M[p].code = "SYN_TIME_SEC" =>
                             /\ M[p + 1].code = "SYN_TIME_NSEC"
                             /\ M[p].value * Second + M[p + 1].value = V[G[p] + 1].time
                        /\ M[p].code = "SYN_TIME_NSEC" =>
                             /\ M[p + 1].code = "SYN_REPORT" /\ V[G[p] + 1].stamped
                             /\ p > 1 => M[p - 1].code = "SYN_TIME_SEC"
      BY <1>0, Zenon DEF Framed
    <2>1. PICK q \in 1 .. (n + 1), x \in Nat, y \in Nat :
            /\ q = p + 1 /\ q - 1 = p /\ x = F[q] /\ u <= x /\ x <= w
            /\ y = G[p] /\ y = x - u /\ y <= v
      <3>1. p \in 0 .. n
        OBVIOUS
      <3> QED BY <1>H, <3>1
    <2>A. y = x - u /\ u <= x /\ x <= w /\ y <= v
      BY <2>1, Zenon
    <2>2. /\ q > 1 /\ M[p] = L[q] /\ (p < n <=> q < n + 1)
          /\ p < n => M[p + 1] = L[q + 1]
          /\ p > 1 => M[p - 1] = L[q - 1]
      <3>1. p < n => p + 1 \in 1 .. n
        OBVIOUS
      <3>2. p > 1 => p - 1 \in 1 .. n /\ (p - 1) + 1 = q - 1
        BY <2>1
      <3>3. q > 1 /\ (p < n <=> q < n + 1)
        BY <2>1
      <3> QED BY <1>M, <2>1, <3>1, <3>2, <3>3
    <2>3. /\ L[q].code # "SYN_REPORT" => q < n + 1 /\ F[q] < w
          /\ L[q].code = "SYN_REPORT" =>
               /\ q < n + 1 => L[q + 1].code \in Axis
               /\ W[F[q]].stamped => L[q - 1].code = "SYN_TIME_NSEC"
          /\ L[q].code = "SYN_TIME_SEC" =>
               /\ L[q + 1].code = "SYN_TIME_NSEC"
               /\ L[q].value * Second + L[q + 1].value = W[F[q] + 1].time
          /\ L[q].code = "SYN_TIME_NSEC" =>
               /\ L[q + 1].code = "SYN_REPORT" /\ W[F[q] + 1].stamped
               /\ L[q - 1].code = "SYN_TIME_SEC"
      BY <1>0, <2>2, Zenon DEF Framed
    <2>4. F[q] < w => G[p] < v /\ V[G[p] + 1] = W[F[q] + 1]
      <3>1. ASSUME x < w PROVE y < v /\ y + 1 \in 1 .. v /\ (y + 1) + u = x + 1
        BY <1>A, <2>A, <3>1
      <3> QED BY <1>V, <2>1, <3>1
    <2>5. L[q].code = "SYN_REPORT" => V[G[p]] = W[F[q]]
      <3> SUFFICES ASSUME L[q].code = "SYN_REPORT" PROVE V[y] = W[x]
        BY <2>1
      <3>1. PICK z \in Nat : z = F[p] /\ u <= z /\ x = z + 1
        <4>1. p \in 0 .. (n + 1) /\ 1 \in 0 .. (n + 1) /\ 1 <= p
          OBVIOUS
        <4>2. F[1] <= F[p] /\ F[p] \in Nat
          BY <1>L, <1>T, <4>1
        <4>3. F[q] = F[p] + 1
          BY <1>C, <2>1
        <4> QED BY <1>0, <2>1, <4>2, <4>3
      <3>2. y \in 1 .. v /\ y + u = x
        <4>1. u <= z /\ x = z + 1
          BY <3>1, Zenon
        <4> QED BY <1>A, <2>A, <4>1
      <3> QED BY <1>V, <3>2
    <2> QED BY <2>2, <2>3, <2>4, <2>5, Zenon
  <1>6. Lowered(G, F, n)
    BY <1>0, <1>G DEF Lowered
  <1> QED BY <1>4, <1>5, <1>6

\* The first two events of a line.
LEMMA FirstEvents ==
  ASSUME NEW L, NEW W, Len(L) \in Nat \ {0}, Len(W) \in Nat,
         NEW F, Counted(F, L, W), Framed(F, L, W)
  PROVE  /\ F[1] = IF L[1].code = "SYN_REPORT" THEN 1 ELSE 0
         /\ Len(W) > 0
         /\ L[1].code # "SYN_REPORT" => Len(L) > 1
         /\ L[1].code = "SYN_REPORT" /\ Len(L) > 1 => L[2].code \in Axis
         /\ L[1].code = "SYN_TIME_SEC" =>
              /\ L[2].code = "SYN_TIME_NSEC" /\ W[1].stamped
              /\ L[1].value * Second + L[2].value = W[1].time
         /\ L[1].code = "SYN_TIME_NSEC" =>
              L[2].code = "SYN_REPORT" /\ W[1].stamped
         /\ L[1].code \in Axis =>
              /\ L[2].code # "SYN_TIME_NSEC"
              /\ L[2].code = "SYN_REPORT" => ~W[1].stamped
  <1>0. /\ 1 \in 1 .. Len(L) /\ 1 - 1 = 0 /\ 2 - 1 = 1 /\ 1 + 1 = 2 /\ 0 + 1 = 1
        /\ Len(L) > 1 => 2 \in 1 .. Len(L)
        /\ 2 > 1 /\ (1 < Len(L) <=> Len(L) > 1)
    OBVIOUS
  <1>1. F[0] = 0 /\ F[1] = IF L[1].code = "SYN_REPORT" THEN 1 ELSE 0
    BY <1>0 DEF Counted
  <1>2. Len(L) > 1 => F[2] = IF L[2].code = "SYN_REPORT" THEN F[1] + 1 ELSE F[1]
    BY <1>0 DEF Counted
  <1>3. Len(W) > 0
    <2>1. F[1] <= Len(W)
      BY <1>0 DEF Counted
    <2>2. L[1].code # "SYN_REPORT" => F[1] < Len(W)
      BY <1>0 DEF Framed
    <2> QED BY <1>1, <2>1, <2>2
  <1>4. /\ L[1].code # "SYN_REPORT" => Len(L) > 1
        /\ L[1].code = "SYN_REPORT" /\ Len(L) > 1 => L[2].code \in Axis
        /\ L[1].code = "SYN_TIME_SEC" =>
             /\ L[2].code = "SYN_TIME_NSEC"
             /\ L[1].value * Second + L[2].value = W[F[1] + 1].time
        /\ L[1].code = "SYN_TIME_NSEC" =>
             L[2].code = "SYN_REPORT" /\ W[F[1] + 1].stamped
    BY <1>0, Zenon DEF Framed
  <1>5. Len(L) > 1 =>
          /\ L[2].code = "SYN_TIME_NSEC" =>
               L[1].code = "SYN_TIME_SEC" /\ W[F[2] + 1].stamped
          /\ L[2].code = "SYN_REPORT" /\ W[F[2]].stamped => L[1].code = "SYN_TIME_NSEC"
    <2> HAVE Len(L) > 1
    <2>1. /\ L[2].code = "SYN_TIME_NSEC" =>
               W[F[2] + 1].stamped /\ (2 > 1 => L[2 - 1].code = "SYN_TIME_SEC")
          /\ L[2].code = "SYN_REPORT" =>
               (2 > 1 /\ W[F[2]].stamped => L[2 - 1].code = "SYN_TIME_NSEC")
      BY <1>0, Zenon DEF Framed
    <2> QED BY <1>0, <2>1
  <1>6. {"SYN_TIME_SEC", "SYN_TIME_NSEC", "SYN_REPORT"} \cap Axis = {}
    BY FrameAssumption
  <1>7. L[1].code \in Axis => L[1].code # "SYN_TIME_SEC" /\ L[1].code # "SYN_TIME_NSEC"
                              /\ L[1].code # "SYN_REPORT"
    BY <1>6
  <1>8. L[1].code # "SYN_REPORT" =>
          /\ F[1] = 0 /\ F[1] + 1 = 1
          /\ F[2] = IF L[2].code = "SYN_REPORT" THEN 1 ELSE 0
    BY <1>1, <1>2, <1>4
  <1>9. L[1].code = "SYN_TIME_SEC" => W[1].stamped
    <2> HAVE L[1].code = "SYN_TIME_SEC"
    <2>1. F[2] = 0 /\ F[2] + 1 = 1
      BY <1>4, <1>8
    <2> QED BY <1>4, <1>5, <2>1
  <1> QED BY <1>1, <1>3, <1>4, <1>5, <1>7, <1>8, <1>9

-----------------------------------------------------------------------------
\* The line without its first event is explained by what that event says.
LEMMA ShiftExplains ==
  ASSUME NEW k, NEW L, NEW W, NEW d, NEW n \in Nat, NEW t, NEW s,
         Explains(k, L, W, d, n, t, s),
         NEW M, Later(L, M, 1),
         NEW b, b = (IF L[1].code = "SYN_REPORT" THEN 1 ELSE 0),
         NEW V, Later(W, V, b)
  PROVE  Explains(k, M, V, said(k, d, L[1]), IF n > b THEN n - b ELSE 0, t, s)
  <1> DEFINE c == IF n > b THEN n - b ELSE 0
  <1>1. PICK F, D :
          /\ D \in [0 .. Len(L) -> Known(k)]
          /\ Counted(F, L, W) /\ Framed(F, L, W)
          /\ Follows(k, D, d, L) /\ Matched(F, D, L, W, n) /\ Ends(k, D, L, t, s)
    BY DEF Explains
  <1>2. PICK m \in Nat : Len(M) = m /\ Len(L) = m + 1 /\ Len(W) \in Nat
    BY DEF Later
  <1>3. Len(L) \in Nat \ {0}
    BY <1>2
  <1>4. F[1] = b
    BY <1>1, <1>2, <1>3, FirstEvents
  <1>5. PICK G \in [0 .. m -> 0 .. Len(V)] :
          /\ \A p \in 0 .. m : G[p] = F[p + 1] - F[1]
          /\ Counted(G, M, V) /\ Framed(G, M, V)
    <2>1. Later(W, V, F[1])
      BY <1>4, Zenon
    <2>2. Counted(F, L, W) /\ Framed(F, L, W) /\ Len(M) = m
      BY <1>1, <1>2, Zenon
    <2>3. Later(L, M, 1)
      OBVIOUS
    <2>4. PICK G :
            /\ Lowered(G, F, m)
            /\ Counted(G, M, V) /\ Framed(G, M, V)
      BY <2>1, <2>2, <2>3, ShiftCounted, Zenon
    <2>5. G \in [0 .. m -> 0 .. Len(V)]
      BY <2>2, <2>4 DEF Counted
    <2> QED BY <2>4, <2>5 DEF Lowered
  <1>6. \A p \in 1 .. m : M[p] = L[p + 1]
    BY <1>2 DEF Later
  <1> DEFINE E == [p \in 0 .. m |-> D[p + 1]]
  <1>7. \A p \in 0 .. m : p + 1 \in 0 .. (m + 1) /\ p + 1 \in 1 .. (m + 1) /\ (p + 1) - 1 = p
    OBVIOUS
  <1>8. D \in [0 .. (m + 1) -> Known(k)] /\ D[0] = d
    BY <1>1, <1>2 DEF Follows
  <1>9. \A p \in 1 .. (m + 1) : D[p] = said(k, D[p - 1], L[p])
    BY <1>1, <1>2, Zenon DEF Follows
  <1>10. E \in [0 .. m -> Known(k)] /\ \A p \in 0 .. m : E[p] = D[p + 1]
    BY <1>7, <1>8
  <1> HIDE DEF E, c
  <1>11. Follows(k, E, said(k, d, L[1]), M)
    <2>1. E[0] = said(k, d, L[1])
      <3>1. 0 \in 0 .. m /\ 1 \in 1 .. (m + 1) /\ 0 + 1 = 1 /\ 1 - 1 = 0
        OBVIOUS
      <3> QED BY <1>8, <1>9, <1>10, <3>1
    <2>2. ASSUME NEW p \in 1 .. m PROVE E[p] = said(k, E[p - 1], M[p])
      <3>1. PICK o \in 0 .. m : o = p - 1 /\ o + 1 = p /\ p \in 0 .. m
        <4>1. p - 1 \in 0 .. m
          OBVIOUS
        <4> QED BY <4>1
      <3>2. D[p + 1] = said(k, D[p], L[p + 1])
        BY <1>7, <1>9, <3>1
      <3> QED BY <1>6, <1>10, <3>1, <3>2
    <2> QED BY <1>2, <1>10, <2>1, <2>2 DEF Follows
  <1>12. Matched(G, E, M, V, c)
    <2> SUFFICES ASSUME NEW p \in 1 .. m, M[p].code = "SYN_REPORT", G[p] > c
                 PROVE  E[p] = V[G[p]].data
      BY <1>2 DEF Matched
    <2>1. PICK q \in 1 .. (m + 1) : q = p + 1 /\ M[p] = L[q] /\ E[p] = D[q]
                                    /\ G[p] = F[q] - b
      <3>1. p \in 0 .. m
        OBVIOUS
      <3> QED BY <1>4, <1>5, <1>6, <1>7, <1>10, <3>1
    <2>2. PICK w \in Nat, v \in Nat, x \in Nat, y \in Nat :
            w = Len(W) /\ v = Len(V) /\ w = v + b /\ x = F[q] /\ y = G[p] /\ x <= w
      <3>1. F[q] \in Nat /\ F[q] <= Len(W) /\ p \in 0 .. m
        BY <1>1, <1>2 DEF Counted
      <3>2. G[p] \in Nat
        BY <1>5, <3>1
      <3> QED BY <3>1, <3>2 DEF Later
    <2>3. y = x - b /\ y > c /\ w = v + b /\ x <= w
      BY <2>1, <2>2, Zenon
    <2>4. x > n /\ y \in 1 .. v /\ x = y + b
      BY <2>3 DEF c
    <2>5. D[q] = W[F[q]].data
      BY <1>1, <1>2, <2>1, <2>2, <2>4 DEF Matched
    <2>6. V[y] = W[y + b]
      BY <2>2, <2>4 DEF Later
    <2> QED BY <2>1, <2>2, <2>4, <2>5, <2>6
  <1>13. Ends(k, E, M, t, s)
    <2>1. E[m] = D[m + 1]
      BY <1>10
    <2>2. \A a : (\A p \in 1 .. (m + 1) : L[p].code # a) => \A p \in 1 .. m : M[p].code # a
      BY <1>6, <1>7
    <2> QED BY <1>1, <1>2, <2>1, <2>2 DEF Ends
  <1> QED BY <1>2, <1>5, <1>10, <1>11, <1>12, <1>13 DEF Explains, c

\* Nothing is left to match once all readings are in doubt.
LEMMA DoubtExplains ==
  ASSUME NEW k, NEW L, NEW W, NEW d, NEW n, NEW t, NEW s,
         Len(L) \in Nat, Len(W) \in Nat, Explains(k, L, W, d, n, t, s)
  PROVE  Explains(k, L, W, d, Len(W), t, s)
  <1>1. PICK F \in [0 .. Len(L) -> 0 .. Len(W)], D \in [0 .. Len(L) -> Known(k)] :
          /\ Counted(F, L, W) /\ Framed(F, L, W)
          /\ Follows(k, D, d, L) /\ Matched(F, D, L, W, n) /\ Ends(k, D, L, t, s)
    BY DEF Explains
  <1>2. \A p \in 1 .. Len(L) : F[p] <= Len(W) /\ F[p] \in Nat
    OBVIOUS
  <1>3. Matched(F, D, L, W, Len(W))
    BY <1>2 DEF Matched
  <1> QED BY <1>1, <1>3 DEF Explains

\* A driver told anew what the axes show will know what the old one did of an
\* axis the line tells of, and of the others what they show.
LEMMA RestartExplains ==
  ASSUME NEW k, NEW L, NEW W, NEW d, NEW n, NEW t, NEW s \in Known(k),
         Len(L) \in Nat, Len(W) \in Nat, Explains(k, L, W, d, n, t, s)
  PROVE  Explains(k, L, W, s, Len(W), s, s)
  <1>1. PICK F \in [0 .. Len(L) -> 0 .. Len(W)], D \in [0 .. Len(L) -> Known(k)] :
          /\ Counted(F, L, W) /\ Framed(F, L, W)
          /\ Follows(k, D, d, L) /\ Matched(F, D, L, W, n) /\ Ends(k, D, L, t, s)
    BY DEF Explains
  <1>2. PICK m \in Nat : m = Len(L)
    OBVIOUS
  <1> DEFINE writes(q, a) == L[q].code = a /\ taken(k, L[q].value)
             wrote(p, a) == \E q \in 1 .. p : writes(q, a)
             E == [p \in 0 .. m |->
                    [a \in AxesOf[k] |-> IF wrote(p, a) THEN D[p][a] ELSE s[a]]]
  <1>3. /\ D \in [0 .. m -> [AxesOf[k] -> Value \cup {0}]]
        /\ s \in [AxesOf[k] -> Value \cup {0}]
    BY <1>2 DEF Known
  <1>4. \A p \in 1 .. m : p \in 0 .. m /\ p - 1 \in 0 .. m
    OBVIOUS
  <1>5. \A p \in 1 .. m : D[p] = said(k, D[p - 1], L[p])
    BY <1>1, <1>2, Zenon DEF Follows
  <1>6. \A p \in 1 .. m, a \in AxesOf[k] :
          D[p][a] = IF writes(p, a) THEN L[p].value ELSE D[p - 1][a]
    BY <1>5 DEF said
  <1>7. \A p \in 1 .. m : \A a : wrote(p, a) <=> writes(p, a) \/ wrote(p - 1, a)
    <2> SUFFICES ASSUME NEW p \in 1 .. m, NEW a
                 PROVE  wrote(p, a) <=> writes(p, a) \/ wrote(p - 1, a)
      OBVIOUS
    <2> HIDE DEF writes
    <2>1. \A q : q \in 1 .. p <=> q \in 1 .. (p - 1) \/ q = p
      OBVIOUS
    <2> QED BY <2>1, Zenon
  <1>8. \A p \in 0 .. m, a \in AxesOf[k] :
          E[p][a] = IF wrote(p, a) THEN D[p][a] ELSE s[a]
    OBVIOUS
  <1>9. E \in [0 .. m -> [AxesOf[k] -> Value \cup {0}]]
    <2> HIDE DEF wrote
    <2> QED BY <1>3
  <1>10. E[0] = s
    <2>1. \A a : ~wrote(0, a)
      OBVIOUS
    <2>2. 0 \in 0 .. m
      OBVIOUS
    <2> HIDE DEF E, wrote
    <2>3. E[0] \in [AxesOf[k] -> Value \cup {0}]
      BY <1>9, <2>2
    <2>4. \A a \in AxesOf[k] : E[0][a] = s[a]
      BY <1>8, <2>1, <2>2
    <2> QED BY <1>3, <2>3, <2>4
  <1> HIDE DEF E, wrote
  <1>11. ASSUME NEW p \in 1 .. m PROVE E[p] = said(k, E[p - 1], L[p])
    <2>1. E[p] \in [AxesOf[k] -> Value \cup {0}] /\ p - 1 \in 0 .. m /\ p \in 0 .. m
      BY <1>4, <1>9
    <2>2. ASSUME NEW a \in AxesOf[k]
          PROVE  E[p][a] = IF writes(p, a) THEN L[p].value ELSE E[p - 1][a]
      BY <1>6, <1>7, <1>8, <2>1
    <2>3. E[p] = [a \in AxesOf[k] |-> E[p][a]]
      BY <2>1
    <2> QED BY <2>2, <2>3 DEF said
  <1> HIDE DEF writes
  <1>12. Follows(k, E, s, L)
    BY <1>2, <1>9, <1>10, <1>11 DEF Follows, Known
  <1>13. Ends(k, E, L, s, s)
    <2> SUFFICES ASSUME NEW a \in AxesOf[k], taken(k, s[a]) PROVE E[m][a] = s[a]
      BY <1>2 DEF Ends
    <2>1. m \in 0 .. m
      OBVIOUS
    <2>2. CASE wrote(m, a)
      <3>1. D[m][a] = t[a] /\ (t[a] = s[a] \/ \A p \in 1 .. m : L[p].code # a)
        BY <1>1, <1>2 DEF Ends
      <3>2. PICK q \in 1 .. m : L[q].code = a
        BY <2>2 DEF wrote, writes
      <3> QED BY <1>8, <2>1, <2>2, <3>1, <3>2
    <2>3. CASE ~wrote(m, a)
      BY <1>8, <2>1, <2>3
    <2> QED BY <2>2, <2>3
  <1>14. Matched(F, E, L, W, Len(W))
    <2>1. \A p \in 1 .. Len(L) : F[p] <= Len(W) /\ F[p] \in Nat
      OBVIOUS
    <2> QED BY <2>1 DEF Matched
  <1>15. E \in [0 .. Len(L) -> Known(k)]
    BY <1>2, <1>9 DEF Known
  <1> QED BY <1>1, <1>12, <1>13, <1>14, <1>15 DEF Explains

-----------------------------------------------------------------------------
\* M is L with X after it.
Joined(L, X, M) ==
  /\ Len(L) \in Nat /\ Len(X) \in Nat /\ Len(M) = Len(L) + Len(X)
  /\ \A p \in 1 .. Len(L) : M[p] = L[p]
  /\ \A i \in 1 .. Len(X) : M[Len(L) + i] = X[i]

\* X is the frame of z axes, f in order, that are new now, and of a stamp.
IsFrame(X, k, z, f, new, stamped, time) ==
  /\ z \in Nat \ {0} /\ f \in [1 .. z -> AxesOf[k]]
  /\ Len(X) = z + 1 + (IF stamped THEN 2 ELSE 0)
  /\ \A i \in 1 .. z : X[i].code = f[i] /\ X[i].value = new[f[i]]
  /\ stamped => /\ X[z + 1].code = "SYN_TIME_SEC" /\ X[z + 2].code = "SYN_TIME_NSEC"
                /\ X[z + 1].value * Second + X[z + 2].value = time
  /\ X[Len(X)].code = "SYN_REPORT"

\* Up to m, where a frame ends, G counts what F counts up to n.
Raised(F, G, n, m) ==
  /\ \A p \in 0 .. n : G[p] = F[p]
  /\ \A p \in n .. (m - 1) : G[p] = F[n]
  /\ G[m] = F[n] + 1

\* The codes of a frame, and its stamp.
FrameShape(X, z, stamped, time) ==
  /\ Len(X) \in Nat /\ Len(X) > 1 /\ X[1].code \in Axis
  /\ \A i \in 1 .. Len(X) :
       /\ i < Len(X) <=> X[i].code # "SYN_REPORT"
       /\ X[i].code \in Axis <=> i <= z
       /\ X[i].code = "SYN_TIME_SEC" =>
            /\ i + 1 \in 1 .. Len(X) /\ X[i + 1].code = "SYN_TIME_NSEC"
            /\ X[i].value * Second + X[i + 1].value = time
       /\ X[i].code = "SYN_TIME_NSEC" =>
            /\ i + 1 \in 1 .. Len(X) /\ X[i + 1].code = "SYN_REPORT" /\ stamped
            /\ i - 1 \in 1 .. Len(X) /\ X[i - 1].code = "SYN_TIME_SEC"
       /\ X[i].code = "SYN_REPORT" /\ stamped =>
            i - 1 \in 1 .. Len(X) /\ X[i - 1].code = "SYN_TIME_NSEC"

LEMMA FrameCodes ==
  ASSUME NEW k \in Kinds, NEW X, NEW z, NEW f, NEW new, NEW stamped \in BOOLEAN, NEW time,
         IsFrame(X, k, z, f, new, stamped, time)
  PROVE  FrameShape(X, z, stamped, time)
  <1>1. /\ z \in Nat \ {0} /\ Len(X) = z + 1 + (IF stamped THEN 2 ELSE 0)
        /\ stamped => Len(X) = z + 3
        /\ ~stamped => Len(X) = z + 1
        /\ X[Len(X)].code = "SYN_REPORT"
    BY DEF IsFrame
  <1>2. \A i \in 1 .. z : X[i].code \in Axis
    BY DEF IsFrame, Axis
  <1>3. stamped => /\ X[z + 1].code = "SYN_TIME_SEC" /\ X[z + 2].code = "SYN_TIME_NSEC"
                   /\ X[z + 1].value * Second + X[z + 2].value = time
    BY Zenon DEF IsFrame
  <1>4. \A c \in Axis : c \notin {"SYN_TIME_SEC", "SYN_TIME_NSEC", "SYN_REPORT"}
    BY FrameAssumption
  <1>5. ASSUME NEW i \in 1 .. Len(X)
        PROVE  /\ i < Len(X) <=> X[i].code # "SYN_REPORT"
               /\ X[i].code \in Axis <=> i <= z
               /\ X[i].code = "SYN_TIME_SEC" =>
                    /\ i + 1 \in 1 .. Len(X) /\ X[i + 1].code = "SYN_TIME_NSEC"
                    /\ X[i].value * Second + X[i + 1].value = time
               /\ X[i].code = "SYN_TIME_NSEC" =>
                    /\ i + 1 \in 1 .. Len(X) /\ X[i + 1].code = "SYN_REPORT" /\ stamped
                    /\ i - 1 \in 1 .. Len(X) /\ X[i - 1].code = "SYN_TIME_SEC"
               /\ X[i].code = "SYN_REPORT" /\ stamped =>
                    i - 1 \in 1 .. Len(X) /\ X[i - 1].code = "SYN_TIME_NSEC"
    <2>1. CASE i <= z
      <3>1. i \in 1 .. z /\ i < Len(X)
        BY <1>1, <2>1
      <3> QED BY <1>2, <1>4, <2>1, <3>1
    <2>2. CASE i = z + 1 /\ stamped
      <3>1. /\ i < Len(X) /\ ~(i <= z) /\ i + 1 = z + 2 /\ i + 1 \in 1 .. Len(X)
        BY <1>1, <2>2
      <3>2. /\ X[i].code = "SYN_TIME_SEC" /\ X[i + 1].code = "SYN_TIME_NSEC"
            /\ X[i].value * Second + X[i + 1].value = time
        BY <1>3, <2>2, <3>1, Zenon
      <3>3. X[i].code \notin Axis
        BY <1>4, <3>2
      <3> QED BY <3>1, <3>2, <3>3, Zenon
    <2>3. CASE i = z + 2 /\ stamped
      <3>1. /\ i < Len(X) /\ ~(i <= z) /\ i + 1 = Len(X) /\ i + 1 \in 1 .. Len(X)
            /\ i - 1 = z + 1 /\ i - 1 \in 1 .. Len(X)
        BY <1>1, <2>3
      <3>2. /\ X[i].code = "SYN_TIME_NSEC" /\ X[i + 1].code = "SYN_REPORT"
            /\ X[i - 1].code = "SYN_TIME_SEC"
        BY <1>1, <1>3, <2>3, <3>1, Zenon
      <3>3. X[i].code \notin Axis
        BY <1>4, <3>2
      <3> QED BY <2>3, <3>1, <3>2, <3>3, Zenon
    <2>4. CASE i = Len(X)
      <3>1. /\ ~(i < Len(X)) /\ ~(i <= z)
            /\ stamped => i - 1 = z + 2 /\ i - 1 \in 1 .. Len(X)
        BY <1>1, <2>4
      <3>2. /\ X[i].code = "SYN_REPORT" /\ stamped => X[i - 1].code = "SYN_TIME_NSEC"
        BY <1>1, <1>3, <2>4, <3>1, Zenon
      <3>3. X[i].code \notin Axis /\ X[i].code = "SYN_REPORT"
        BY <1>1, <1>4, <2>4
      <3> QED BY <3>1, <3>2, <3>3, Zenon
    <2>5. i <= z \/ (i = z + 1 /\ stamped) \/ (i = z + 2 /\ stamped) \/ i = Len(X)
      BY <1>1
    <2> QED BY <2>1, <2>2, <2>3, <2>4, <2>5
  <1>6. Len(X) \in Nat /\ Len(X) > 1 /\ X[1].code \in Axis
    <2>1. 1 \in 1 .. z
      BY <1>1
    <2> QED BY <1>1, <1>2, <2>1
  <1> QED BY <1>5, <1>6, Zenon DEF FrameShape

\* One more frame is posted.
LEMMA ExtendCounted ==
  ASSUME NEW L, NEW W, NEW F, Counted(F, L, W), Framed(F, L, W),
         NEW X, NEW z, NEW r, FrameShape(X, z, r.stamped, r.time),
         NEW M, Joined(L, X, M), NEW V, Joined(W, << r >>, V)
  PROVE  \E G : Raised(F, G, Len(L), Len(M)) /\ Counted(G, M, V) /\ Framed(G, M, V)
  <1>0. PICK n \in Nat, x \in Nat, m \in Nat, w \in Nat, v \in Nat :
          /\ n = Len(L) /\ x = Len(X) /\ m = Len(M) /\ w = Len(W) /\ m = n + x
          /\ v = Len(V) /\ v = w + 1
    BY DEF Joined
  <1>X. /\ x > 1 /\ X[1].code \in Axis
        /\ \A i \in 1 .. x :
             /\ i < x <=> X[i].code # "SYN_REPORT"
             /\ X[i].code = "SYN_TIME_SEC" =>
                  /\ i + 1 \in 1 .. x /\ X[i + 1].code = "SYN_TIME_NSEC"
                  /\ X[i].value * Second + X[i + 1].value = r.time
             /\ X[i].code = "SYN_TIME_NSEC" =>
                  /\ i + 1 \in 1 .. x /\ X[i + 1].code = "SYN_REPORT" /\ r.stamped
                  /\ i - 1 \in 1 .. x /\ X[i - 1].code = "SYN_TIME_SEC"
             /\ X[i].code = "SYN_REPORT" /\ r.stamped =>
                  i - 1 \in 1 .. x /\ X[i - 1].code = "SYN_TIME_NSEC"
    BY <1>0, Zenon DEF FrameShape
  <1>A. m = n + x /\ x > 1
    BY <1>0, <1>X, Zenon
  <1>L. \A p \in 1 .. n : M[p] = L[p]
    BY <1>0 DEF Joined
  <1>M. \A i \in 1 .. x : M[n + i] = X[i]
    BY <1>0 DEF Joined
  <1>V. (\A j \in 1 .. w : V[j] = W[j]) /\ V[w + 1] = r
    <2>1. Len(<< r >>) = 1 /\ << r >>[1] = r /\ 1 \in 1 .. 1
      OBVIOUS
    <2> QED BY <1>0, <2>1 DEF Joined
  <1>F. F \in [0 .. n -> 0 .. w] /\ F[0] = 0 /\ F[n] = w
    BY <1>0, Zenon DEF Counted
  <1>C. \A p \in 1 .. n : F[p] = IF L[p].code = "SYN_REPORT" THEN F[p - 1] + 1 ELSE F[p - 1]
    BY <1>0, Zenon DEF Counted
  <1>D. \A p, q \in 0 .. n : p <= q => F[p] <= F[q]
    BY <1>0, Zenon DEF Counted
  <1>G. PICK G \in [0 .. m -> 0 .. (w + 1)] :
          /\ \A p \in 0 .. n : G[p] = F[p]
          /\ \A p \in n .. (m - 1) : G[p] = w
          /\ G[m] = w + 1
    <2> DEFINE g == [p \in 0 .. m |-> IF p <= n THEN F[p] ELSE IF p < m THEN w ELSE w + 1]
    <2>1. \A p \in 0 .. n : F[p] \in 0 .. (w + 1) /\ p \in 0 .. m /\ p <= n
      BY <1>A, <1>F
    <2>2. \A p \in n .. (m - 1) : p \in 0 .. m /\ p < m /\ (p <= n => p = n)
      BY <1>A
    <2>3. m \in 0 .. m /\ ~(m <= n) /\ ~(m < m) /\ w \in 0 .. (w + 1) /\ w + 1 \in 0 .. (w + 1)
      BY <1>A
    <2>4. \A p \in 0 .. m : p <= n => p \in 0 .. n
      OBVIOUS
    <2>5. g \in [0 .. m -> 0 .. (w + 1)]
      BY <2>1, <2>3, <2>4
    <2>6. \A p \in 0 .. m : g[p] = IF p <= n THEN F[p] ELSE IF p < m THEN w ELSE w + 1
      OBVIOUS
    <2> HIDE DEF g
    <2>7. \A p \in 0 .. n : g[p] = F[p]
      BY <2>1, <2>6
    <2>8. \A p \in n .. (m - 1) : g[p] = w
      BY <1>F, <2>2, <2>6
    <2>9. g[m] = w + 1
      BY <2>3, <2>6
    <2> QED BY <2>5, <2>7, <2>8, <2>9
  \* A place of the line is one of the old line or one of the frame.
  <1>P. ASSUME NEW p \in 1 .. m
        PROVE  \/ p \in 1 .. n /\ p \in 0 .. n /\ p - 1 \in 0 .. n /\ M[p] = L[p]
                  /\ p < m
               \/ \E i \in 1 .. x : /\ p = n + i /\ i = p - n /\ M[p] = X[i]
                                    /\ p - 1 \in n .. (m - 1) /\ (p < m <=> i < x)
                                    /\ p \in n .. m
    <2>1. CASE p <= n
      <3>1. p \in 1 .. n /\ p \in 0 .. n /\ p - 1 \in 0 .. n /\ p < m
        BY <1>A, <2>1
      <3> QED BY <1>L, <3>1
    <2>2. CASE ~(p <= n)
      <3>1. PICK i \in 1 .. x : i = p - n /\ p = n + i
        <4>1. p - n \in 1 .. x /\ p = n + (p - n)
          BY <1>A, <2>2
        <4> QED BY <4>1
      <3>2. p - 1 \in n .. (m - 1) /\ (p < m <=> i < x) /\ p \in n .. m
        BY <1>A, <2>2, <3>1
      <3> QED BY <1>M, <3>1, <3>2
    <2> QED BY <2>1, <2>2
  <1>4. Counted(G, M, V)
    <2>1. G[0] = 0 /\ G[m] = w + 1
      <3>1. 0 \in 0 .. n
        OBVIOUS
      <3> QED BY <1>F, <1>G, <3>1
    <2>2. ASSUME NEW p \in 1 .. m
          PROVE  G[p] = IF M[p].code = "SYN_REPORT" THEN G[p - 1] + 1 ELSE G[p - 1]
      <3>1. CASE p \in 1 .. n /\ p \in 0 .. n /\ p - 1 \in 0 .. n /\ M[p] = L[p]
        BY <1>C, <1>G, <3>1
      <3>2. CASE \E i \in 1 .. x : /\ p = n + i /\ i = p - n /\ M[p] = X[i]
                                   /\ p - 1 \in n .. (m - 1) /\ (p < m <=> i < x)
                                   /\ p \in n .. m
        <4>1. PICK i \in 1 .. x : /\ M[p] = X[i] /\ p - 1 \in n .. (m - 1)
                                  /\ (p < m <=> i < x) /\ p \in n .. m
          BY <3>2
        <4>2. G[p - 1] = w
          BY <1>G, <4>1
        <4>3. p < m <=> M[p].code # "SYN_REPORT"
          BY <1>X, <4>1
        <4>4. p < m => p \in n .. (m - 1)
          BY <4>1
        <4>5. ~(p < m) => p = m
          BY <4>1
        <4> QED BY <1>G, <4>2, <4>3, <4>4, <4>5
      <3> QED BY <1>P, <3>1, <3>2
    <2>3. ASSUME NEW p \in 0 .. m, NEW q \in 0 .. m, p <= q PROVE G[p] <= G[q]
      <3>1. \A j \in 0 .. m : j \in 0 .. n \/ j \in n .. (m - 1) \/ j = m
        BY <1>A
      <3>2. \A j \in 0 .. n : G[j] = F[j] /\ F[j] \in Nat /\ F[j] <= w
        BY <1>F, <1>G
      <3>3. \A j \in n .. (m - 1) : G[j] = w
        BY <1>G
      <3>4. CASE q \in 0 .. n
        <4>1. p \in 0 .. n
          BY <2>3, <3>4
        <4> QED BY <1>D, <2>3, <3>2, <3>4, <4>1
      <3>5. CASE q \in n .. (m - 1)
        <4>1. p \in 0 .. n \/ p \in n .. (m - 1)
          BY <2>3, <3>1, <3>5
        <4> QED BY <3>2, <3>3, <3>5, <4>1
      <3>6. CASE q = m
        <4>1. G[p] \in 0 .. (w + 1)
          BY <1>G
        <4> QED BY <1>G, <3>6, <4>1
      <3> QED BY <3>1, <3>4, <3>5, <3>6
    <2> QED BY <1>0, <1>G, <2>1, <2>2, <2>3, Zenon DEF Counted
  <1>5. Framed(G, M, V)
    <2> SUFFICES ASSUME NEW p \in 1 .. m
                 PROVE  /\ M[p].code # "SYN_REPORT" => p < m /\ G[p] < v
                        /\ M[p].code = "SYN_REPORT" =>
                             /\ p < m => M[p + 1].code \in Axis
                             /\ p > 1 /\ V[G[p]].stamped => M[p - 1].code = "SYN_TIME_NSEC"
                        /\ M[p].code = "SYN_TIME_SEC" =>
                             /\ M[p + 1].code = "SYN_TIME_NSEC"
                             /\ M[p].value * Second + M[p + 1].value = V[G[p] + 1].time
                        /\ M[p].code = "SYN_TIME_NSEC" =>
                             /\ M[p + 1].code = "SYN_REPORT" /\ V[G[p] + 1].stamped
                             /\ p > 1 => M[p - 1].code = "SYN_TIME_SEC"
      <3>1. m = Len(M) /\ v = Len(V)
        BY <1>0, Zenon
      <3> QED BY <3>1, ZenonT(30) DEF Framed
    <2>1. CASE p \in 1 .. n /\ p \in 0 .. n /\ p - 1 \in 0 .. n /\ M[p] = L[p] /\ p < m
      <3>1. G[p] = F[p] /\ F[p] \in Nat /\ F[p] <= w
        BY <1>F, <1>G, <2>1
      <3>2. /\ L[p].code # "SYN_REPORT" => p < n /\ F[p] < w
            /\ L[p].code = "SYN_REPORT" =>
                 /\ p < n => L[p + 1].code \in Axis
                 /\ p > 1 /\ W[F[p]].stamped => L[p - 1].code = "SYN_TIME_NSEC"
            /\ L[p].code = "SYN_TIME_SEC" =>
                 /\ L[p + 1].code = "SYN_TIME_NSEC"
                 /\ L[p].value * Second + L[p + 1].value = W[F[p] + 1].time
            /\ L[p].code = "SYN_TIME_NSEC" =>
                 /\ L[p + 1].code = "SYN_REPORT" /\ W[F[p] + 1].stamped
                 /\ p > 1 => L[p - 1].code = "SYN_TIME_SEC"
        <4>1. p \in 1 .. Len(L)
          BY <1>0, <2>1
        <4>2. Framed(F, L, W)
          OBVIOUS
        <4> QED BY <1>0, <4>1, <4>2, Zenon DEF Framed
      <3>3. p < n => M[p + 1] = L[p + 1]
        <4>1. p < n => p + 1 \in 1 .. n
          OBVIOUS
        <4> QED BY <1>L, <4>1
      <3>4. p > 1 => M[p - 1] = L[p - 1]
        <4>1. p > 1 => p - 1 \in 1 .. n
          BY <2>1
        <4> QED BY <1>L, <4>1
      <3>5. F[p] < w => V[G[p] + 1] = W[F[p] + 1] /\ G[p] < v
        <4>1. F[p] < w => F[p] + 1 \in 1 .. w /\ F[p] < v
          BY <1>0, <3>1
        <4> QED BY <1>V, <3>1, <4>1
      <3>6. L[p].code = "SYN_REPORT" => V[G[p]] = W[F[p]]
        <4> HAVE L[p].code = "SYN_REPORT"
        <4>1. F[p] = F[p - 1] + 1 /\ F[p - 1] \in Nat
          BY <1>C, <1>F, <2>1
        <4>2. F[p] \in 1 .. w
          BY <3>1, <4>1
        <4> QED BY <1>V, <3>1, <4>2
      <3>7. L[p].code = "SYN_REPORT" => M[p + 1].code \in Axis
        <4>1. CASE p < n
          BY <3>2, <3>3, <4>1
        <4>2. CASE ~(p < n)
          <5>1. p + 1 = n + 1 /\ 1 \in 1 .. x
            BY <1>A, <2>1, <4>2
          <5> QED BY <1>M, <1>X, <5>1
        <4> QED BY <4>1, <4>2
      <3> QED BY <2>1, <3>2, <3>3, <3>4, <3>5, <3>6, <3>7, Zenon
    <2>2. CASE \E i \in 1 .. x : /\ p = n + i /\ i = p - n /\ M[p] = X[i]
                                 /\ p - 1 \in n .. (m - 1) /\ (p < m <=> i < x)
                                 /\ p \in n .. m
      <3>1. PICK i \in 1 .. x : /\ p = n + i /\ M[p] = X[i]
                                /\ (p < m <=> i < x) /\ p \in n .. m
        BY <2>2
      <3>2. /\ i < x <=> X[i].code # "SYN_REPORT"
            /\ X[i].code = "SYN_TIME_SEC" =>
                 /\ i + 1 \in 1 .. x /\ X[i + 1].code = "SYN_TIME_NSEC"
                 /\ X[i].value * Second + X[i + 1].value = r.time
            /\ X[i].code = "SYN_TIME_NSEC" =>
                 /\ i + 1 \in 1 .. x /\ X[i + 1].code = "SYN_REPORT" /\ r.stamped
                 /\ i - 1 \in 1 .. x /\ X[i - 1].code = "SYN_TIME_SEC"
            /\ X[i].code = "SYN_REPORT" /\ r.stamped =>
                 i - 1 \in 1 .. x /\ X[i - 1].code = "SYN_TIME_NSEC"
        BY <1>X
      <3>3. p < m => G[p] = w /\ G[p] < v
        <4>1. p < m => p \in n .. (m - 1)
          BY <3>1
        <4> QED BY <1>0, <1>G, <4>1
      <3>4. ~(p < m) => G[p] = w + 1
        <4>1. ~(p < m) => p = m
          BY <3>1
        <4> QED BY <1>G, <4>1
      <3>5. i + 1 \in 1 .. x => M[p + 1] = X[i + 1]
        <4>1. p + 1 = n + (i + 1)
          BY <3>1
        <4> QED BY <1>M, <4>1
      <3>6. i - 1 \in 1 .. x => M[p - 1] = X[i - 1]
        <4>1. p - 1 = n + (i - 1)
          BY <3>1
        <4> QED BY <1>M, <4>1
      <3>7. X[i].code # "SYN_REPORT" => V[G[p] + 1] = r
        BY <1>V, <3>1, <3>2, <3>3
      <3>8. X[i].code = "SYN_REPORT" => V[G[p]] = r /\ ~(p < m)
        BY <1>V, <3>1, <3>2, <3>4
      <3>9. /\ X[i].code = "SYN_TIME_SEC" => X[i].code # "SYN_REPORT"
            /\ X[i].code = "SYN_TIME_NSEC" => X[i].code # "SYN_REPORT"
        OBVIOUS
      <3> QED BY <3>1, <3>2, <3>3, <3>5, <3>6, <3>7, <3>8, <3>9, Zenon
    <2> QED BY <1>P, <2>1, <2>2
  <1>6. Raised(F, G, Len(L), Len(M))
    BY <1>0, <1>F, <1>G, Zenon DEF Raised
  <1> QED BY <1>4, <1>5, <1>6

\* What was told last, after the axes that differ from s show new.
toldNext(k, t, s, new) ==
  [a \in AxesOf[k] |-> IF new[a] # s[a] /\ taken(k, new[a]) THEN new[a] ELSE t[a]]

\* The axes of the frame are those that differ.
Differ(k, z, f, new, s) ==
  \A a \in AxesOf[k] : new[a] # s[a] <=> \E i \in 1 .. z : f[i] = a

\* The line with one more frame is explained, up to the frame's reading, which
\* is what the driver will know then.
LEMMA ExtendExplains ==
  ASSUME NEW k \in Kinds, NEW L, NEW W, NEW d, NEW n \in Nat,
         NEW t \in Known(k), NEW s, Explains(k, L, W, d, n, t, s),
         NEW new \in [AxesOf[k] -> Value], NEW X, NEW z, NEW f,
         NEW r, r.stamped \in BOOLEAN, r.data = toldNext(k, t, s, new),
         IsFrame(X, k, z, f, new, r.stamped, r.time), Differ(k, z, f, new, s),
         NEW M, Joined(L, X, M), NEW V, Joined(W, << r >>, V)
  PROVE  Explains(k, M, V, d, n, r.data, new)
  <1>1. PICK F, D :
          /\ D \in [0 .. Len(L) -> Known(k)]
          /\ Counted(F, L, W) /\ Framed(F, L, W)
          /\ Follows(k, D, d, L) /\ Matched(F, D, L, W, n) /\ Ends(k, D, L, t, s)
    BY DEF Explains
  <1>2. PICK G : Raised(F, G, Len(L), Len(M)) /\ Counted(G, M, V) /\ Framed(G, M, V)
    <2>1. FrameShape(X, z, r.stamped, r.time)
      BY FrameCodes, Zenon
    <2> QED BY <1>1, <2>1, ExtendCounted, Zenon
  <1>3. PICK l \in Nat, x \in Nat, m \in Nat, w \in Nat, v \in Nat :
          /\ l = Len(L) /\ x = Len(X) /\ m = Len(M) /\ w = Len(W) /\ m = l + x
          /\ v = Len(V) /\ v = w + 1
    BY DEF Joined
  <1>X. /\ x > 1
        /\ \A i \in 1 .. x : /\ i < x <=> X[i].code # "SYN_REPORT"
                             /\ X[i].code \in Axis <=> i <= z
    <2>1. FrameShape(X, z, r.stamped, r.time)
      BY FrameCodes, Zenon
    <2> QED BY <1>3, <2>1, Zenon DEF FrameShape
  <1>A. m = l + x /\ x > 1
    BY <1>3, <1>X, Zenon
  <1>Z. /\ z \in Nat \ {0} /\ z < x /\ f \in [1 .. z -> AxesOf[k]]
        /\ \A i \in 1 .. z : X[i].code = f[i] /\ X[i].value = new[f[i]]
    BY <1>3 DEF IsFrame
  <1>L. \A p \in 1 .. l : M[p] = L[p]
    BY <1>3 DEF Joined
  <1>M. \A i \in 1 .. x : M[l + i] = X[i]
    BY <1>3 DEF Joined
  <1>V. (\A j \in 1 .. w : V[j] = W[j]) /\ V[w + 1] = r
    <2>1. Len(<< r >>) = 1 /\ << r >>[1] = r /\ 1 \in 1 .. 1
      OBVIOUS
    <2> QED BY <1>3, <2>1 DEF Joined
  <1>C. \A i \in 1 .. x, a \in AxesOf[k] : X[i].code = a <=> i <= z /\ f[i] = a
    <2> TAKE i \in 1 .. x, a \in AxesOf[k]
    <2>1. a \in Axis
      BY DEF Axis
    <2>2. i <= z => i \in 1 .. z
      OBVIOUS
    <2> QED BY <1>X, <1>Z, <2>1, <2>2
  <1> DEFINE set(p, a) == \E i \in 1 .. z : l + i <= p /\ f[i] = a
             last == [a \in AxesOf[k] |-> D[l][a]]
             E == [p \in 0 .. m |-> IF p <= l THEN D[p] ELSE
                    [a \in AxesOf[k] |->
                       IF set(p, a) /\ taken(k, new[a]) THEN new[a] ELSE D[l][a]]]
  <1>D. /\ D \in [0 .. l -> [AxesOf[k] -> Value \cup {0}]] /\ D[0] = d
        /\ \A p \in 1 .. l : D[p] = said(k, D[p - 1], L[p])
    <2>1. \A p \in 1 .. l : D[p] = said(k, D[p - 1], L[p])
      BY <1>1, <1>3, Zenon DEF Follows
    <2> QED BY <1>1, <1>3, <2>1 DEF Follows, Known
  <1>4. l \in 0 .. l /\ D[l] \in [AxesOf[k] -> Value \cup {0}]
    BY <1>D
  <1>5. E \in [0 .. m -> [AxesOf[k] -> Value \cup {0}]]
    <2> HIDE DEF set
    <2>1. \A p \in 0 .. m : p <= l => p \in 0 .. l
      OBVIOUS
    <2> QED BY <1>D, <1>4, <2>1
  <1>6. \A p \in 0 .. l : p \in 0 .. m /\ E[p] = D[p]
    <2>1. \A p \in 0 .. l : p \in 0 .. m /\ p <= l
      BY <1>A
    <2> QED BY <2>1
  <1>7. \A p \in l .. m, a \in AxesOf[k] :
          E[p][a] = IF set(p, a) /\ taken(k, new[a]) THEN new[a] ELSE D[l][a]
    <2> TAKE p \in l .. m, a \in AxesOf[k]
    <2>1. p \in 0 .. m /\ (p <= l => p = l)
      OBVIOUS
    <2>2. p = l => ~set(p, a)
      BY <1>Z
    <2> HIDE DEF set
    <2>3. CASE p = l
      BY <1>6, <2>2, <2>3
    <2>4. CASE ~(p <= l)
      BY <2>1, <2>4
    <2> QED BY <2>1, <2>3, <2>4
  <1>8. \A i \in 1 .. x, a \in AxesOf[k] :
          set(l + i, a) <=> X[i].code = a \/ set(l + i - 1, a)
    <2> TAKE i \in 1 .. x, a \in AxesOf[k]
    <2>1. \A j \in 1 .. z : l + j <= l + i <=> j = i \/ l + j <= l + i - 1
      BY <1>Z
    <2>2. i <= z => i \in 1 .. z
      OBVIOUS
    <2>3. X[i].code = a <=> i <= z /\ f[i] = a
      BY <1>C
    <2>4. CASE i <= z
      BY <2>1, <2>2, <2>3, <2>4
    <2>5. CASE ~(i <= z)
      <3>1. \A j \in 1 .. z : j # i
        BY <1>Z, <2>5
      <3> QED BY <2>1, <2>3, <2>5, <3>1
    <2> QED BY <2>4, <2>5
  <1>9. \A a \in AxesOf[k] : set(m, a) <=> new[a] # s[a]
    <2>1. \A i \in 1 .. z : l + i <= m
      BY <1>A, <1>Z
    <2> QED BY <2>1 DEF Differ
  <1> HIDE DEF E, set
  <1>P. ASSUME NEW p \in 1 .. m
        PROVE  \/ p \in 1 .. l /\ p \in 0 .. l /\ p - 1 \in 0 .. l /\ M[p] = L[p]
               \/ \E i \in 1 .. x : /\ p = l + i /\ M[p] = X[i]
                                    /\ p - 1 \in l .. m /\ p - 1 = l + i - 1
                                    /\ p \in l .. m /\ (i = x <=> p = m)
    <2>1. CASE p <= l
      <3>1. p \in 1 .. l /\ p \in 0 .. l /\ p - 1 \in 0 .. l
        BY <2>1
      <3> QED BY <1>L, <3>1
    <2>2. CASE ~(p <= l)
      <3>1. PICK i \in 1 .. x : i = p - l /\ p = l + i
        <4>1. p - l \in 1 .. x /\ p = l + (p - l)
          BY <1>A, <2>2
        <4> QED BY <4>1
      <3>2. p - 1 \in l .. m /\ p - 1 = l + i - 1 /\ p \in l .. m /\ (i = x <=> p = m)
        BY <1>A, <2>2, <3>1
      <3> QED BY <1>M, <3>1, <3>2
    <2> QED BY <2>1, <2>2
  <1>10. Follows(k, E, d, M)
    <2>1. ASSUME NEW p \in 1 .. m PROVE E[p] = said(k, E[p - 1], M[p])
      <3>1. CASE p \in 1 .. l /\ p \in 0 .. l /\ p - 1 \in 0 .. l /\ M[p] = L[p]
        <4>1. E[p] = D[p] /\ E[p - 1] = D[p - 1]
          BY <1>6, <3>1
        <4> QED BY <1>D, <3>1, <4>1
      <3>2. ASSUME NEW i \in 1 .. x, p = l + i, M[p] = X[i], p - 1 \in l .. m,
                   p - 1 = l + i - 1, p \in l .. m
            PROVE  E[p] = said(k, E[p - 1], M[p])
        <4>1. ASSUME NEW a \in AxesOf[k]
              PROVE  E[p][a] = IF X[i].code = a /\ taken(k, X[i].value)
                                 THEN X[i].value ELSE E[p - 1][a]
          <5>1. E[p][a] = IF set(p, a) /\ taken(k, new[a]) THEN new[a] ELSE D[l][a]
            BY <1>7, <3>2
          <5>2. E[p - 1][a] = IF set(p - 1, a) /\ taken(k, new[a]) THEN new[a] ELSE D[l][a]
            BY <1>7, <3>2
          <5>3. set(p, a) <=> X[i].code = a \/ set(p - 1, a)
            BY <1>8, <3>2
          <5>4. X[i].code = a => X[i].value = new[a]
            <6>1. i <= z => i \in 1 .. z
              OBVIOUS
            <6> QED BY <1>C, <1>Z, <6>1
          <5> HIDE DEF taken
          <5> QED BY <5>1, <5>2, <5>3, <5>4, Zenon
        <4>2. E[p] = [a \in AxesOf[k] |-> E[p][a]]
          BY <1>5, <3>2
        <4> QED BY <3>2, <4>1, <4>2 DEF said
      <3> QED BY <1>P, <3>1, <3>2
    <2>2. E[0] = d
      BY <1>6, <1>D
    <2> QED BY <1>3, <1>5, <2>1, <2>2 DEF Follows, Known
  <1>11. E[m] = r.data
    <2>1. m \in l .. m /\ m \in 0 .. m
      BY <1>A
    <2>2. ASSUME NEW a \in AxesOf[k] PROVE E[m][a] = r.data[a]
      <3>1. E[m][a] = IF new[a] # s[a] /\ taken(k, new[a]) THEN new[a] ELSE D[l][a]
        BY <1>7, <1>9, <2>1
      <3>2. r.data[a] = IF new[a] # s[a] /\ taken(k, new[a]) THEN new[a] ELSE t[a]
        BY DEF toldNext
      <3>3. CASE taken(k, s[a])
        <4>1. D[l][a] = t[a]
          BY <1>1, <1>3, <3>3 DEF Ends
        <4> QED BY <3>1, <3>2, <4>1
      <3>4. CASE ~taken(k, s[a])
        <4>1. k = "proximity" /\ s[a] = -1
          BY <3>4 DEF taken
        <4>2. 1 \in 1 .. z /\ f[1] \in AxesOf[k] /\ new[f[1]] # s[f[1]]
          BY <1>Z DEF Differ
        <4>3. f[1] = a
          BY <4>1, <4>2, FrameAssumption
        <4>4. new[a] # s[a] /\ taken(k, new[a])
          BY <4>1, <4>2, <4>3 DEF taken
        <4> QED BY <3>1, <3>2, <4>4
      <3> QED BY <3>3, <3>4
    <2>3. E[m] = [a \in AxesOf[k] |-> E[m][a]]
      BY <1>5, <2>1
    <2>4. r.data = [a \in AxesOf[k] |-> r.data[a]]
      BY DEF toldNext
    <2> QED BY <2>2, <2>3, <2>4
  <1>12. Matched(G, E, M, V, n)
    <2> SUFFICES ASSUME NEW p \in 1 .. m, M[p].code = "SYN_REPORT", G[p] > n
                 PROVE  E[p] = V[G[p]].data
      BY <1>3 DEF Matched
    <2>1. CASE p \in 1 .. l /\ p \in 0 .. l /\ M[p] = L[p]
      <3>1. E[p] = D[p] /\ G[p] = F[p] /\ F[p] \in 0 .. w
        BY <1>1, <1>2, <1>3, <1>6, <2>1 DEF Raised, Counted
      <3>2. D[p] = W[F[p]].data
        BY <1>1, <1>3, <2>1, <3>1 DEF Matched
      <3>3. F[p] \in 1 .. w
        BY <3>1
      <3> QED BY <1>V, <3>1, <3>2, <3>3
    <2>2. ASSUME NEW i \in 1 .. x, M[p] = X[i], i = x <=> p = m
          PROVE  E[p] = V[G[p]].data
      <3>1. p = m
        BY <1>X, <2>2
      <3>2. G[m] = w + 1
        <4>1. G[m] = F[l] + 1
          BY <1>2, <1>3 DEF Raised
        <4>2. F[l] = w
          BY <1>1, <1>3 DEF Counted
        <4> QED BY <4>1, <4>2
      <3> QED BY <1>11, <1>V, <3>1, <3>2
    <2> QED BY <1>P, <2>1, <2>2
  <1>13. Ends(k, E, M, r.data, new)
    <2> SUFFICES ASSUME NEW a \in AxesOf[k], taken(k, new[a])
                 PROVE  r.data[a] = new[a] \/ \A p \in 1 .. m : M[p].code # a
      BY <1>3, <1>11 DEF Ends
    <2>1. r.data[a] = IF new[a] # s[a] THEN new[a] ELSE t[a]
      BY DEF toldNext
    <2>2. CASE new[a] # s[a]
      BY <2>1, <2>2
    <2>3. CASE new[a] = s[a] /\ t[a] = s[a]
      BY <2>1, <2>3
    <2>4. CASE new[a] = s[a] /\ t[a] # s[a]
      <3>1. \A p \in 1 .. l : L[p].code # a
        BY <1>1, <1>3, <2>4 DEF Ends
      <3>2. \A i \in 1 .. x : X[i].code # a
        <4>1. \A i \in 1 .. x : i <= z => i \in 1 .. z
          OBVIOUS
        <4> QED BY <1>C, <2>4, <4>1 DEF Differ
      <3> QED BY <1>P, <3>1, <3>2
    <2> QED BY <2>2, <2>3, <2>4
  <1>14. /\ E \in [0 .. Len(M) -> Known(k)]
         /\ G \in [0 .. Len(M) -> 0 .. Len(V)]
    BY <1>2, <1>3, <1>5 DEF Known, Counted
  <1> QED BY <1>2, <1>10, <1>12, <1>13, <1>14, Zenon DEF Explains

-----------------------------------------------------------------------------
(* The line.                                                               *)

LEMMA JoinedConcat ==
  ASSUME NEW S, NEW q \in Seq(S), NEW u \in Seq(S)
  PROVE  Joined(q, u, q \o u)
  <1>1. /\ Len(q) \in Nat /\ Len(u) \in Nat
        /\ Len(q \o u) = Len(q) + Len(u)
        /\ \A i \in 1 .. Len(q) + Len(u) :
             (q \o u)[i] = IF i <= Len(q) THEN q[i] ELSE u[i - Len(q)]
    BY ConcatProperties
  <1>2. \A p \in 1 .. Len(q) : p \in 1 .. Len(q) + Len(u) /\ p <= Len(q)
    BY <1>1
  <1>3. \A i \in 1 .. Len(u) : /\ Len(q) + i \in 1 .. Len(q) + Len(u)
                               /\ ~(Len(q) + i <= Len(q)) /\ (Len(q) + i) - Len(q) = i
    BY <1>1
  <1> QED BY <1>1, <1>2, <1>3 DEF Joined

LEMMA JoinedAppend ==
  ASSUME NEW S, NEW q \in Seq(S), NEW e \in S
  PROVE  Joined(q, << e >>, Append(q, e))
  <1>1. Append(q, e) = q \o << e >> /\ << e >> \in Seq(S)
    OBVIOUS
  <1> QED BY <1>1, JoinedConcat

LEMMA LaterTail ==
  ASSUME NEW S, NEW q \in Seq(S), q # << >>
  PROVE  Later(q, Tail(q), 1)
  <1>1. /\ Tail(q) \in Seq(S) /\ Len(Tail(q)) = Len(q) - 1
        /\ \A i \in 1 .. Len(Tail(q)) : Tail(q)[i] = q[i + 1]
    BY HeadTailProperties
  <1>2. Len(q) \in Nat /\ Len(Tail(q)) \in Nat
    BY <1>1
  <1> QED BY <1>1, <1>2 DEF Later

LEMMA LaterJoined ==
  ASSUME NEW S, NEW q \in Seq(S), q # << >>, NEW u \in Seq(S)
  PROVE  Later(q \o u, Tail(q) \o u, 1) /\ (q \o u)[1] = q[1]
  <1>1. PICK a \in Nat, b \in Nat :
          /\ Len(q) = a + 1 /\ Len(Tail(q)) = a /\ Len(u) = b
          /\ Tail(q) \in Seq(S)
          /\ \A i \in 1 .. a : Tail(q)[i] = q[i + 1]
    <2>1. /\ Tail(q) \in Seq(S) /\ Len(Tail(q)) = Len(q) - 1
          /\ \A i \in 1 .. Len(Tail(q)) : Tail(q)[i] = q[i + 1]
      BY HeadTailProperties
    <2>2. Len(Tail(q)) \in Nat /\ Len(u) \in Nat /\ Len(q) = Len(Tail(q)) + 1
      BY <2>1
    <2> QED BY <2>1, <2>2
  <1>2. /\ Len(q \o u) = a + 1 + b
        /\ \A i \in 1 .. a + 1 + b :
             (q \o u)[i] = IF i <= a + 1 THEN q[i] ELSE u[i - (a + 1)]
    <2>1. /\ Len(q \o u) = Len(q) + Len(u)
          /\ \A i \in 1 .. Len(q) + Len(u) :
               (q \o u)[i] = IF i <= Len(q) THEN q[i] ELSE u[i - Len(q)]
      BY ConcatProperties
    <2>2. Len(q) = a + 1 /\ Len(u) = b
      BY <1>1
    <2> QED BY <2>1, <2>2
  <1>3. /\ Len(Tail(q) \o u) = a + b
        /\ \A i \in 1 .. a + b :
             (Tail(q) \o u)[i] = IF i <= a THEN Tail(q)[i] ELSE u[i - a]
    <2> PICK r \in Seq(S) : r = Tail(q)
      BY <1>1
    <2>1. /\ Len(r \o u) = Len(r) + Len(u)
          /\ \A i \in 1 .. Len(r) + Len(u) :
               (r \o u)[i] = IF i <= Len(r) THEN r[i] ELSE u[i - Len(r)]
      BY ConcatProperties
    <2>2. Len(r) = a
      BY <1>1
    <2> QED BY <1>1, <2>1, <2>2
  <1>4. ASSUME NEW i \in 1 .. a + b PROVE (Tail(q) \o u)[i] = (q \o u)[i + 1]
    <2>1. i + 1 \in 1 .. a + 1 + b /\ (i <= a <=> i + 1 <= a + 1)
          /\ (i + 1) - (a + 1) = i - a /\ (i <= a => i \in 1 .. a)
      OBVIOUS
    <2> QED BY <1>1, <1>2, <1>3, <2>1
  <1>5. a + b \in Nat /\ a + 1 + b = (a + b) + 1
    OBVIOUS
  <1>6. (q \o u)[1] = q[1]
    BY <1>2
  <1> QED BY <1>2, <1>3, <1>4, <1>5, <1>6 DEF Later

LEMMA LineType ==
  ASSUME FrameInv
  PROVE  queued \in Seq(InputEvent) /\ kernel \in Seq(InputEvent) /\ line \in Seq(InputEvent)
  <1>1. TypeOK /\ OnlyPosted
    BY DEF FrameInv, FramesOK
  <1>2. queued \in Seq(Event \cup {NoEvent}) /\ Len(queued) = available
    BY <1>1, QueuedType
  <1>3. queued \in Seq(Event)
    BY <1>1, <1>2 DEF OnlyPosted
  <1>4. kernel \in Seq(Event) /\ Event = InputEvent
    BY <1>1, FrameAssumption DEF TypeOK
  <1> QED BY <1>3, <1>4 DEF line

LEMMA LinePost ==
  ASSUME FrameInv, NEW packet \in Seq(InputEvent), Post(packet)
  PROVE  Joined(line, packet, line')
  <1>1. queued' = queued
    BY DEF Post, ring, queued, slotOf, available
  <1>2. line' = line \o packet
    BY <1>1, LineType, ConcatAssociative DEF Post, line
  <1> QED BY <1>2, LineType, JoinedConcat

LEMMA LineConsume ==
  ASSUME FrameInv, Consume
  PROVE  Later(line, line', 1) /\ line[1] = event
  <1>1. Inv /\ TypeOK
    BY DEF FrameInv, FramesOK, Inv
  <1>2. queued # << >> /\ queued' = Tail(queued)
    BY <1>1, ConsumeTakesHead
  <1>3. kernel' = kernel
    BY DEF Consume
  <1>4. queued[1] = event
    <2>1. 1 \in 1 .. available /\ slotOf(1) = mCurr
      BY <1>1, SizeAssumption DEF Consume, TypeOK, available, slotOf
    <2> QED BY <2>1 DEF queued, event
  <1> QED BY <1>2, <1>3, <1>4, LineType, LaterJoined DEF line

LEMMA LineFill ==
  ASSUME FrameInv, FillSome \/ FillError \/ FillFull \/ UNCHANGED vars
  PROVE  line' = line
  <1>1. Inv /\ TypeOK
    BY DEF FrameInv, FramesOK, Inv
  <1>2. CASE FillError \/ FillFull \/ UNCHANGED vars
    BY <1>2 DEF FillError, FillFull, vars, ring, line, queued, slotOf, available
  <1>3. CASE FillSome
    <2>1. PICK n \in 1 .. Len(kernel) :
            /\ n <= mFreeSpace
            /\ mBuffer' = wrapped(n)
            /\ mHead' = movedHead(n)
            /\ mFreeSpace' = mFreeSpace - n
            /\ kernel' = SubSeq(kernel, n + 1, Len(kernel))
            /\ filled' = n
            /\ UNCHANGED mCurr
      BY <1>3 DEF FillSome
    <2>2. Inv'
      BY <1>1, <1>3, InvNext DEF Next
    <2>3. queued' = queued \o SubSeq(kernel, 1, n)
      BY <1>1, <2>1, <2>2, FillAppends
    <2>4. kernel = SubSeq(kernel, 1, n) \o SubSeq(kernel, n + 1, Len(kernel))
      BY LineType
    <2>5. SubSeq(kernel, 1, n) \in Seq(InputEvent)
          /\ SubSeq(kernel, n + 1, Len(kernel)) \in Seq(InputEvent)
      BY LineType
    <2>6. (queued \o SubSeq(kernel, 1, n)) \o SubSeq(kernel, n + 1, Len(kernel))
            = queued \o (SubSeq(kernel, 1, n) \o SubSeq(kernel, n + 1, Len(kernel)))
      <3>1. \A x, y, z \in Seq(InputEvent) : (x \o y) \o z = x \o (y \o z)
        BY ConcatAssociative
      <3> QED BY <2>5, <3>1, LineType, Zenon
    <2> QED BY <2>1, <2>3, <2>4, <2>6, Zenon DEF line
  <1> QED BY <1>2, <1>3

-----------------------------------------------------------------------------
(* Where the driver is in the line.                                        *)

\* How the line goes on from its first event, which is of the first reading.
Begins(L, W) ==
  /\ Len(L) \in Nat \ {0} /\ Len(W) \in Nat \ {0}
  /\ L[1].code # "SYN_REPORT" => Len(L) > 1
  /\ L[1].code = "SYN_REPORT" /\ Len(L) > 1 => L[2].code \in Axis
  /\ L[1].code = "SYN_TIME_SEC" =>
       /\ L[2].code = "SYN_TIME_NSEC" /\ W[1].stamped
       /\ L[1].value * Second + L[2].value = W[1].time
  /\ L[1].code = "SYN_TIME_NSEC" => L[2].code = "SYN_REPORT" /\ W[1].stamped
  /\ L[1].code \in Axis =>
       /\ L[2].code # "SYN_TIME_NSEC"
       /\ L[2].code = "SYN_REPORT" => ~W[1].stamped

\* A SYN_REPORT tells nothing of an axis, nor does a stamp.
LEMMA SaidNothing ==
  ASSUME NEW k \in Kinds, NEW d \in Known(k), NEW e, e.code \notin Axis
  PROVE  said(k, d, e) = d
  BY DEF said, Known, Axis

LEMMA BeginsNow ==
  ASSUME FeedInv, line # << >>
  PROVE  /\ Begins(line, waiting)
         /\ line[1] \in InputEvent /\ waiting[1] \in Readings /\ waiting # << >>
         /\ line[1].code = "SYN_REPORT" /\ doubt = 0 => mPendingEvent.data = waiting[1].data
  <1>1. line \in Seq(InputEvent) /\ waiting \in Seq(Readings) /\ kind \in Kinds
    BY LineType DEF FeedInv, HistoryOK, FrameInv, FramesOK, MembersOK
  <1>2. PICK F, D :
          /\ D \in [0 .. Len(line) -> Known(kind)]
          /\ Counted(F, line, waiting) /\ Framed(F, line, waiting)
          /\ Follows(kind, D, mPendingEvent.data, line)
          /\ Matched(F, D, line, waiting, doubt)
    BY DEF FeedInv, Explained, Explains
  <1>3. Len(line) \in Nat \ {0} /\ Len(waiting) \in Nat
    BY <1>1
  <1>4. /\ F[1] = IF line[1].code = "SYN_REPORT" THEN 1 ELSE 0
        /\ Len(waiting) \in Nat \ {0}
        /\ Begins(line, waiting)
    BY <1>2, <1>3, FirstEvents DEF Begins
  <1>5. line[1] \in InputEvent /\ waiting[1] \in Readings /\ waiting # << >>
    BY <1>1, <1>3, <1>4
  <1>6. ASSUME line[1].code = "SYN_REPORT", doubt = 0
        PROVE  mPendingEvent.data = waiting[1].data
    <2>1. 1 \in 1 .. Len(line) /\ 1 - 1 = 0 /\ 0 \in 0 .. Len(line)
      BY <1>3
    <2>2. D[1] = waiting[1].data
      BY <1>2, <1>4, <1>6, <2>1 DEF Matched
    <2>3. D[1] = said(kind, D[0], line[1]) /\ D[0] = mPendingEvent.data /\ D[0] \in Known(kind)
      BY <1>2, <2>1 DEF Follows
    <2>4. line[1].code \notin Axis
      BY <1>6, FrameAssumption
    <2> QED BY <1>1, <2>2, <2>3, <2>4, SaidNothing
  <1> QED BY <1>4, <1>5, <1>6

\* Without events there are no readings left, and without readings no events.
LEMMA NoneLeft ==
  ASSUME FeedInv
  PROVE  line = << >> <=> waiting = << >>
  <1>1. line \in Seq(InputEvent) /\ waiting \in Seq(Readings)
    BY LineType DEF FeedInv, HistoryOK
  <1>2. PICK F : Counted(F, line, waiting)
    BY DEF FeedInv, Explained, Explains
  <1>3. line = << >> => waiting = << >>
    BY <1>1, <1>2 DEF Counted
  <1> QED BY <1>3, BeginsNow

-----------------------------------------------------------------------------
LEMMA FeedInvInit == FrameInit => FeedInv
  <1> SUFFICES ASSUME FrameInit PROVE FeedInv
    OBVIOUS
  <1>1. FrameInv
    BY FrameInvInit
  <1>2. /\ kind \in Kinds /\ now = 0 /\ mEnabledTime = 0 /\ ~mHasPendingEvent /\ mEnabled = FALSE
        /\ waiting = << >> /\ told = mPendingEvent.data /\ doubt = 0
        /\ kernel = << >> /\ mFreeSpace = N
    BY DEF FrameInit, Init
  <1>3. mPendingEvent \in [data : {[a \in AxesOf[kind] |-> 0]}, timestamp : {0, LastTime}]
    BY DEF FrameInit
  <1>4. told \in Known(kind)
    BY <1>2, <1>3 DEF Known
  <1>5. HistoryOK
    BY <1>2, <1>4 DEF HistoryOK
  <1>6. line = << >> /\ Len(line) = 0
    <2>1. queued = << >>
      BY <1>1, <1>2, QueuedType, SizeAssumption DEF FrameInv, FramesOK, available
    <2> QED BY <1>2, <2>1 DEF line
  <1>7. Explained
    <2> DEFINE F == [p \in 0 .. 0 |-> 0]
               D == [p \in 0 .. 0 |-> told]
    <2>1. F \in [0 .. Len(line) -> 0 .. Len(waiting)] /\ Len(waiting) = 0
      BY <1>2, <1>6
    <2>2. D \in [0 .. Len(line) -> Known(kind)]
      BY <1>4, <1>6
    <2>3. Counted(F, line, waiting)
      BY <1>6, <2>1 DEF Counted
    <2>4. Framed(F, line, waiting)
      BY <1>6 DEF Framed
    <2>5. Follows(kind, D, mPendingEvent.data, line)
      BY <1>2, <1>6, <2>2 DEF Follows
    <2>6. Matched(F, D, line, waiting, doubt)
      BY <1>6 DEF Matched
    <2>7. Ends(kind, D, line, told, shown)
      BY <1>6 DEF Ends
    <2> HIDE DEF F, D
    <2> QED BY <2>1, <2>2, <2>3, <2>4, <2>5, <2>6, <2>7 DEF Explained, Explains
  <1>8. Decoded
    BY <1>6 DEF Decoded
  <1>9. Dated
    BY <1>2, <1>3, FrameAssumption DEF Dated, Time
  <1>10. Outdated
    BY <1>2 DEF FrameInit, Outdated
  <1>11. Starts
    BY <1>2, <1>6 DEF Starts
  <1> QED BY <1>1, <1>5, <1>7, <1>8, <1>9, <1>10, <1>11 DEF FeedInv

-----------------------------------------------------------------------------
(* What each step leaves of it.                                            *)

\* The parts of the invariant, and the types they need.
LEMMA FeedNow ==
  ASSUME FeedInv
  PROVE  /\ FrameInv /\ HistoryOK /\ Explained /\ Decoded /\ Dated /\ Outdated /\ Starts
         /\ kind \in Kinds /\ now \in Nat /\ now \in Time /\ mEnabledTime \in Nat
         /\ mEnabled \in BOOLEAN /\ mHasPendingEvent \in BOOLEAN
         /\ mPendingEvent \in Pending /\ mPendingEvent.data \in Known(kind)
         /\ shown \in [AxesOf[kind] -> Value] /\ shown \in Known(kind)
         /\ line \in Seq(InputEvent) /\ waiting \in Seq(Readings)
         /\ doubt \in Nat /\ told \in Known(kind)
         /\ Len(line) \in Nat /\ Len(waiting) \in Nat
  <1>1. FrameInv /\ HistoryOK /\ Explained /\ Decoded /\ Dated /\ Outdated /\ Starts
    BY DEF FeedInv
  <1>2. MembersOK /\ kind \in Kinds
    BY <1>1 DEF FrameInv, FramesOK, MembersOK
  <1>3. line \in Seq(InputEvent)
    BY <1>1, LineType
  <1>4. now \in Time
    BY <1>2 DEF MembersOK
  <1>5. waiting \in Seq(Readings) /\ doubt \in Nat /\ told \in Known(kind)
    BY <1>1 DEF HistoryOK
  <1>6. shown \in Known(kind) /\ mPendingEvent.data \in Known(kind)
    BY <1>2, MembersNow DEF Known, Pending
  <1> QED BY <1>1, <1>2, <1>3, <1>4, <1>5, <1>6, MembersNow

\* A step that does nothing to the line, the driver or the history.
LEMMA StillStep ==
  ASSUME FeedInv, FrameInv', line' = line, UNCHANGED history, UNCHANGED <<shown, kind>>,
         UNCHANGED switch, UNCHANGED mHasPendingEvent, UNCHANGED decoder,
         now' >= now, mHasPendingEvent' => pc' = "idle"
  PROVE  FeedInv'
  <1>1. /\ waiting' = waiting /\ told' = told /\ doubt' = doubt
        /\ shown' = shown /\ kind' = kind
        /\ mEnabled' = mEnabled /\ mEnabledTime' = mEnabledTime
        /\ mHasPendingEvent' = mHasPendingEvent /\ mUseAbsTimeStamp' = mUseAbsTimeStamp
        /\ report_time' = report_time /\ mPendingEvent' = mPendingEvent
    BY DEF history, switch, decoder
  <1>2. now' \in Nat
    BY FrameAssumption DEF FrameInv, FramesOK, MembersOK, Time
  <1>3. HistoryOK'
    BY <1>1, FeedNow DEF HistoryOK, Readings
  <1>4. Explained'
    BY <1>1, FeedNow, Zenon DEF Explained
  <1>5. Decoded'
    BY <1>1, FeedNow, Zenon DEF Decoded
  <1>6. Dated'
    <2>1. \A m \in 1 .. Len(waiting) : waiting[m].time \in Nat
      <3>1. waiting \in Seq(Readings)
        BY FeedNow
      <3>2. \A m \in 1 .. Len(waiting) : waiting[m] \in Readings
        BY <3>1
      <3>3. \A r \in Readings : r.time \in Nat
        BY FrameAssumption DEF Readings, Time
      <3> QED BY <3>2, <3>3
    <2>2. mEnabledTime <= now' + IgnoreTime
      BY <1>2, FeedNow, FrameAssumption DEF Dated
    <2> QED BY <1>1, <1>2, <2>1, <2>2, FeedNow DEF Dated
  <1>7. Outdated'
    <2>1. mPendingEvent.timestamp \in Nat
      BY FeedNow DEF Pending
    <2> QED BY <1>1, <1>2, <2>1, FeedNow DEF Outdated
  <1>8. Starts'
    <2>1. Starts
      BY FeedNow
    <2> QED BY <1>1, <2>1 DEF Starts
  <1> QED BY <1>3, <1>4, <1>5, <1>6, <1>7, <1>8 DEF FeedInv

LEMMA QuietStep ==
  ASSUME FeedInv, FrameInv', Tick \/ BeginRead \/ ReadAgain \/ EndRead \/ UNCHANGED frameVars
  PROVE  FeedInv'
  <1>1. line' = line
    <2>1. FillSome \/ FillError \/ FillFull \/ UNCHANGED vars
      BY DEF Tick, BeginRead, ReadAgain, EndRead, frameVars
    <2> QED BY <2>1, FeedNow, LineFill
  <1>2. /\ UNCHANGED history /\ UNCHANGED <<shown, kind>>
        /\ UNCHANGED switch /\ UNCHANGED mHasPendingEvent /\ UNCHANGED decoder
    BY DEF Tick, BeginRead, ReadAgain, EndRead, frameVars, device
  <1>3. now' >= now
    <2>1. now' = now \/ now' = now + 1
      BY DEF Tick, BeginRead, ReadAgain, EndRead, frameVars, device
    <2> QED BY <2>1, FeedNow
  <1>4. mHasPendingEvent' => pc' = "idle"
    <2>1. mHasPendingEvent => pc = "idle"
      BY FeedNow DEF Starts
    <2>2. CASE Tick \/ ReadAgain \/ UNCHANGED frameVars
      BY <1>2, <2>1, <2>2 DEF Tick, ReadAgain, frameVars, call
    <2>3. CASE BeginRead
      BY <1>2, <2>3 DEF BeginRead
    <2>4. CASE EndRead
      BY <2>4 DEF EndRead
    <2> QED BY <2>2, <2>3, <2>4
  <1> QED BY <1>1, <1>2, <1>3, <1>4, StillStep

\* An event is looked at: the first of the line, which goes on without it.
LEMMA TakenStep ==
  ASSUME FeedInv, NEW codes, Taking(codes)
  PROVE  /\ Later(line, line', 1) /\ line[1] = event /\ line # << >>
         /\ event.code \in codes /\ event \in InputEvent
         /\ Begins(line, waiting)
         /\ Len(line) > 1 <=> line' # << >>
         /\ Len(line) > 1 => line'[1] = line[2]
         /\ mHasPendingEvent = FALSE /\ mHasPendingEvent' = FALSE
         /\ now' = now /\ shown' = shown /\ kind' = kind
         /\ mEnabled' = mEnabled /\ mEnabledTime' = mEnabledTime /\ count > 0
  <1>1. FrameInv /\ Consume /\ Inv /\ available > 0
    BY FeedNow DEF Taking, Consume, FrameInv, FramesOK, Inv
  <1>2. Later(line, line', 1) /\ line[1] = event
    BY <1>1, LineConsume
  <1>3. line # << >>
    BY <1>2, FeedNow DEF Later
  <1>4. event \in InputEvent
    BY <1>1, EventType
  <1>5. Begins(line, waiting)
    BY <1>3, BeginsNow
  <1>6. line' \in Seq(InputEvent)
    <2>1. /\ Tail(queued) \in Seq(InputEvent) /\ kernel \in Seq(InputEvent)
          /\ queued' = Tail(queued) /\ kernel' = kernel
      BY <1>1, LineType, ConsumeTakesHead DEF Consume
    <2> QED BY <2>1 DEF line
  <1>7. (Len(line) > 1 <=> line' # << >>) /\ (Len(line) > 1 => line'[1] = line[2])
    <2>1. Len(line') = Len(line) - 1 /\ Len(line') \in Nat
      BY <1>2 DEF Later
    <2>2. Len(line') > 0 => line'[1] = line[1 + 1]
      <3>1. Len(line') > 0 => 1 \in 1 .. Len(line')
        BY <2>1
      <3> QED BY <1>2, <3>1 DEF Later
    <2> QED BY <1>6, <2>1, <2>2
  <1>8. /\ mHasPendingEvent = FALSE /\ mHasPendingEvent' = FALSE
    <2>1. pc = "loop" /\ mHasPendingEvent' = mHasPendingEvent
      BY DEF Taking
    <2> QED BY <2>1, FeedNow DEF Starts
  <1>9. /\ now' = now /\ shown' = shown /\ kind' = kind
        /\ mEnabled' = mEnabled /\ mEnabledTime' = mEnabledTime
        /\ event.code \in codes /\ count > 0
    BY DEF Taking, device, switch
  <1> QED BY <1>2, <1>3, <1>4, <1>5, <1>7, <1>8, <1>9

\* What is left to show of an event inside a frame.
LEMMA InsideStep ==
  ASSUME FeedInv, FrameInv', NEW codes, Taking(codes), event.code # "SYN_REPORT",
         UNCHANGED history, mPendingEvent'.data = said(kind, mPendingEvent.data, event),
         Decoded', Dated', Outdated'
  PROVE  FeedInv'
  <1>1. waiting' = waiting /\ told' = told /\ doubt' = doubt
    BY DEF history
  <1>2. HistoryOK'
    BY <1>1, TakenStep, FeedNow DEF HistoryOK, Readings
  <1>3. Explained'
    <2>1. Later(waiting, waiting, 0)
      BY FeedNow DEF Later
    <2>2. Explains(kind, line, waiting, mPendingEvent.data, doubt, told, shown)
      BY FeedNow DEF Explained
    <2>3. Later(line, line', 1) /\ line[1] = event
      BY TakenStep
    <2>4. 0 = IF line[1].code = "SYN_REPORT" THEN 1 ELSE 0
      BY <2>3
    <2>5. Explains(kind, line', waiting, said(kind, mPendingEvent.data, line[1]),
                   IF doubt > 0 THEN doubt - 0 ELSE 0, told, shown)
      BY <2>1, <2>2, <2>3, <2>4, FeedNow, ShiftExplains
    <2>6. (IF doubt > 0 THEN doubt - 0 ELSE 0) = doubt
      BY FeedNow
    <2>7. shown' = shown /\ kind' = kind
      BY TakenStep
    <2> QED BY <1>1, <2>3, <2>5, <2>6, <2>7, Zenon DEF Explained
  <1>4. Starts'
    <2>1. Starts
      BY FeedNow
    <2>2. kind' = kind /\ mHasPendingEvent' = FALSE
      BY TakenStep
    <2> QED BY <1>1, <2>1, <2>2 DEF Starts
  <1> QED BY <1>2, <1>3, <1>4 DEF FeedInv

LEMMA AxisStep ==
  ASSUME FeedInv, FrameInv', ReadAxis
  PROVE  FeedInv'
  <1>1. Taking(Axis) /\ UNCHANGED history /\ UNCHANGED <<mUseAbsTimeStamp, report_time>>
    BY DEF ReadAxis
  <1>2. /\ line[1] = event /\ event.code \in Axis /\ Begins(line, waiting)
        /\ kind' = kind /\ now' = now
        /\ mEnabled' = mEnabled /\ mEnabledTime' = mEnabledTime
        /\ Len(line) > 1 <=> line' # << >>
        /\ Len(line) > 1 => line'[1] = line[2]
    BY <1>1, TakenStep
  <1>3. event.code # "SYN_REPORT"
    BY <1>2, FrameAssumption
  <1>4. waiting' = waiting /\ doubt' = doubt
    BY <1>1 DEF history
  <1>5. /\ mPendingEvent'.data = said(kind, mPendingEvent.data, event)
        /\ mPendingEvent'.timestamp = mPendingEvent.timestamp
    <2>1. mPendingEvent \in Pending
      BY FeedNow
    <2>2. mPendingEvent' = [mPendingEvent EXCEPT !.data =
            [mPendingEvent.data EXCEPT ![event.code] =
               understood(event.value, mPendingEvent.data[event.code])]]
      BY <2>1 DEF ReadAxis, Pending
    <2>3. [mPendingEvent.data EXCEPT ![event.code] =
             understood(event.value, mPendingEvent.data[event.code])]
          = said(kind, mPendingEvent.data, event)
      BY <2>1 DEF Pending, said, understood, taken
    <2> QED BY <2>1, <2>2, <2>3 DEF Pending
  <1>6. Decoded'
    <2> SUFFICES ASSUME line' # << >>
                 PROVE  /\ line'[1].code # "SYN_TIME_NSEC"
                        /\ line'[1].code = "SYN_REPORT" => ~waiting[1].stamped
      BY <1>4 DEF Decoded
    <2> QED BY <1>2, Zenon DEF Begins
  <1>7. Dated'
    BY <1>2, <1>4, <1>5, FeedNow DEF Dated
  <1>8. Outdated'
    BY <1>1, <1>2, <1>4, <1>5, FeedNow, Zenon DEF Outdated
  <1> QED BY <1>1, <1>3, <1>5, <1>6, <1>7, <1>8, InsideStep

LEMMA SecStep ==
  ASSUME FeedInv, FrameInv', ReadSec
  PROVE  FeedInv'
  <1>1. Taking({"SYN_TIME_SEC"}) /\ UNCHANGED history /\ UNCHANGED mPendingEvent
        /\ report_time' = event.value * Second
    BY DEF ReadSec
  <1>2. /\ line[1] = event /\ event.code = "SYN_TIME_SEC" /\ Begins(line, waiting)
        /\ line # << >> /\ kind' = kind /\ now' = now
        /\ mEnabled' = mEnabled /\ mEnabledTime' = mEnabledTime
        /\ Len(line) > 1 => line'[1] = line[2]
    <2>1. event.code \in {"SYN_TIME_SEC"}
      BY <1>1, TakenStep, Zenon
    <2> QED BY <1>1, <2>1, TakenStep
  <1>3. /\ line'[1] = line[2] /\ line[2].code = "SYN_TIME_NSEC" /\ waiting[1].stamped
        /\ event.value * Second + line[2].value = waiting[1].time
        /\ waiting # << >>
    <2>1. waiting # << >>
      BY <1>2, BeginsNow
    <2> QED BY <1>2, <2>1, Zenon DEF Begins
  <1>4. waiting' = waiting /\ doubt' = doubt
    BY <1>1 DEF history
  <1>5. mPendingEvent'.data = said(kind, mPendingEvent.data, event)
    <2>1. event.code \notin Axis
      BY <1>2, FrameAssumption
    <2> QED BY <1>1, <2>1, FeedNow, SaidNothing
  <1>6. Decoded'
    <2>1. report_time' + line'[1].value = waiting'[1].time
      BY <1>1, <1>3, <1>4
    <2> QED BY <1>3, <2>1 DEF Decoded
  <1>7. Dated'
    BY <1>1, <1>2, <1>4, FeedNow DEF Dated
  <1>8. Outdated'
    BY <1>3, <1>4 DEF Outdated
  <1> QED BY <1>1, <1>2, <1>5, <1>6, <1>7, <1>8, InsideStep

LEMMA NsecStep ==
  ASSUME FeedInv, FrameInv', ReadNsec
  PROVE  FeedInv'
  <1>1. Taking({"SYN_TIME_NSEC"}) /\ UNCHANGED history
        /\ mUseAbsTimeStamp' = TRUE
        /\ mPendingEvent' = [mPendingEvent EXCEPT !.timestamp = report_time + event.value]
    BY DEF ReadNsec
  <1>2. /\ line[1] = event /\ event.code = "SYN_TIME_NSEC" /\ Begins(line, waiting)
        /\ line # << >> /\ kind' = kind /\ now' = now
        /\ mEnabled' = mEnabled /\ mEnabledTime' = mEnabledTime
        /\ Len(line) > 1 => line'[1] = line[2]
    <2>1. event.code \in {"SYN_TIME_NSEC"}
      BY <1>1, TakenStep, Zenon
    <2> QED BY <1>1, <2>1, TakenStep
  <1>3. /\ line'[1] = line[2] /\ line[2].code = "SYN_REPORT" /\ waiting[1].stamped
    BY <1>2, Zenon DEF Begins
  <1>4. waiting' = waiting /\ doubt' = doubt
    BY <1>1 DEF history
  <1>5. waiting # << >> /\ waiting[1] \in Readings
    BY <1>2, BeginsNow
  <1>6. report_time + event.value = waiting[1].time
    BY <1>2, FeedNow, Zenon DEF Decoded
  <1>7. /\ mPendingEvent'.data = mPendingEvent.data
        /\ mPendingEvent'.timestamp = waiting[1].time
    BY <1>1, <1>6, FeedNow DEF Pending
  <1>8. mPendingEvent'.data = said(kind, mPendingEvent.data, event)
    <2>1. event.code \notin Axis
      BY <1>2, FrameAssumption
    <2> QED BY <1>7, <2>1, FeedNow, SaidNothing
  <1>9. Decoded'
    BY <1>1, <1>3, <1>4, <1>7 DEF Decoded
  <1>10. Dated'
    <2>1. waiting[1].time \in Time
      BY <1>5 DEF Readings
    <2> QED BY <1>2, <1>4, <1>7, <2>1, FeedNow DEF Dated
  <1>11. Outdated'
    BY <1>3, <1>4, <1>5 DEF Outdated
  <1> QED BY <1>1, <1>2, <1>8, <1>9, <1>10, <1>11, InsideStep

LEMMA ReportTaken ==
  ASSUME FeedInv, ReadReport
  PROVE  /\ line[1] = event /\ event.code = "SYN_REPORT" /\ Begins(line, waiting)
         /\ line # << >> /\ Later(line, line', 1)
         /\ Len(line) > 1 <=> line' # << >>
         /\ Len(line) > 1 => line'[1] = line[2]
         /\ waiting # << >> /\ waiting[1] \in Readings
         /\ waiting' = Tail(waiting) /\ Later(waiting, waiting', 1)
         /\ doubt' = (IF doubt > 0 THEN doubt - 1 ELSE 0) /\ doubt' \in Nat
         /\ told' = told /\ mPendingEvent' = mPendingEvent /\ report_time' = report_time
         /\ kind' = kind /\ now' = now /\ shown' = shown
         /\ mEnabled' = mEnabled /\ mEnabledTime' = mEnabledTime
         /\ mHasPendingEvent = FALSE /\ mHasPendingEvent' = FALSE
  <1>1. /\ Taking({"SYN_REPORT"}) /\ waiting' = Tail(waiting)
        /\ doubt' = (IF doubt > 0 THEN doubt - 1 ELSE 0)
        /\ told' = told /\ mPendingEvent' = mPendingEvent /\ report_time' = report_time
    BY DEF ReadReport
  <1>2. event.code = "SYN_REPORT"
    <2>1. event.code \in {"SYN_REPORT"}
      BY <1>1, TakenStep, Zenon
    <2> QED BY <2>1
  <1>3. line # << >>
    BY <1>1, TakenStep
  <1>4. waiting # << >> /\ waiting[1] \in Readings
    BY <1>3, BeginsNow
  <1>5. Later(waiting, waiting', 1)
    BY <1>1, <1>4, FeedNow, LaterTail
  <1>6. doubt' \in Nat
    BY <1>1, FeedNow
  <1> QED BY <1>1, <1>2, <1>3, <1>4, <1>5, <1>6, TakenStep

LEMMA ReportStep ==
  ASSUME FeedInv, FrameInv', ReadReport
  PROVE  FeedInv'
  <1>1. HistoryOK'
    <2>1. Tail(waiting) \in Seq(Readings)
      BY ReportTaken, FeedNow
    <2> QED BY <2>1, ReportTaken, FeedNow DEF HistoryOK, Readings
  <1>2. Explained'
    <2>1. Explains(kind, line, waiting, mPendingEvent.data, doubt, told, shown)
      BY FeedNow DEF Explained
    <2>2. 1 = IF line[1].code = "SYN_REPORT" THEN 1 ELSE 0
      BY ReportTaken
    <2>3. Later(line, line', 1) /\ Later(waiting, waiting', 1)
      BY ReportTaken
    <2>4. Explains(kind, line', waiting', said(kind, mPendingEvent.data, line[1]),
                   IF doubt > 1 THEN doubt - 1 ELSE 0, told, shown)
      BY <2>1, <2>2, <2>3, FeedNow, ShiftExplains
    <2>5. said(kind, mPendingEvent.data, line[1]) = mPendingEvent.data
      <3>1. line[1].code \notin Axis
        BY ReportTaken, FrameAssumption
      <3> QED BY <3>1, FeedNow, SaidNothing
    <2>6. (IF doubt > 1 THEN doubt - 1 ELSE 0) = doubt'
      BY ReportTaken, FeedNow
    <2>7. /\ kind' = kind /\ shown' = shown /\ told' = told
          /\ mPendingEvent' = mPendingEvent
      BY ReportTaken
    <2> QED BY <2>4, <2>5, <2>6, <2>7, Zenon DEF Explained
  <1>3. Decoded'
    <2>1. line' # << >> => line'[1].code \in Axis
      BY ReportTaken, Zenon DEF Begins
    <2>2. line' # << >> => line'[1].code # "SYN_TIME_NSEC" /\ line'[1].code # "SYN_REPORT"
      BY <2>1, FrameAssumption
    <2> QED BY <2>2 DEF Decoded
  <1>4. Dated'
    <2>1. \A m \in 1 .. Len(waiting') : waiting'[m].time <= now
      <3>1. PICK w \in Nat, v \in Nat : w = Len(waiting) /\ v = Len(waiting') /\ w = v + 1
        BY ReportTaken DEF Later
      <3>2. \A m \in 1 .. v : waiting'[m] = waiting[m + 1]
        BY <3>1, ReportTaken DEF Later
      <3>3. \A m \in 1 .. v : m + 1 \in 1 .. w
        BY <3>1
      <3>4. \A m \in 1 .. w : waiting[m].time <= now
        BY <3>1, FeedNow DEF Dated
      <3> QED BY <3>1, <3>2, <3>3, <3>4
    <2> QED BY <2>1, ReportTaken, FeedNow DEF Dated
  <1>5. Outdated'
    <2> SUFFICES ASSUME kind = "accel", mUseAbsTimeStamp'
                 PROVE  mPendingEvent.timestamp <= now /\ ~mEnabled
      BY ReportTaken DEF Outdated
    <2>1. mUseAbsTimeStamp /\ ~mEnabled
      BY Zenon DEF ReadReport
    <2>2. doubt = 0
      BY FeedNow DEF Starts, Starting
    <2>3. CASE waiting[1].stamped
      <3>1. mPendingEvent.timestamp = waiting[1].time
        BY <2>2, <2>3, ReportTaken, FeedNow DEF Decoded
      <3>2. waiting[1].time <= now
        <4>1. 1 \in 1 .. Len(waiting)
          BY ReportTaken, FeedNow DEF Begins
        <4> QED BY <4>1, FeedNow DEF Dated
      <3> QED BY <2>1, <3>1, <3>2
    <2>4. CASE ~waiting[1].stamped
      BY <2>1, <2>4, FeedNow DEF Outdated
    <2> QED BY <2>3, <2>4
  <1>6. Starts'
    <2>1. Starts
      BY FeedNow
    <2>2. /\ kind' = kind /\ mHasPendingEvent' = FALSE
          /\ doubt' = (IF doubt > 0 THEN doubt - 1 ELSE 0)
      BY ReportTaken
    <2>3. doubt \in Nat /\ Len(waiting') \in Nat /\ Len(waiting) = Len(waiting') + 1
      BY ReportTaken, FeedNow DEF Later
    <2>4. doubt' <= Len(waiting')
      BY <2>1, <2>2, <2>3 DEF Starts
    <2> QED BY <2>1, <2>2, <2>4 DEF Starts
  <1> QED BY <1>1, <1>2, <1>3, <1>4, <1>5, <1>6 DEF FeedInv

\* The initial event leaves the line as it is.
LEMMA InitialStep ==
  ASSUME FeedInv, FrameInv', ReadInitial
  PROVE  FeedInv'
  <1>1. /\ mHasPendingEvent /\ mHasPendingEvent' = FALSE
        /\ mPendingEvent' = [mPendingEvent EXCEPT !.timestamp = now]
        /\ UNCHANGED vars /\ UNCHANGED device /\ UNCHANGED switch
        /\ UNCHANGED <<mUseAbsTimeStamp, report_time, waiting, told, doubt>>
    BY DEF ReadInitial
  <1>2. /\ now' = now /\ shown' = shown /\ kind' = kind
        /\ mEnabled' = mEnabled /\ mEnabledTime' = mEnabledTime
        /\ waiting' = waiting /\ told' = told /\ doubt' = doubt
        /\ mUseAbsTimeStamp' = mUseAbsTimeStamp /\ report_time' = report_time
    BY <1>1 DEF device, switch
  <1>3. line' = line
    BY <1>1, FeedNow, LineFill
  <1>4. mPendingEvent'.data = mPendingEvent.data /\ mPendingEvent'.timestamp = now
    BY <1>1, FeedNow DEF Pending
  <1>5. HistoryOK'
    BY <1>2, FeedNow DEF HistoryOK, Readings
  <1>6. Explained'
    BY <1>2, <1>3, <1>4, FeedNow, Zenon DEF Explained
  <1>7. Decoded'
    <2> SUFFICES ASSUME line # << >>
                 PROVE  /\ line[1].code = "SYN_TIME_NSEC" =>
                             report_time + line[1].value = waiting[1].time
                        /\ line[1].code = "SYN_REPORT" /\ waiting[1].stamped =>
                             mUseAbsTimeStamp /\ doubt # 0
      BY <1>2, <1>3 DEF Decoded
    <2>1. doubt = 0 => line[1].code \in Axis
      BY <1>1, FeedNow DEF Starts
    <2>2. doubt = 0 => line[1].code # "SYN_REPORT"
      BY <2>1, FrameAssumption
    <2> QED BY <2>2, FeedNow DEF Decoded
  <1>8. Dated'
    BY <1>2, <1>4, FeedNow DEF Dated
  <1>9. Outdated'
    <2>1. kind # "accel"
      BY <1>1, FeedNow DEF Starts, Starting
    <2> QED BY <1>2, <2>1 DEF Outdated
  <1>10. Starts'
    <2>1. Starts
      BY FeedNow
    <2> QED BY <1>1, <1>2, <2>1 DEF Starts
  <1> QED BY <1>5, <1>6, <1>7, <1>8, <1>9, <1>10 DEF FeedInv

\* What a switch may do.
LEMMA SwitchParts ==
  ASSUME FeedInv, Enable
  PROVE  /\ line' = line /\ now' = now /\ shown' = shown /\ kind' = kind
         /\ waiting' = waiting /\ mUseAbsTimeStamp' = mUseAbsTimeStamp
         /\ report_time' = report_time /\ data' = data /\ pc = "idle" /\ pc' = "idle"
         /\ doubt' = (IF mHasPendingEvent' THEN Len(waiting) ELSE doubt)
         /\ mEnabled' \in BOOLEAN /\ mHasPendingEvent' \in BOOLEAN
         /\ mEnabledTime' \in Nat /\ mEnabledTime' >= mEnabledTime
         /\ mEnabledTime' <= now + IgnoreTime
         /\ kind \notin Fetching => mEnabledTime' = 0
         /\ kind \in Fetching /\ mEnabled' => mEnabledTime' > now
         /\ mPendingEvent'.timestamp = mPendingEvent.timestamp
         /\ kind \notin Starting => mHasPendingEvent' = FALSE
         /\ \/ /\ mPendingEvent'.data = shown /\ told' = shown
               /\ mHasPendingEvent' = TRUE
            \/ mPendingEvent'.data = mPendingEvent.data /\ told' = told
  <1>1. PICK on \in BOOLEAN : SwitchNode(on) \/ SwitchNoNode(on)
    BY DEF Enable
  <1>2. /\ UNCHANGED vars /\ UNCHANGED device /\ UNCHANGED call
        /\ UNCHANGED <<mUseAbsTimeStamp, report_time, waiting>> /\ pc = "idle"
        /\ doubt' = (IF mHasPendingEvent' THEN Len(waiting) ELSE doubt)
    BY DEF Enable
  <1>3. line' = line
    BY <1>2, FeedNow, LineFill
  <1>4. mEnabled' = on
    BY <1>1 DEF SwitchNode, SwitchNoNode
  <1>5. mHasPendingEvent' \in BOOLEAN
    <2>1. mHasPendingEvent \in BOOLEAN
      BY FeedNow
    <2>2. mHasPendingEvent' \in {TRUE, on, mHasPendingEvent}
      BY <1>1, Zenon DEF SwitchNode, SwitchNoNode
    <2> QED BY <2>1, <2>2
  <1>6. /\ kind \in Fetching /\ on => mEnabledTime' = now + IgnoreTime
        /\ ~(kind \in Fetching /\ on) => mEnabledTime' = mEnabledTime
    BY <1>1 DEF SwitchNode, SwitchNoNode, Fetching
  <1>7. /\ mEnabledTime <= now + IgnoreTime /\ mEnabledTime \in Nat /\ now \in Nat
        /\ kind \notin Fetching => mEnabledTime = 0
        /\ IgnoreTime \in Nat /\ IgnoreTime > 0
    BY FeedNow, FrameAssumption DEF Dated
  <1>8. /\ mEnabledTime' \in Nat /\ mEnabledTime' >= mEnabledTime
        /\ mEnabledTime' <= now + IgnoreTime
        /\ kind \notin Fetching => mEnabledTime' = 0
        /\ kind \in Fetching /\ on => mEnabledTime' > now
    <2>1. CASE kind \in Fetching /\ on
      BY <1>6, <1>7, <2>1
    <2>2. CASE ~(kind \in Fetching /\ on)
      BY <1>6, <1>7, <2>2
    <2> QED BY <2>1, <2>2
  <1>9. \/ /\ mPendingEvent' = [mPendingEvent EXCEPT !.data = shown] /\ told' = shown
           /\ mHasPendingEvent' = TRUE /\ kind \in Starting
        \/ mPendingEvent' = mPendingEvent /\ told' = told
    BY <1>1 DEF SwitchNode, SwitchNoNode, Starting
  <1>10. kind \notin Starting => mHasPendingEvent' = FALSE
    <2> HAVE kind \notin Starting
    <2>1. kind # "gyro" /\ kind # "proximity"
      BY DEF Starting
    <2>2. mHasPendingEvent' = mHasPendingEvent
      BY <1>1, <2>1 DEF SwitchNode, SwitchNoNode
    <2>3. mHasPendingEvent \in BOOLEAN /\ ~mHasPendingEvent
      BY FeedNow DEF Starts
    <2> QED BY <2>2, <2>3
  <1>11. /\ mPendingEvent'.timestamp = mPendingEvent.timestamp
         /\ \/ /\ mPendingEvent'.data = shown /\ told' = shown
               /\ mHasPendingEvent' = TRUE
            \/ mPendingEvent'.data = mPendingEvent.data /\ told' = told
    BY <1>9, FeedNow DEF Pending
  <1> QED BY <1>2, <1>3, <1>4, <1>5, <1>8, <1>10, <1>11 DEF device, call

LEMMA SwitchStep ==
  ASSUME FeedInv, FrameInv', Enable
  PROVE  FeedInv'
  <1>1. /\ line' = line /\ now' = now /\ shown' = shown /\ kind' = kind
        /\ waiting' = waiting /\ mUseAbsTimeStamp' = mUseAbsTimeStamp
        /\ report_time' = report_time
        /\ doubt' = (IF mHasPendingEvent' THEN Len(waiting) ELSE doubt)
        /\ mPendingEvent'.timestamp = mPendingEvent.timestamp
    BY SwitchParts
  <1>2. doubt' \in Nat /\ doubt' <= Len(waiting') /\ (doubt' = 0 => doubt = 0 \/ waiting = << >>)
    BY <1>1, FeedNow DEF Starts
  <1>3. HistoryOK'
    BY <1>1, <1>2, SwitchParts, FeedNow DEF HistoryOK, Readings
  <1>4. Explained'
    <2>1. Explains(kind, line, waiting, mPendingEvent.data, doubt, told, shown)
      BY FeedNow DEF Explained
    <2>2. CASE mPendingEvent'.data = shown /\ told' = shown /\ mHasPendingEvent' = TRUE
      <3>1. Explains(kind, line, waiting, shown, Len(waiting), shown, shown)
        BY <2>1, FeedNow, RestartExplains
      <3>2. doubt' = Len(waiting)
        BY <1>1, <2>2
      <3> QED BY <1>1, <2>2, <3>1, <3>2, Zenon DEF Explained
    <2>3. CASE mPendingEvent'.data = mPendingEvent.data /\ told' = told
      <3>1. Explains(kind, line, waiting, mPendingEvent.data, Len(waiting), told, shown)
        BY <2>1, FeedNow, DoubtExplains
      <3>2. doubt' = Len(waiting) \/ doubt' = doubt
        BY <1>1
      <3> QED BY <1>1, <2>1, <2>3, <3>1, <3>2, Zenon DEF Explained
    <2> QED BY <2>2, <2>3, SwitchParts
  <1>5. Decoded'
    <2> SUFFICES ASSUME line # << >>
                 PROVE  /\ line[1].code = "SYN_TIME_NSEC" =>
                             report_time + line[1].value = waiting[1].time
                        /\ line[1].code = "SYN_REPORT" /\ waiting[1].stamped =>
                             /\ mUseAbsTimeStamp
                             /\ doubt' = 0 => mPendingEvent.timestamp = waiting[1].time
      BY <1>1 DEF Decoded
    <2>1. waiting # << >>
      BY BeginsNow
    <2> QED BY <1>2, <2>1, FeedNow DEF Decoded
  <1>6. Dated'
    BY <1>1, SwitchParts, FeedNow DEF Dated
  <1>7. Outdated'
    <2> SUFFICES ASSUME kind = "accel", mUseAbsTimeStamp, waiting = << >> \/ ~waiting[1].stamped
                 PROVE  /\ mPendingEvent.timestamp <= now
                        /\ mEnabled' => mPendingEvent.timestamp < mEnabledTime'
      BY <1>1 DEF Outdated
    <2>1. mPendingEvent.timestamp <= now
      BY FeedNow DEF Outdated
    <2>2. mEnabled' => mEnabledTime' > now /\ mEnabledTime' \in Nat
      BY SwitchParts DEF Fetching
    <2>3. mPendingEvent.timestamp \in Nat /\ now \in Nat
      BY FeedNow DEF Pending
    <2> QED BY <2>1, <2>2, <2>3
  <1>8. Starts'
    <2>1. kind \notin Starting => doubt' = 0 /\ ~mHasPendingEvent'
      BY <1>1, SwitchParts, FeedNow DEF Starts
    <2>2. mHasPendingEvent' => pc' = "idle"
      BY SwitchParts
    <2>3. mHasPendingEvent' /\ doubt' = 0 => line' = << >>
      <3>1. mHasPendingEvent' /\ doubt' = 0 => waiting = << >>
        BY <1>1, FeedNow
      <3> QED BY <1>1, <3>1, NoneLeft
    <2> QED BY <1>1, <1>2, <2>1, <2>2, <2>3, Zenon DEF Starts
  <1> QED BY <1>3, <1>4, <1>5, <1>6, <1>7, <1>8 DEF FeedInv

-----------------------------------------------------------------------------
\* A time is put together from its two halves.
LEMMA TimeHalves ==
  ASSUME NEW a \in Nat, NEW d \in Nat \ {0}
  PROVE  (a \div d) * d + (a % d) = a
  <1> DEFINE p == a \div d
             q == a % d
  <1>1. p \in Nat /\ q \in Nat /\ d * p + q = a
    OBVIOUS
  <1> HIDE DEF p, q
  <1>2. p * d = d * p
    BY <1>1
  <1>3. p * d + q = a
    BY <1>1, <1>2
  <1> QED BY <1>3, Zenon DEF p, q

\* The packet Measure posts, ...
packetOf(f, new, stamped) ==
  [i \in DOMAIN f |-> [code |-> f[i], value |-> new[f[i]]]]
    \o (IF stamped THEN stamp ELSE << >>)
    \o << [code |-> "SYN_REPORT", value |-> 0] >>

\* ... is a frame.
LEMMA PacketFrame ==
  ASSUME FeedInv, NEW new \in [AxesOf[kind] -> Value], NEW stamped \in BOOLEAN,
         NEW changed \in SUBSET AxesOf[kind], changed # {}, NEW f \in orders(changed)
  PROVE  IsFrame(packetOf(f, new, stamped), kind, Cardinality(changed), f, new, stamped, now)
  <1>1. IsFiniteSet(changed) /\ AxesOf[kind] \subseteq Axis
    BY FeedNow, FrameAssumption, FS_Subset DEF Axis
  <1>2. Cardinality(changed) \in Nat \ {0}
    BY <1>1, FS_CardinalityType, FS_EmptySet
  <1>3. PICK z \in Nat \ {0} : z = Cardinality(changed)
    BY <1>2
  <1>4. f \in [1 .. z -> changed] /\ \A a \in changed : \E i \in DOMAIN f : f[i] = a
    BY <1>3 DEF orders
  <1> DEFINE A == [i \in DOMAIN f |-> [code |-> f[i], value |-> new[f[i]]]]
             B == IF stamped THEN stamp ELSE << >>
             C == << [code |-> "SYN_REPORT", value |-> 0] >>
             U == Axis \cup {"SYN_TIME_SEC", "SYN_TIME_NSEC", "SYN_REPORT"}
             S == [code : U, value : Int]
  <1>5. /\ A \in Seq(S) /\ Len(A) = z
        /\ \A i \in 1 .. z : A[i].code = f[i] /\ A[i].value = new[f[i]]
    <2>1. DOMAIN f = 1 .. z /\ \A i \in 1 .. z : f[i] \in changed
      BY <1>4
    <2>2. \A i \in 1 .. z : [code |-> f[i], value |-> new[f[i]]] \in S
      BY <1>1, <2>1, FrameAssumption
    <2> QED BY <2>1, <2>2
  <1>6. now \in Nat /\ Second \in Nat \ {0}
    BY FeedNow, FrameAssumption
  <1>7. PICK x \in Nat, y \in Nat :
          x = now \div Second /\ y = now % Second /\ x * Second + y = now
    <2>1. now \div Second \in Nat /\ now % Second \in Nat
      BY <1>6
    <2> QED BY <1>6, <2>1, TimeHalves, Zenon
  <1>8. /\ B \in Seq(S) /\ Len(B) = (IF stamped THEN 2 ELSE 0)
        /\ stamped => /\ B[1].code = "SYN_TIME_SEC" /\ B[2].code = "SYN_TIME_NSEC"
                      /\ B[1].value = x /\ B[2].value = y
    <2>1. stamp = << [code |-> "SYN_TIME_SEC", value |-> x],
                     [code |-> "SYN_TIME_NSEC", value |-> y] >>
      BY <1>7, Zenon DEF stamp
    <2>2. PICK e1 \in S, e2 \in S :
            /\ e1.code = "SYN_TIME_SEC" /\ e1.value = x /\ e2.code = "SYN_TIME_NSEC" /\ e2.value = y
            /\ stamp = << e1, e2 >>
      <3>1. /\ [code |-> "SYN_TIME_SEC", value |-> x] \in S
            /\ [code |-> "SYN_TIME_NSEC", value |-> y] \in S
        OBVIOUS
      <3> QED BY <2>1, <3>1
    <2> HIDE DEF S
    <2>3. << e1, e2 >> \in Seq(S) /\ Len(<< e1, e2 >>) = 2
          /\ << e1, e2 >>[1] = e1 /\ << e1, e2 >>[2] = e2
      OBVIOUS
    <2>4. CASE stamped
      BY <2>2, <2>3, <2>4
    <2>5. CASE ~stamped
      BY <2>5
    <2> QED BY <2>4, <2>5
  <1>9. C \in Seq(S) /\ Len(C) = 1 /\ C[1].code = "SYN_REPORT"
    OBVIOUS
  <1> HIDE DEF A, B, C, S
  <1>10. Joined(A, B, A \o B) /\ A \o B \in Seq(S)
    BY <1>5, <1>8, JoinedConcat
  <1>11. Joined(A \o B, C, A \o B \o C)
    BY <1>9, <1>10, JoinedConcat
  <1>12. PICK b \in {0, 2} : b = Len(B) /\ b = (IF stamped THEN 2 ELSE 0)
    BY <1>8
  <1> DEFINE X == A \o B \o C
  <1>13. /\ Len(X) = z + b + 1
         /\ \A p \in 1 .. (z + b) : X[p] = (A \o B)[p]
         /\ X[z + b + 1] = C[1]
    <2>1. Len(A \o B) = z + b
      BY <1>5, <1>10, <1>12 DEF Joined
    <2>2. 1 \in 1 .. Len(C) /\ Len(C) = 1
      BY <1>9
    <2> HIDE DEF X
    <2>3. Joined(A \o B, C, X)
      BY <1>11 DEF X
    <2> QED BY <2>1, <2>2, <2>3 DEF Joined
  <1>14. /\ \A p \in 1 .. z : (A \o B)[p] = A[p]
         /\ \A i \in 1 .. b : (A \o B)[z + i] = B[i]
    BY <1>5, <1>10, <1>12 DEF Joined
  <1> HIDE DEF X
  <1>15. \A i \in 1 .. z : X[i].code = f[i] /\ X[i].value = new[f[i]]
    <2>1. \A i \in 1 .. z : i \in 1 .. (z + b)
      BY <1>12
    <2> QED BY <1>5, <1>13, <1>14, <2>1
  <1>16. stamped => /\ X[z + 1].code = "SYN_TIME_SEC" /\ X[z + 2].code = "SYN_TIME_NSEC"
                    /\ X[z + 1].value * Second + X[z + 2].value = now
    <2> HAVE stamped
    <2>1. /\ 1 \in 1 .. b /\ 2 \in 1 .. b
          /\ z + 1 \in 1 .. (z + b) /\ z + 2 \in 1 .. (z + b)
      BY <1>12
    <2>2. X[z + 1] = B[1] /\ X[z + 2] = B[2]
      BY <1>13, <1>14, <2>1
    <2>3. B[1].value * Second + B[2].value = now
      BY <1>7, <1>8
    <2> QED BY <1>8, <2>2, <2>3
  <1>17. Len(X) = z + 1 + (IF stamped THEN 2 ELSE 0) /\ X[Len(X)].code = "SYN_REPORT"
    <2>1. Len(X) = z + 1 + b
      BY <1>12, <1>13
    <2> QED BY <1>9, <1>12, <1>13, <2>1
  <1>18. f \in [1 .. z -> AxesOf[kind]]
    BY <1>4
  <1>19. IsFrame(X, kind, z, f, new, stamped, now)
    BY <1>15, <1>16, <1>17, <1>18, Zenon DEF IsFrame
  <1>20. X = packetOf(f, new, stamped)
    BY DEF X, A, B, C, packetOf
  <1> QED BY <1>3, <1>19, <1>20, Zenon

\* What the device does when it has a new reading.
LEMMA MeasureParts ==
  ASSUME FeedInv, Measure
  PROVE  \E new \in [AxesOf[kind] -> Value], r \in Readings : \E X, z, f :
           /\ IsFrame(X, kind, z, f, new, r.stamped, r.time)
           /\ r.stamped \in BOOLEAN /\ r.time = now
           /\ r.data = toldNext(kind, told, shown, new) /\ Differ(kind, z, f, new, shown)
           /\ Joined(line, X, line') /\ waiting' = Append(waiting, r)
           /\ shown' = new /\ told' = r.data
  <1>1. PICK new \in [AxesOf[kind] -> Value], stamped \in BOOLEAN :
          LET changed == {a \in AxesOf[kind] : new[a] # shown[a]}
          IN  /\ changed # {} /\ shown' = new
              /\ \E f \in orders(changed) :
                   Post([i \in DOMAIN f |-> [code |-> f[i], value |-> new[f[i]]]]
                          \o (IF stamped THEN stamp ELSE << >>)
                          \o << [code |-> "SYN_REPORT", value |-> 0] >>)
              /\ told' = [a \in AxesOf[kind] |-> IF a \in changed
                            THEN understood(new[a], told[a]) ELSE told[a]]
              /\ waiting' = Append(waiting,
                              [data |-> told', time |-> now, stamped |-> stamped])
    BY DEF Measure
  <1> DEFINE changed == {a \in AxesOf[kind] : new[a] # shown[a]}
             r == [data |-> toldNext(kind, told, shown, new), time |-> now, stamped |-> stamped]
  <1>2. /\ changed # {} /\ shown' = new
        /\ told' = [a \in AxesOf[kind] |-> IF a \in changed
                      THEN understood(new[a], told[a]) ELSE told[a]]
        /\ waiting' = Append(waiting, [data |-> told', time |-> now, stamped |-> stamped])
    BY <1>1
  <1>3. told' = toldNext(kind, told, shown, new)
    BY <1>2 DEF toldNext, understood, taken
  <1>4. toldNext(kind, told, shown, new) \in Known(kind)
    BY FeedNow DEF toldNext, Known
  <1>5. /\ r \in Readings /\ r.stamped = stamped /\ r.time = now
        /\ r.data = toldNext(kind, told, shown, new)
    <2> HIDE DEF changed
    <2> QED BY <1>4, FeedNow DEF Readings
  <1>6. waiting' = Append(waiting, r) /\ told' = r.data
    BY <1>2, <1>3
  <1>7. changed \in SUBSET AxesOf[kind]
        /\ \A a \in AxesOf[kind] : a \in changed <=> new[a] # shown[a]
    OBVIOUS
  <1>8. PICK f \in orders(changed) :
          Post([i \in DOMAIN f |-> [code |-> f[i], value |-> new[f[i]]]]
                 \o (IF stamped THEN stamp ELSE << >>)
                 \o << [code |-> "SYN_REPORT", value |-> 0] >>)
    BY <1>1
  <1> HIDE DEF changed, r
  <1> DEFINE X == packetOf(f, new, stamped)
             z == Cardinality(changed)
  <1>9. X \in Seq(InputEvent)
    BY <1>7, FeedNow, PacketType DEF FrameInv, packetOf
  <1>10. /\ IsFrame(X, kind, z, f, new, stamped, now)
         /\ \A a \in AxesOf[kind] : a \in changed <=> \E i \in 1 .. z : f[i] = a
    <2>1. changed # {} /\ changed \in SUBSET AxesOf[kind]
      BY <1>2, <1>7, Zenon
    <2>2. IsFrame(packetOf(f, new, stamped), kind, Cardinality(changed), f, new, stamped, now)
      BY <2>1, PacketFrame, Zenon
    <2>3. \A a \in AxesOf[kind] : a \in changed <=> \E i \in 1 .. Cardinality(changed) : f[i] = a
      BY <2>1 DEF orders
    <2> QED BY <2>2, <2>3
  <1>11. Post(X)
    BY <1>8 DEF packetOf
  <1> HIDE DEF X, z
  <1>12. Joined(line, X, line')
    BY <1>9, <1>11, FeedNow, LinePost
  <1>13. Differ(kind, z, f, new, shown)
    BY <1>7, <1>10 DEF Differ
  <1>14. IsFrame(X, kind, z, f, new, r.stamped, r.time)
    BY <1>5, <1>10, Zenon
  <1> QED BY <1>2, <1>5, <1>6, <1>12, <1>13, <1>14

LEMMA MeasureStep ==
  ASSUME FeedInv, FrameInv', Measure
  PROVE  FeedInv'
  <1>0. PICK new \in [AxesOf[kind] -> Value], r \in Readings : \E X, z, f :
          /\ IsFrame(X, kind, z, f, new, r.stamped, r.time)
          /\ r.stamped \in BOOLEAN /\ r.time = now
          /\ r.data = toldNext(kind, told, shown, new) /\ Differ(kind, z, f, new, shown)
          /\ Joined(line, X, line') /\ waiting' = Append(waiting, r)
          /\ shown' = new /\ told' = r.data
    BY MeasureParts
  <1>1. PICK X, z, f :
          /\ IsFrame(X, kind, z, f, new, r.stamped, r.time)
          /\ r.stamped \in BOOLEAN /\ r.time = now
          /\ r.data = toldNext(kind, told, shown, new) /\ Differ(kind, z, f, new, shown)
          /\ Joined(line, X, line') /\ waiting' = Append(waiting, r)
          /\ shown' = new /\ told' = r.data
    BY <1>0
  <1>2. /\ now' = now /\ kind' = kind /\ mEnabled' = mEnabled /\ mEnabledTime' = mEnabledTime
        /\ mHasPendingEvent' = mHasPendingEvent /\ mUseAbsTimeStamp' = mUseAbsTimeStamp
        /\ report_time' = report_time /\ mPendingEvent' = mPendingEvent
        /\ pc' = pc /\ doubt' = doubt
    BY DEF Measure, switch, decoder, call
  <1>3. Joined(waiting, << r >>, waiting')
    BY <1>1, FeedNow, JoinedAppend
  <1>4. HistoryOK'
    <2>1. Append(waiting, r) \in Seq(Readings) /\ r.data \in Known(kind)
      BY FeedNow DEF Readings
    <2> QED BY <1>1, <1>2, <2>1, FeedNow DEF HistoryOK, Readings
  <1>5. Explained'
    <2>1. Explains(kind, line, waiting, mPendingEvent.data, doubt, told, shown)
      BY FeedNow DEF Explained
    <2>2. Explains(kind, line', waiting', mPendingEvent.data, doubt, r.data, new)
      BY <1>1, <1>3, <2>1, FeedNow, ExtendExplains
    <2> QED BY <1>1, <1>2, <2>2, Zenon DEF Explained
  \* What is first in the line stays, and a new first event is an axis.
  <1>6. /\ line # << >> => line'[1] = line[1] /\ waiting # << >> /\ waiting'[1] = waiting[1]
        /\ line = << >> => line'[1].code \in Axis /\ waiting = << >>
    <2>1. CASE line # << >>
      <3>1. waiting # << >> /\ 1 \in 1 .. Len(line) /\ 1 \in 1 .. Len(waiting)
        BY <2>1, FeedNow, BeginsNow
      <3> QED BY <1>1, <1>3, <2>1, <3>1 DEF Joined
    <2>2. CASE line = << >>
      <3>1. Len(X) > 1 /\ Len(X) \in Nat /\ X[1].code \in Axis
        <4>1. FrameShape(X, z, r.stamped, r.time)
          BY <1>1, FeedNow, FrameCodes, Zenon
        <4> QED BY <4>1 DEF FrameShape
      <3>2. line'[0 + 1] = X[1]
        <4>1. 1 \in 1 .. Len(X) /\ Len(line) = 0
          BY <2>2, <3>1
        <4> QED BY <1>1, <4>1 DEF Joined
      <3> QED BY <2>2, <3>1, <3>2, NoneLeft
    <2> QED BY <2>1, <2>2
  <1>7. Decoded'
    <2>1. CASE line # << >>
      BY <1>2, <1>6, <2>1, FeedNow, Zenon DEF Decoded
    <2>2. CASE line = << >>
      <3>1. line'[1].code # "SYN_TIME_NSEC" /\ line'[1].code # "SYN_REPORT"
        BY <1>6, <2>2, FrameAssumption
      <3> QED BY <3>1 DEF Decoded
    <2> QED BY <2>1, <2>2
  <1>8. Dated'
    <2>1. \A m \in 1 .. Len(waiting') : waiting'[m].time <= now
      <3>1. PICK w \in Nat : w = Len(waiting) /\ Len(waiting') = w + 1 /\ waiting'[w + 1] = r
        <4>1. Len(<< r >>) = 1 /\ << r >>[1] = r /\ 1 \in 1 .. 1
          OBVIOUS
        <4> QED BY <1>3, <4>1 DEF Joined
      <3>2. \A m \in 1 .. w : waiting'[m] = waiting[m]
        BY <1>3, <3>1 DEF Joined
      <3>3. \A m \in 1 .. w : waiting[m].time <= now
        BY <3>1, FeedNow DEF Dated
      <3>4. r.time <= now
        BY <1>1, FeedNow
      <3> QED BY <3>1, <3>2, <3>3, <3>4
    <2> QED BY <1>2, <2>1, FeedNow DEF Dated
  <1>9. Outdated'
    <2> SUFFICES ASSUME kind = "accel", mUseAbsTimeStamp,
                        waiting' = << >> \/ ~waiting'[1].stamped
                 PROVE  /\ mPendingEvent.timestamp <= now
                        /\ mEnabled => mPendingEvent.timestamp < mEnabledTime
      BY <1>2 DEF Outdated
    <2>1. waiting' # << >>
      BY <1>1, FeedNow
    <2>2. waiting = << >> \/ ~waiting[1].stamped
      BY <1>6, <2>1
    <2> QED BY <2>2, FeedNow DEF Outdated
  <1>10. Starts'
    <2>1. Starts
      BY FeedNow
    <2>2. doubt <= Len(waiting')
      BY <1>3, <2>1, FeedNow DEF Starts, Joined
    <2>3. mHasPendingEvent /\ doubt = 0 => line'[1].code \in Axis
      BY <1>6, <2>1 DEF Starts
    <2> QED BY <1>2, <2>1, <2>2, <2>3 DEF Starts
  <1> QED BY <1>4, <1>5, <1>7, <1>8, <1>9, <1>10 DEF FeedInv

LEMMA FeedInvNext == FeedInv /\ [FrameNext]_frameVars => FeedInv'
  <1> SUFFICES ASSUME FeedInv, [FrameNext]_frameVars PROVE FeedInv'
    OBVIOUS
  <1>1. FrameInv'
    BY FeedNow, FrameInvNext
  <1> QED BY <1>1, QuietStep, MeasureStep, SwitchStep, InitialStep, AxisStep, SecStep,
             NsecStep, ReportStep DEF FrameNext

-----------------------------------------------------------------------------
(* Every step is a step of the feed or leaves it as it is.                 *)

LEMMA KnownReadout == kind \in Kinds => Known(kind) \subseteq Readout
  BY DEF Known, Readout

LEMMA FeedInit == FrameInit => Feed!Init
  <1> SUFFICES ASSUME FrameInit PROVE Feed!Init
    OBVIOUS
  <1>1. (kind = "accel") \in BOOLEAN
    OBVIOUS
  <1> QED BY <1>1, Zenon DEF FrameInit, Feed!Init

LEMMA FeedPost ==
  ASSUME FeedInv, Measure
  PROVE  Feed!Post
  <1>1. PICK r \in Readings : waiting' = Append(waiting, r)
    BY MeasureParts
  <1>2. r \in Feed!Reading
    <2>1. \A d \in Known(kind) : d \in Readout
      BY FeedNow, KnownReadout
    <2> QED BY <2>1 DEF Readings, Feed!Reading
  <1>3. /\ (kind' = "accel") = (kind = "accel") /\ doubt' = doubt
        /\ mEnabled' = mEnabled /\ mEnabledTime' = mEnabledTime
        /\ mHasPendingEvent' = mHasPendingEvent /\ data' = data
    BY DEF Measure, switch, call
  <1> QED BY <1>1, <1>2, <1>3 DEF Feed!Post

LEMMA FeedSwitch ==
  ASSUME FeedInv, Enable
  PROVE  Feed!Switch
  BY SwitchParts DEF Feed!Switch

LEMMA FeedInitial ==
  ASSUME FeedInv, ReadInitial
  PROVE  Feed!GiveInitial
  <1>1. /\ mHasPendingEvent /\ mHasPendingEvent' = FALSE
        /\ mPendingEvent' = [mPendingEvent EXCEPT !.timestamp = now]
        /\ IF mEnabled THEN Give(mPendingEvent') ELSE data' = data
        /\ kind' = kind /\ mEnabled' = mEnabled /\ mEnabledTime' = mEnabledTime
        /\ waiting' = waiting /\ doubt' = doubt
    BY DEF ReadInitial, device, switch
  <1>2. mPendingEvent' = [data |-> mPendingEvent.data, timestamp |-> now]
    BY <1>1, FeedNow DEF Pending
  <1>3. mPendingEvent.data \in Readout /\ now \in Time
    BY FeedNow, KnownReadout
  <1>4. mEnabled => Feed!Give(mPendingEvent.data, now)
    BY <1>1, <1>2 DEF Give, Feed!Give
  <1> QED BY <1>1, <1>3, <1>4 DEF Feed!GiveInitial

\* The report of a reading that is in doubt.
LEMMA FeedDoubtful ==
  ASSUME FeedInv, ReadReport, doubt > 0
  PROVE  Feed!SeeDoubtful
  <1>1. (reports /\ Give(mPendingEvent)) \/ data' = data
    BY DEF ReadReport
  <1>2. mPendingEvent.data \in Readout /\ mPendingEvent.timestamp \in Time
    BY FeedNow, KnownReadout DEF Dated
  <1>3. mPendingEvent = [data |-> mPendingEvent.data, timestamp |-> mPendingEvent.timestamp]
    BY FeedNow DEF Pending
  <1>4. reports /\ Give(mPendingEvent) =>
          mEnabled /\ Feed!Give(mPendingEvent.data, mPendingEvent.timestamp)
    BY <1>3 DEF reports, Give, Feed!Give
  <1>5. \/ data' = data
        \/ mEnabled /\ \E d \in Readout, t \in Time : Feed!Give(d, t)
    BY <1>1, <1>2, <1>4
  <1> QED BY <1>5, ReportTaken DEF Feed!SeeDoubtful

\* The report of one that is not: the driver has its values, and its time if
\* it is stamped.
LEMMA FeedNext ==
  ASSUME FeedInv, ReadReport, doubt = 0
  PROVE  Feed!SeeNext
  <1> DEFINE r == waiting[1]
  <1>1. /\ waiting # << >> /\ Head(waiting) = r /\ r \in Readings
        /\ line # << >> /\ line[1].code = "SYN_REPORT" /\ r.stamped \in BOOLEAN
    BY ReportTaken, FeedNow DEF Readings
  <1>2. mPendingEvent.data = r.data
    BY <1>1, BeginsNow
  <1>3. r.stamped => mUseAbsTimeStamp /\ mPendingEvent.timestamp = r.time
    BY <1>1, FeedNow DEF Decoded
  <1>4. mPendingEvent = [data |-> r.data, timestamp |-> mPendingEvent.timestamp]
    BY <1>2, FeedNow DEF Pending
  <1>5. /\ reports => Give(mPendingEvent)
        /\ ~reports => data' = data
    BY DEF ReadReport
  <1>6. mPendingEvent.timestamp \in Time /\ r.time \in Time /\ mPendingEvent.timestamp \in Nat
        /\ (kind \notin Fetching => mEnabledTime = 0)
    BY <1>1, FeedNow DEF Readings, Dated, Pending
  <1>7. \/ Feed!due(r) /\ Feed!Give(r.data, r.time)
        \/ ~Feed!due(r) /\ UNCHANGED data
        \/ mEnabled /\ kind # "accel" /\ ~r.stamped /\ \E t \in Time : Feed!Give(r.data, t)
    <2>1. CASE r.stamped
      <3>1. reports <=> Feed!due(r)
        <4>1. kind \notin Fetching => r.time >= mEnabledTime
          BY <1>3, <1>6, <2>1
        <4>2. reports <=> mEnabled /\ (kind \in Fetching => r.time >= mEnabledTime)
          BY <1>3, <2>1 DEF reports
        <4>3. Feed!due(r) <=> mEnabled /\ r.time >= mEnabledTime
          BY <2>1 DEF Feed!due
        <4> QED BY <4>1, <4>2, <4>3
      <3>2. reports => Feed!Give(r.data, r.time)
        BY <1>3, <1>4, <1>5, <2>1 DEF Give, Feed!Give
      <3> QED BY <1>5, <3>1, <3>2
    <2>2. CASE ~r.stamped
      <3>1. ~Feed!due(r)
        BY <2>2 DEF Feed!due
      <3>2. CASE reports
        <4>1. mEnabled /\ mUseAbsTimeStamp
          BY <3>2 DEF reports
        <4>2. kind # "accel"
          <5>1. ASSUME kind = "accel" PROVE FALSE
            <6>1. mPendingEvent.timestamp < mEnabledTime
              BY <2>2, <4>1, <5>1, FeedNow DEF Outdated
            <6>2. mPendingEvent.timestamp >= mEnabledTime
              BY <3>2, <5>1 DEF reports, Fetching
            <6> QED BY <1>6, <6>1, <6>2, FeedNow
          <5> QED BY <5>1
        <4>3. Feed!Give(r.data, mPendingEvent.timestamp)
          BY <1>4, <1>5, <3>2 DEF Give, Feed!Give
        <4> QED BY <1>6, <2>2, <4>1, <4>2, <4>3
      <3>3. CASE ~reports
        BY <1>5, <3>1, <3>3
      <3> QED BY <3>2, <3>3
    <2> QED BY <1>1, <2>1, <2>2
  <1>8. /\ waiting' = Tail(waiting) /\ doubt' = doubt
        /\ (kind' = "accel") = (kind = "accel")
        /\ mEnabled' = mEnabled /\ mEnabledTime' = mEnabledTime
        /\ mHasPendingEvent' = mHasPendingEvent
    BY ReportTaken, FeedNow
  <1> HIDE DEF r
  <1> QED BY <1>1, <1>7, <1>8, Zenon DEF Feed!SeeNext

LEMMA FeedQuiet ==
  ASSUME FeedInv, FrameInv,
         Tick \/ BeginRead \/ ReadAgain \/ ReadAxis \/ ReadSec \/ ReadNsec \/ UNCHANGED frameVars
  PROVE  UNCHANGED Feed!vars
  <1>1. /\ kind' = kind /\ mEnabled' = mEnabled /\ mEnabledTime' = mEnabledTime
        /\ mHasPendingEvent' = mHasPendingEvent /\ data' = data
        /\ waiting' = waiting /\ doubt' = doubt
    BY DEF Tick, BeginRead, ReadAgain, ReadAxis, ReadSec, ReadNsec, Taking, frameVars,
           device, switch, call, history
  <1> QED BY <1>1 DEF Feed!vars

LEMMA FeedReturn ==
  ASSUME EndRead
  PROVE  Feed!Return
  <1>1. /\ kind' = kind /\ mEnabled' = mEnabled /\ mEnabledTime' = mEnabledTime
        /\ mHasPendingEvent' = mHasPendingEvent /\ data' = << >>
        /\ waiting' = waiting /\ doubt' = doubt
    BY DEF EndRead, device, switch, history
  <1> QED BY <1>1 DEF Feed!Return

LEMMA FeedStep == FeedInv /\ [FrameNext]_frameVars => [Feed!Next]_(Feed!vars)
  <1> SUFFICES ASSUME FeedInv, [FrameNext]_frameVars PROVE [Feed!Next]_(Feed!vars)
    OBVIOUS
  <1>1. doubt = 0 \/ doubt > 0
    BY FeedNow
  <1>2. ReadReport => Feed!SeeNext \/ Feed!SeeDoubtful
    BY <1>1, FeedNext, FeedDoubtful
  <1>3. Tick \/ BeginRead \/ ReadAgain \/ ReadAxis \/ ReadSec \/ ReadNsec \/ UNCHANGED frameVars
          => UNCHANGED Feed!vars
    BY FeedNow, FeedQuiet
  <1> QED BY <1>2, <1>3, FeedPost, FeedSwitch, FeedInitial, FeedReturn
          DEF FrameNext, Feed!Next

\* However frames are cut by the ring, by the room of a call and by switching,
\* a driver feeds the framework as ReadingFeed says: each stamped reading that
\* is not early becomes one event, in order, whole and with its own time.
THEOREM FeedRefined == FrameSpec => FeedSpec
  BY FeedInvInit, FeedInvNext, FeedInit, FeedStep, PTL DEF FrameSpec, FeedSpec, Feed!Spec
=============================================================================
