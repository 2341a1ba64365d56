------------------------- MODULE VirtualRingProofs -------------------------
(***************************************************************************)
(* The ring of a virtual sensor is a queue, and what waits in it is fused  *)
(* of the newest samples, for every size of the ring.                      *)
(***************************************************************************)
EXTENDS VirtualRing, SequenceTheorems, TLAPS

USE SizeAssumption DEF Slot, waiting

\* As long as nothing was lost, the algorithm holds the newest sample.
NewestNoted ==
  (~lost /\ algo # "uncalibrated") => /\ acc \in accs \cup {0}
                                      /\ \A a \in accs : a <= acc

\* What waits is a result, of a sample that has arrived.
ResultsArrived ==
  \A i \in 1 .. waiting : /\ mBuffer[slotOf(i)] \in Result
                          /\ mBuffer[slotOf(i)].mag <= samples

RingInv ==
  /\ TypeOK
  /\ mRead + waiting - mWrite \in {0, N}
  /\ ResultsArrived

FusionInv == NewestNoted /\ FusesNewest

-----------------------------------------------------------------------------
\* The results on offer are the contents of distinct slots of the ring.
LEMMA SlotsOfResults ==
  TypeOK => /\ waiting \in 0 .. N
            /\ \A i \in 1 .. waiting : /\ slotOf(i) \in Slot
                                       /\ results[i] = mBuffer[slotOf(i)]
  BY DEF TypeOK, slotOf, results

\* A magnetometer sample goes into a slot that nothing waits in.
LEMMA FreshSlot ==
  ASSUME RingInv, mFreeSpace > 0
  PROVE  /\ slotOf(waiting + 1) = mWrite
         /\ \A i \in 1 .. waiting : slotOf(i) # mWrite
  BY DEF RingInv, TypeOK, slotOf

\* A sample that leaves the ring alone leaves what waits in it as it was.
LEMMA RingKept ==
  ASSUME RingInv, UNCHANGED ring, samples' = samples + 1
  PROVE  ResultsArrived'
  <1>1. waiting' = waiting /\ mBuffer' = mBuffer /\ \A i : slotOf(i)' = slotOf(i)
    BY DEF ring, slotOf
  <1>2. samples \in Nat
    BY DEF RingInv, TypeOK
  <1> HIDE DEF waiting
  <1>3. ASSUME NEW i \in 1 .. waiting
        PROVE  /\ mBuffer[slotOf(i)] \in Result
               /\ mBuffer[slotOf(i)].mag <= samples'
    <2>1. mBuffer[slotOf(i)] \in Result /\ mBuffer[slotOf(i)].mag <= samples
      BY DEF RingInv, ResultsArrived
    <2>2. mBuffer[slotOf(i)].mag \in Nat
      BY <2>1 DEF Result
    <2> QED BY <2>1, <2>2, <1>2
  <1> QED BY <1>1, <1>3 DEF ResultsArrived

LEMMA RingInit == Init => RingInv
  <1> SUFFICES ASSUME Init PROVE RingInv
    OBVIOUS
  <1>1. TypeOK
    <2>1. mBuffer \in [Slot -> Result \cup {NoResult}]
      BY DEF Init
    <2>2. accs \subseteq 1 .. samples
      BY DEF Init
    <2>3. algo \in Algo /\ lost \in BOOLEAN
      BY DEF Init
    <2> QED BY <2>1, <2>2, <2>3 DEF Init, TypeOK
  <1>2. mRead + waiting - mWrite \in {0, N}
    BY DEF Init
  <1>3. waiting = 0
    BY DEF Init
  <1>4. ResultsArrived
    BY <1>3 DEF ResultsArrived
  <1> QED BY <1>1, <1>2, <1>4 DEF RingInv

\* Whatever is done to it, the ring keeps its pointers and its contents.
LEMMA RingNext == RingInv /\ [Next]_vars => RingInv'
  <1> SUFFICES ASSUME RingInv, [Next]_vars PROVE RingInv'
    OBVIOUS
  <1> USE DEF RingInv
  <1>1. CASE UNCHANGED vars
    BY <1>1 DEF TypeOK, ResultsArrived, slotOf, vars, ring
  <1>2. CASE InjectAcc
    <2>1. TypeOK'
      BY <1>2 DEF InjectAcc, Arrive, ring, TypeOK
    <2>2. ResultsArrived'
      BY <1>2, RingKept DEF InjectAcc, Arrive
    <2> QED BY <1>2, <2>1, <2>2 DEF InjectAcc, ring
  <1>3. CASE InjectMag
    <2> DEFINE new == [mag |-> samples', acc |-> acc]
    <2>1. new \in Result /\ new.mag = samples'
      BY <1>3 DEF InjectMag, Arrive, TypeOK, Result
    <2>2. TypeOK'
      BY <1>3, <2>1 DEF InjectMag, Arrive, TypeOK
    <2>3. (mRead + waiting - mWrite \in {0, N})'
      BY <1>3 DEF InjectMag, TypeOK
    <2>4. ResultsArrived'
      <3>1. waiting' = waiting + 1 /\ waiting \in Nat /\ samples' = samples + 1
            /\ samples \in Nat
        BY <1>3 DEF InjectMag, Arrive, TypeOK
      <3>2. \A i : slotOf(i)' = slotOf(i)
        BY <1>3 DEF InjectMag, slotOf
      <3>3. mBuffer' = [mBuffer EXCEPT ![mWrite] = new] /\ mFreeSpace > 0
        BY <1>3 DEF InjectMag
      <3>4. mBuffer'[mWrite] = new
        BY <3>3 DEF TypeOK
      <3>5. ASSUME NEW i \in 1 .. waiting
            PROVE  /\ mBuffer'[slotOf(i)] \in Result
                   /\ mBuffer'[slotOf(i)].mag <= samples'
        <4>1. mBuffer'[slotOf(i)] = mBuffer[slotOf(i)]
          BY <3>3, FreshSlot, SlotsOfResults DEF TypeOK
        <4>2. mBuffer[slotOf(i)] \in Result /\ mBuffer[slotOf(i)].mag <= samples
          BY DEF ResultsArrived
        <4>3. mBuffer[slotOf(i)].mag \in Nat
          BY <4>2 DEF Result
        <4> QED BY <3>1, <4>1, <4>2, <4>3
      <3>6. samples' <= samples'
        BY <3>1
      <3>7. slotOf(waiting + 1) = mWrite
        BY <3>3, FreshSlot
      <3> HIDE DEF new, waiting
      <3>8. \A i \in 1 .. (waiting + 1) : i \in 1 .. waiting \/ i = waiting + 1
        BY <3>1
      <3>9. ASSUME NEW i \in 1 .. (waiting + 1)
            PROVE  /\ mBuffer'[slotOf(i)] \in Result
                   /\ mBuffer'[slotOf(i)].mag <= samples'
        BY <2>1, <3>4, <3>5, <3>6, <3>7, <3>8
      <3> QED BY <3>1, <3>2, <3>9 DEF ResultsArrived
    <2> QED BY <2>2, <2>3, <2>4
  <1>4. CASE InjectFull
    <2>1. TypeOK'
      BY <1>4 DEF InjectFull, Arrive, ring, TypeOK
    <2>2. ResultsArrived'
      BY <1>4, RingKept DEF InjectFull, Arrive
    <2> QED BY <1>4, <2>1, <2>2 DEF InjectFull, ring
  <1>5. CASE Read
    <2> PICK n \in 1 .. waiting :
          /\ mRead' = IF mRead + n >= N THEN mRead + n - N ELSE mRead + n
          /\ mFreeSpace' = mFreeSpace + n
          /\ UNCHANGED <<algo, mBuffer, mWrite, acc, samples, accs, lost>>
      BY <1>5 DEF Read
    <2>1. TypeOK'
      BY DEF TypeOK
    <2>2. (mRead + waiting - mWrite \in {0, N})'
      BY DEF TypeOK
    <2>3. \A i \in 1 .. waiting' : i + n \in 1 .. waiting /\ slotOf(i)' = slotOf(i + n)
      BY DEF TypeOK, slotOf
    <2>4. ResultsArrived'
      BY <2>3 DEF ResultsArrived
    <2> QED BY <2>1, <2>2, <2>4
  <1> QED BY <1>1, <1>2, <1>3, <1>4, <1>5 DEF Next

\* Every reachable state is well typed, for a ring of any size.
THEOREM TypeCorrect == Spec => []TypeOK
  <1>1. RingInv => TypeOK
    BY DEF RingInv
  <1> QED BY RingInit, RingNext, <1>1, PTL DEF Spec

-----------------------------------------------------------------------------
\* The results on offer form a sequence.
LEMMA ResultsType ==
  ASSUME RingInv
  PROVE  results \in Seq(Result) /\ Len(results) = waiting
  <1>1. \A i \in 1 .. waiting : mBuffer[slotOf(i)] \in Result
    BY DEF RingInv, ResultsArrived
  <1>2. waiting \in Nat
    BY DEF RingInv, TypeOK
  <1> HIDE DEF waiting
  <1> QED BY <1>1, <1>2 DEF results

LEMMA ResultsKept ==
  ASSUME UNCHANGED ring
  PROVE  results' = results
  BY DEF ring, results, slotOf

\* injectEvents() puts the result behind those that wait.
LEMMA InjectAppends ==
  ASSUME RingInv, RingInv', InjectMag
  PROVE  /\ Len(results) < N
         /\ results' = Append(results, [mag |-> samples', acc |-> acc])
  <1> DEFINE new == [mag |-> samples', acc |-> acc]
  <1>1. new \in Result
    BY DEF RingInv, TypeOK, InjectMag, Arrive, Result
  <1>2. /\ waiting \in Nat /\ waiting < N /\ waiting' = waiting + 1
        /\ mFreeSpace > 0 /\ mBuffer' = [mBuffer EXCEPT ![mWrite] = new]
        /\ \A i : slotOf(i)' = slotOf(i)
    BY DEF RingInv, TypeOK, InjectMag, slotOf
  <1>3. results \in Seq(Result) /\ Len(results) = waiting
    BY ResultsType
  <1>4. results' \in Seq(Result) /\ Len(results') = waiting + 1
    <2>1. (results \in Seq(Result) /\ Len(results) = waiting)'
      BY ResultsType, PTL
    <2> QED BY <2>1, <1>2
  <1>5. /\ Append(results, new) \in Seq(Result)
        /\ Len(Append(results, new)) = waiting + 1
    BY <1>1, <1>3, AppendProperties
  <1>6. mBuffer \in [Slot -> Result \cup {NoResult}] /\ mWrite \in Slot
    BY DEF RingInv, TypeOK
  <1>7. slotOf(waiting + 1) = mWrite /\ \A i \in 1 .. waiting : slotOf(i) # mWrite
    BY <1>2, FreshSlot
  <1>8. \A i \in 1 .. waiting : slotOf(i) \in Slot /\ results[i] = mBuffer[slotOf(i)]
    BY SlotsOfResults DEF RingInv
  <1>9. \A i \in 1 .. (waiting + 1) : results'[i] = mBuffer'[slotOf(i)]
    BY <1>2 DEF results
  <1> HIDE DEF new, waiting
  <1>10. ASSUME NEW i \in 1 .. (waiting + 1)
         PROVE  results'[i] = Append(results, new)[i]
    <2>1. CASE i = waiting + 1
      <3>1. results'[i] = new
        BY <2>1, <1>2, <1>6, <1>7, <1>9
      <3> QED BY <2>1, <3>1, <1>1, <1>3, AppendProperties
    <2>2. CASE i # waiting + 1
      <3>1. i \in 1 .. waiting
        BY <2>2, <1>2
      <3>2. results'[i] = results[i]
        BY <3>1, <1>2, <1>6, <1>7, <1>8, <1>9
      <3> QED BY <3>1, <3>2, <1>1, <1>3, AppendProperties
    <2> QED BY <2>1, <2>2
  <1>11. results' = Append(results, new)
    BY <1>4, <1>5, <1>10, SeqEqual
  <1> QED BY <1>2, <1>3, <1>11 DEF new

\* readEvents() takes the oldest results and no others.
LEMMA ReadTakes ==
  ASSUME RingInv, Read
  PROVE  \E n \in 1 .. Len(results) :
           results' = SubSeq(results, n + 1, Len(results))
  <1> PICK n \in 1 .. waiting :
        /\ mRead' = IF mRead + n >= N THEN mRead + n - N ELSE mRead + n
        /\ mFreeSpace' = mFreeSpace + n
        /\ UNCHANGED <<algo, mBuffer, mWrite, acc, samples, accs, lost>>
    BY DEF Read
  <1>1. /\ waiting \in Nat /\ waiting' = waiting - n
        /\ \A i \in 1 .. (waiting - n) : slotOf(i)' = slotOf(i + n)
        /\ mBuffer' = mBuffer
    BY DEF RingInv, TypeOK, slotOf
  <1>2. results \in Seq(Result) /\ Len(results) = waiting
    BY ResultsType
  <1>3. results' = [i \in 1 .. (waiting - n) |-> results[i + n]]
    <2>1. \A i \in 1 .. (waiting - n) : i + n \in 1 .. waiting
      BY <1>1
    <2> HIDE DEF waiting
    <2>2. \A i \in 1 .. (waiting - n) : mBuffer'[slotOf(i)'] = results[i + n]
      BY <1>1, <2>1 DEF results
    <2>3. results' = [i \in 1 .. (waiting - n) |-> mBuffer'[slotOf(i)']]
      BY <1>1 DEF results
    <2> QED BY <2>2, <2>3
  <1>4. SubSeq(results, n + 1, waiting) = [i \in 1 .. (waiting - n) |-> results[i + n]]
    <2> HIDE DEF waiting
    <2>1. waiting - n = waiting - (n + 1) + 1
      BY <1>1
    <2> QED BY <1>1, <1>2, <2>1
  <1> HIDE DEF waiting
  <1> QED BY <1>2, <1>3, <1>4

LEMMA QueueInit == Init => Queue!Init
  BY DEF Init, Queue!Init, results

\* Every step of the ring is a step of the queue.
LEMMA QueueNext == RingInv /\ RingInv' /\ [Next]_vars => [Queue!Next]_(Queue!vars)
  <1> SUFFICES ASSUME RingInv, RingInv', [Next]_vars PROVE [Queue!Next]_(Queue!vars)
    OBVIOUS
  <1> USE DEF Queue!vars, Queue!Arrive
  <1>1. CASE UNCHANGED vars
    BY <1>1, ResultsKept DEF vars
  <1>2. CASE InjectAcc
    <2>1. results' = results
      BY <1>2, ResultsKept DEF InjectAcc
    <2>2. CASE algo # "uncalibrated"
      BY <1>2, <2>1, <2>2 DEF InjectAcc, Arrive, Queue!Next, Queue!Note
    <2>3. CASE algo = "uncalibrated"
      BY <1>2, <2>1, <2>3 DEF InjectAcc, Arrive, Queue!Next, Queue!Ignore
    <2> QED BY <2>2, <2>3
  <1>3. CASE InjectMag
    BY <1>3, InjectAppends DEF InjectMag, Arrive, Queue!Next, Queue!Fuse
  <1>4. CASE InjectFull
    <2>1. results' = results /\ Len(results) = N
      BY <1>4, ResultsKept, ResultsType DEF InjectFull
    <2> QED BY <1>4, <2>1 DEF InjectFull, Arrive, Queue!Next, Queue!Ignore
  <1>5. CASE Read
    <2>1. UNCHANGED <<algo, samples, acc>>
      BY <1>5 DEF Read
    <2> QED BY <1>5, <2>1, ReadTakes DEF Queue!Next, Queue!Take
  <1> QED BY <1>1, <1>2, <1>3, <1>4, <1>5 DEF Next

\* The ring of a virtual sensor implements the queue: each result is handed
\* out once, unaltered and in its turn, and a sample is left out only when
\* the ring is full.
THEOREM Refinement == Spec => QueueSpec
  <1> QED BY RingInit, RingNext, QueueInit, QueueNext, PTL
          DEF Spec, QueueSpec, Queue!Spec
-----------------------------------------------------------------------------
LEMMA FusionInit == Init => FusionInv
  BY DEF Init, FusionInv, NewestNoted, FusesNewest

\* A result stays fused of the newest whatever arrives after it.
LEMMA OlderKept ==
  ASSUME RingInv, NEW r \in Result, r.mag <= samples, OfNewest(r),
         samples' = samples + 1, accs' \in {accs, accs \cup {samples'}}
  PROVE  /\ r.acc \in accs' \cup {0}
         /\ \A a \in accs' : a < r.mag => a <= r.acc
  <1>1. r.mag \in Nat /\ samples \in Nat /\ r.mag < samples'
    BY DEF Result, RingInv, TypeOK
  <1>2. accs \subseteq accs'
    OBVIOUS
  <1>3. \A a \in accs' : a < r.mag => a \in accs
    BY <1>1
  <1> QED BY <1>2, <1>3 DEF OfNewest

LEMMA FusionNext == RingInv /\ RingInv' /\ FusionInv /\ [Next]_vars => FusionInv'
  <1> SUFFICES ASSUME RingInv, RingInv', FusionInv, [Next]_vars PROVE FusionInv'
    OBVIOUS
  <1> USE DEF FusionInv
  <1>1. /\ samples \in Nat /\ accs \subseteq 1 .. samples /\ acc \in 0 .. samples
        /\ waiting \in Nat
    BY DEF RingInv, TypeOK
  <1>2. /\ \A i \in 1 .. waiting : results[i] \in Result /\ results[i].mag <= samples
        /\ Len(results) = waiting /\ results \in Seq(Result)
    BY ResultsType, SlotsOfResults DEF RingInv, ResultsArrived
  <1>3. CASE UNCHANGED vars
    <2>1. results' = results /\ waiting' = waiting
      BY <1>3, ResultsKept DEF vars, ring
    <2> QED BY <1>3, <2>1 DEF vars, NewestNoted, FusesNewest, OfNewest
  <1>4. CASE InjectAcc
    <2>1. /\ results' = results /\ waiting' = waiting
          /\ algo' = algo /\ lost' = lost /\ samples' = samples + 1
          /\ accs' = accs \cup {samples'}
          /\ acc' = IF algo # "uncalibrated" THEN samples' ELSE acc
      BY <1>4, ResultsKept DEF InjectAcc, Arrive, ring
    <2> HIDE DEF waiting
    <2>2. NewestNoted'
      BY <1>1, <2>1 DEF NewestNoted
    <2>3. ASSUME ~lost, algo # "uncalibrated", NEW i \in 1 .. waiting
          PROVE  /\ results[i].acc \in accs' \cup {0}
                 /\ \A a \in accs' : a < results[i].mag => a <= results[i].acc
      <3>1. OfNewest(results[i]) /\ results[i] \in Result /\ results[i].mag <= samples
        BY <1>2, <2>3 DEF FusesNewest
      <3> QED BY <2>1, <3>1, OlderKept
    <2>4. FusesNewest'
      <3>1. FusesNewest' <=>
              ((~lost /\ algo # "uncalibrated") =>
                \A i \in 1 .. waiting :
                  /\ results[i].acc \in accs' \cup {0}
                  /\ \A a \in accs' : a < results[i].mag => a <= results[i].acc)
        BY <2>1 DEF FusesNewest, OfNewest
      <3> QED BY <2>3, <3>1
    <2> QED BY <2>2, <2>4
  <1>5. CASE InjectMag
    <2> DEFINE new == [mag |-> samples', acc |-> acc]
    <2>1. /\ results' = Append(results, new) /\ waiting' = waiting + 1
          /\ UNCHANGED <<algo, lost, acc, accs>> /\ samples' = samples + 1
      <3>1. results' = Append(results, new)
        BY <1>5, InjectAppends
      <3>2. waiting' = waiting + 1
        BY <1>5 DEF RingInv, TypeOK, InjectMag
      <3> QED BY <1>5, <3>1, <3>2 DEF InjectMag, Arrive
    <2>2. NewestNoted'
      BY <2>1 DEF NewestNoted
    <2>3. new \in Result
      BY <1>1, <2>1 DEF Result
    <2> HIDE DEF waiting
    <2>4. SUFFICES ASSUME ~lost, algo # "uncalibrated", NEW i \in 1 .. (waiting + 1)
                   PROVE  /\ results'[i].acc \in accs' \cup {0}
                          /\ \A a \in accs' : a < results'[i].mag => a <= results'[i].acc
      BY <2>1, <2>2 DEF FusesNewest, OfNewest
    <2>5. CASE i = waiting + 1
      <3>1. results'[i] = new
        BY <1>2, <2>1, <2>3, <2>5, AppendProperties
      <3>2. new.acc = acc
        OBVIOUS
      <3> HIDE DEF new
      <3>3. acc \in accs \cup {0} /\ \A a \in accs : a <= acc
        BY <2>4 DEF NewestNoted
      <3> QED BY <2>1, <3>1, <3>2, <3>3
    <2>6. CASE i # waiting + 1
      <3>1. i \in 1 .. waiting
        BY <1>1, <2>6
      <3>2. results'[i] = results[i]
        BY <1>2, <2>1, <2>3, <3>1, AppendProperties
      <3>3. OfNewest(results[i])
        BY <2>4, <3>1 DEF FusesNewest
      <3>4. results[i] \in Result /\ results[i].mag <= samples
        BY <1>2, <3>1
      <3>5. accs' \in {accs, accs \cup {samples'}}
        BY <2>1
      <3> QED BY <2>1, <3>2, <3>3, <3>4, <3>5, OlderKept
    <2> QED BY <2>5, <2>6
  <1>6. CASE InjectFull
    BY <1>6 DEF InjectFull, NewestNoted, FusesNewest
  <1>7. CASE Read
    <2>1. UNCHANGED <<algo, lost, acc, accs>>
      BY <1>7 DEF Read
    <2>2. PICK n \in 1 .. Len(results) :
             results' = SubSeq(results, n + 1, Len(results))
      BY <1>7, ReadTakes
    <2>3. Len(results') = waiting'
      <3>1. (results \in Seq(Result) /\ Len(results) = waiting)'
        BY ResultsType, PTL
      <3> QED BY <3>1
    <2> HIDE DEF waiting
    <2>4. waiting' = waiting - n
      BY <1>1, <1>2, <2>2, <2>3
    <2>5. \A i \in 1 .. waiting' : i + n \in 1 .. waiting /\ results'[i] = results[i + n]
      BY <1>1, <1>2, <2>2, <2>4
    <2>6. NewestNoted'
      BY <2>1 DEF NewestNoted
    <2>7. FusesNewest'
      BY <2>1, <2>5 DEF FusesNewest, OfNewest
    <2> QED BY <2>6, <2>7
  <1> QED BY <1>3, <1>4, <1>5, <1>6, <1>7 DEF Next

\* For a ring of any size that never was full, every orientation and rotation
\* is made of the newest accelerometer sample before its magnetometer sample.
THEOREM FusionCorrect == Spec => []FusesNewest
  <1>1. FusionInv => FusesNewest
    BY DEF FusionInv
  <1> QED BY RingInit, RingNext, FusionInit, FusionNext, <1>1, PTL DEF Spec
=============================================================================
