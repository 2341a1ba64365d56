--------------------------- MODULE PollLoopProofs ---------------------------
(***************************************************************************)
(* The polling thread never meets an empty descriptor, never sleeps on an  *)
(* event no descriptor would wake it for, and never overflows or leaves    *)
(* stale a virtual sensor's ring: for any number of sensors, any           *)
(* dependencies, any room, and any failures.                               *)
(***************************************************************************)
EXTENDS PollLoop, FiniteSetTheorems, TLAPS

USE DEF Hw, Virtual, Sensor

-----------------------------------------------------------------------------
(* The inductive invariant.                                                *)

\* Hardware sensors the scan has yet to read before the next poll().
pending == revents \cup {h \in Hw : initial[h]}

\* While there is room, the scan leaves nothing behind it.
ScannedDry ==
  (pc \in {"scan", "fetch"} /\ count > 0) =>
    \A s \in 1 .. (index - 1) : ~hasPendingEvents(s)

\* The fetch loop is inside the scan of one hardware sensor.
FetchInScan ==
  IF pc = "fetch"
    THEN index \in Hw /\ count > 0 /\ index \in revents /\ ~initial[index]
    ELSE left = 0

\* A command is only read when there is one, and the scan after it is whole.
CommandReady == pc = "cmd" => pipe # << >> /\ index = 1

\* A ring holds at most the frames of the sensors read since the last poll().
RingBound ==
  \A v \in Virtual : ring[v] + Frames * Cardinality(pending) <= Frames * NumHw

IInv ==
  /\ TypeOK
  /\ ReadyMeansReadable
  /\ DrainedBeforePoll
  /\ NoStaleEvents
  /\ ScannedDry
  /\ FetchInScan
  /\ CommandReady

-----------------------------------------------------------------------------
(* What the operators the actions are built from do.                       *)

LEMMA SmallerProperties ==
  ASSUME NEW a \in Int, NEW b \in Int
  PROVE  /\ smaller(a, b) \in {a, b}
         /\ smaller(a, b) <= a /\ smaller(a, b) <= b
  BY DEF smaller

\* Events reach enabled virtual sensors only, at most got in each ring.
LEMMA InjectEffect ==
  ASSUME TypeOK, NEW h \in Hw, NEW got \in Nat, inject(h, got)
  PROVE  /\ ring' \in [Virtual -> Nat] /\ dropped' \in BOOLEAN
         /\ \A v \in Virtual : ring'[v] <= ring[v] + got
         /\ \A v \in Virtual : ring'[v] > 0 => ring[v] > 0 \/ enable[v]
         /\ (\A v \in Virtual : ring[v] + got <= MaxEvents)
              => dropped' = dropped
  <1> DEFINE to == {v \in listeners[h] \cap Virtual : enable[v]}
  <1>1. PICK out \in [to -> 0 .. got] :
          /\ ring' = [v \in Virtual |-> IF v \in to
                        THEN smaller(ring[v] + out[v], MaxEvents) ELSE ring[v]]
          /\ dropped' = (dropped \/ \E v \in to : ring[v] + out[v] > MaxEvents)
    BY DEF inject
  <1>2. ring \in [Virtual -> Nat] /\ dropped \in BOOLEAN /\ MaxEvents \in Nat
    BY SizeAssumption DEF TypeOK
  <1>3. \A v \in to : v \in Virtual /\ enable[v] /\ out[v] \in 0 .. got
    OBVIOUS
  <1> HIDE DEF to
  <1>4. \A v \in to : /\ smaller(ring[v] + out[v], MaxEvents) \in Nat
                      /\ smaller(ring[v] + out[v], MaxEvents) <= ring[v] + got
    BY <1>2, <1>3 DEF smaller
  <1>5. \A v \in Virtual : ring'[v] = IF v \in to
                        THEN smaller(ring[v] + out[v], MaxEvents) ELSE ring[v]
    BY <1>1
  <1>6. ring' \in [Virtual -> Nat]
    BY <1>1, <1>2, <1>4
  <1>7. \A v \in Virtual : ring'[v] <= ring[v] + got
    BY <1>2, <1>4, <1>5
  <1>8. \A v \in Virtual : ring'[v] > 0 => ring[v] > 0 \/ enable[v]
    BY <1>3, <1>5
  <1>9. ASSUME \A v \in Virtual : ring[v] + got <= MaxEvents
        PROVE  ~ \E v \in to : ring[v] + out[v] > MaxEvents
    BY <1>2, <1>3, <1>9
  <1>10. dropped' \in BOOLEAN
    BY <1>1
  <1>11. (\A v \in Virtual : ring[v] + got <= MaxEvents) => dropped' = dropped
    BY <1>1, <1>2, <1>9, Zenon
  <1> QED BY <1>6, <1>7, <1>8, <1>10, <1>11

\* A pass over the frames keeps the reader within bounds, touches no other
\* sensor and makes no more events than it found frames or had room for.
LEMMA ReadFramesEffect ==
  ASSUME TypeOK, NEW h \in Hw, NEW c \in Nat, NEW got \in 0 .. c,
         NEW early \in 0 .. c, ReadFrames(h, c, got, early)
  PROVE  /\ kernel' \in [Hw -> Nat] /\ held' \in [Hw -> 0 .. Frames]
         /\ \A g \in Hw : g # h => kernel'[g] = kernel[g]
         /\ got + early <= c /\ got <= Frames
  <1> DEFINE have == held[h] + fillable(h)
  <1>1. /\ kernel \in [Hw -> Nat] /\ held \in [Hw -> 0 .. Frames]
        /\ Frames \in Nat
    BY SizeAssumption DEF TypeOK
  <1>2. fillable(h) \in 0 .. kernel[h] /\ have \in 0 .. Frames
    BY <1>1 DEF fillable, smaller
  <1>3. kernel' = [kernel EXCEPT ![h] = @ - fillable(h)]
    BY DEF ReadFrames
  <1>4. PICK used \in 0 .. have :
          /\ IF mEnabled[h]
               THEN got + early <= smaller(used, c)
               ELSE used = have /\ got = 0 /\ early = 0
          /\ held' = [held EXCEPT ![h] = have - used]
    BY DEF ReadFrames
  <1> HIDE DEF have
  <1>5. have - used \in 0 .. Frames
    BY <1>1, <1>2, <1>4
  <1>6. got + early <= c /\ got <= Frames
    BY <1>1, <1>2, <1>4 DEF smaller
  <1>7. kernel' \in [Hw -> Nat]
    BY <1>1, <1>2, <1>3
  <1>8. held' \in [Hw -> 0 .. Frames]
    BY <1>1, <1>4, <1>5
  <1> QED BY <1>1, <1>3, <1>6, <1>7, <1>8

-----------------------------------------------------------------------------
(* Every action preserves the invariant.                                   *)

LEMMA InvInit == Init => IInv
  <1> SUFFICES ASSUME Init PROVE IInv
    OBVIOUS
  <1>1. /\ NumHw \in Nat /\ Number \in Nat /\ NumHw <= Number
        /\ Room \in Nat /\ Frames \in Nat
    BY SizeAssumption
  <1>2. pipe \in Seq(Command)
    BY DEF Init
  <1>3. index \in 1 .. (Number + 1) /\ count \in 0 .. Room /\ left \in 0 .. count
    BY <1>1 DEF Init
  <1>4. /\ kernel \in [Hw -> Nat] /\ held \in [Hw -> 0 .. Frames]
        /\ ring \in [Virtual -> Nat] /\ listeners \in [Hw -> SUBSET Sensor]
        /\ enable \in [Sensor -> BOOLEAN]
    BY <1>1 DEF Init
  <1>5. TypeOK
    BY <1>2, <1>3, <1>4 DEF Init, TypeOK
  <1> QED BY <1>1, <1>4, <1>5 DEF Init, IInv, ReadyMeansReadable, DrainedBeforePoll,
            NoStaleEvents, ScannedDry, FetchInScan, CommandReady

\* The end of a hardware sensor's turn, whatever the driver did before it.
LEMMA ReportInv ==
  ASSUME IInv, pc \in {"scan", "fetch"}, index \in Hw, count > 0,
         NEW got \in 0 .. count, Report(index, got),
         kernel' \in [Hw -> Nat], held' \in [Hw -> 0 .. Frames],
         \A g \in Hw : g # index => kernel'[g] = kernel[g],
         initial' \in [Hw -> BOOLEAN], ~initial'[index],
         \A g \in Hw : g # index => initial'[g] = initial[g],
         UNCHANGED <<pipe, manager>>
  PROVE  IInv'
  <1>1. TypeOK /\ NumHw \in Nat /\ Number \in Nat /\ NumHw <= Number
        /\ Room \in Nat
    BY SizeAssumption DEF IInv
  <1>2. /\ index \in 1 .. (Number + 1) /\ count \in 0 .. Room
        /\ ring \in [Virtual -> Nat] /\ revents \subseteq Hw
    BY <1>1 DEF TypeOK
  <1>3. /\ pc' = "scan" /\ index' = index + 1 /\ left' = 0
        /\ revents' = revents \ {index} /\ inject(index, got)
        /\ count' = IF enable[index] THEN count - got ELSE count
    BY DEF Report
  <1>4. /\ ring' \in [Virtual -> Nat] /\ dropped' \in BOOLEAN
        /\ \A v \in Virtual : ring'[v] > 0 => ring[v] > 0 \/ enable[v]
    BY <1>1, <1>2, <1>3, InjectEffect
  <1>5. count' \in 0 .. Room /\ left' \in 0 .. count'
    <2>1. count' = count \/ count' = count - got
      BY <1>3, Zenon
    <2> QED BY <1>1, <1>2, <1>3, <2>1
  <1>6. TypeOK'
    <2>1. index' \in 1 .. (Number + 1) /\ revents' \subseteq Hw
      BY <1>1, <1>2, <1>3
    <2> QED BY <1>1, <1>3, <1>4, <1>5, <2>1 DEF TypeOK, manager
  <1>7. ReadyMeansReadable'
    BY <1>2, <1>3 DEF IInv, ReadyMeansReadable
  <1>8. DrainedBeforePoll' /\ FetchInScan' /\ CommandReady'
    BY <1>3 DEF DrainedBeforePoll, FetchInScan, CommandReady
  <1>9. NoStaleEvents'
    BY <1>4 DEF IInv, NoStaleEvents, manager
  <1>10. ScannedDry'
    <2> SUFFICES ASSUME NEW s \in 1 .. index PROVE ~hasPendingEvents(s)'
      BY <1>2, <1>3 DEF ScannedDry
    <2>1. s \in Hw
      BY <1>1, <1>2
    <2>2. CASE s = index
      BY <2>1, <2>2 DEF hasPendingEvents
    <2>3. CASE s # index
      <3>1. ~hasPendingEvents(s)
        BY <1>2, <2>3 DEF IInv, ScannedDry
      <3> QED BY <2>1, <2>3, <3>1 DEF hasPendingEvents
    <2> QED BY <2>2, <2>3
  <1> QED BY <1>6, <1>7, <1>8, <1>9, <1>10 DEF IInv

\* A pass over the frames of the sensor at hand, and what follows it.
LEMMA PassInv ==
  ASSUME IInv, pc \in {"scan", "fetch"}, index \in Hw, index \in revents,
         count > 0, ~initial[index], NEW c \in 0 .. count,
         NEW got \in 0 .. c, NEW early \in 0 .. c,
         ReadFrames(index, c, got, early), PassDone(index, c, got, early),
         UNCHANGED <<pipe, initial, manager>>
  PROVE  IInv'
  <1>1. TypeOK /\ Room \in Nat /\ count \in 0 .. Room
        /\ initial \in [Hw -> BOOLEAN]
    BY SizeAssumption DEF IInv, TypeOK
  <1>2. /\ kernel' \in [Hw -> Nat] /\ held' \in [Hw -> 0 .. Frames]
        /\ \A g \in Hw : g # index => kernel'[g] = kernel[g]
        /\ got + early <= c
    BY <1>1, ReadFramesEffect
  <1>3. CASE Report(index, got)
    BY <1>1, <1>2, <1>3, ReportInv
  <1>4. CASE /\ pc' = "fetch" /\ left' = c - early
             /\ UNCHANGED <<index, count, revents, ring, dropped>>
    <2>1. left' \in 0 .. count'
      BY <1>1, <1>2, <1>4
    <2>2. TypeOK'
      BY <1>1, <1>2, <1>4, <2>1 DEF TypeOK, manager
    <2>3. ReadyMeansReadable'
      BY <1>1, <1>2, <1>4 DEF IInv, ReadyMeansReadable, TypeOK
    <2>4. DrainedBeforePoll' /\ CommandReady'
      BY <1>4 DEF DrainedBeforePoll, CommandReady
    <2>5. NoStaleEvents'
      BY <1>4 DEF IInv, NoStaleEvents, manager
    <2>6. ScannedDry'
      BY <1>4 DEF IInv, ScannedDry, hasPendingEvents
    <2>7. FetchInScan'
      BY <1>4 DEF FetchInScan
    <2> QED BY <2>2, <2>3, <2>4, <2>5, <2>6, <2>7 DEF IInv
  <1> QED BY <1>3, <1>4 DEF PassDone

LEMMA SendInv ==
  ASSUME IInv, NEW c \in Commands, Send(c)
  PROVE  IInv'
  <1>1. pipe' \in Seq(Command) /\ (pipe' # << >>)
    BY ContextAssumption DEF IInv, TypeOK, Send
  <1> QED BY <1>1 DEF IInv, TypeOK, ReadyMeansReadable, DrainedBeforePoll,
            NoStaleEvents, ScannedDry, FetchInScan, CommandReady,
            hasPendingEvents, Send, thread, events, manager

LEMMA ProduceInv ==
  ASSUME IInv, NEW h \in Hw, Produce(h)
  PROVE  IInv'
  <1>1. kernel \in [Hw -> Nat] /\ kernel' = [kernel EXCEPT ![h] = @ + 1]
    BY DEF IInv, TypeOK, Produce
  <1>2. kernel' \in [Hw -> Nat] /\ \A g \in Hw : kernel[g] > 0 => kernel'[g] > 0
    BY <1>1
  <1>3. revents \subseteq Hw
    BY DEF IInv, TypeOK
  <1> QED BY <1>2, <1>3
         DEF IInv, TypeOK, ReadyMeansReadable, DrainedBeforePoll,
            NoStaleEvents, ScannedDry, FetchInScan, CommandReady,
            hasPendingEvents, Produce, thread, manager

\* The scan's own steps: entering, passing a sensor by, reading a ring.
LEMMA ReopenInv ==
  ASSUME IInv, Reopen
  PROVE  IInv'
  <1>1. /\ pc = "out" /\ pipe' = << >> /\ revents' = {}
        /\ UNCHANGED <<pc, index, count, left, events, manager>>
    BY DEF Reopen
  <1>2. TypeOK'
    BY <1>1 DEF IInv, TypeOK, events, manager
  <1> QED BY <1>1, <1>2
         DEF IInv, ReadyMeansReadable, DrainedBeforePoll, NoStaleEvents,
             ScannedDry, FetchInScan, CommandReady, events, manager

LEMMA EnterInv ==
  ASSUME IInv, Enter
  PROVE  IInv'
  <1>1. /\ pc' = "scan" /\ index' = 1 /\ count' = Room /\ left' = left
        /\ pc = "out" /\ revents' = revents
        /\ UNCHANGED <<pipe, events, manager>>
    BY DEF Enter
  <1>2. 1 \in 1 .. (Number + 1) /\ Room \in 0 .. Room /\ left \in 0 .. Room
    BY SizeAssumption DEF IInv, TypeOK
  <1>3. TypeOK'
    BY <1>1, <1>2 DEF IInv, TypeOK, events, manager
  <1> QED BY <1>1, <1>3
         DEF IInv, ReadyMeansReadable, DrainedBeforePoll, NoStaleEvents,
             ScannedDry, FetchInScan, CommandReady, events, manager

LEMMA SkipInv ==
  ASSUME IInv, Skip
  PROVE  IInv'
  <1>1. /\ pc = "scan" /\ index \in 1 .. Number /\ count > 0
        /\ ~hasPendingEvents(index) /\ index' = index + 1
        /\ UNCHANGED <<pipe, pc, count, left, revents, events, manager>>
    BY SizeAssumption DEF IInv, TypeOK, Skip, scanning, toRead
  <1>2. index' \in 1 .. (Number + 1)
    BY SizeAssumption, <1>1
  <1>3. TypeOK'
    BY <1>1, <1>2 DEF IInv, TypeOK, events, manager
  <1>4. ScannedDry'
    <2>1. \A s \in 1 .. (index' - 1) : s = index \/ s \in 1 .. (index - 1)
      BY <1>1
    <2>2. \A s \in 1 .. (index' - 1) : ~hasPendingEvents(s)
      BY <1>1, <2>1 DEF IInv, ScannedDry
    <2> QED BY <1>1, <2>2 DEF ScannedDry, hasPendingEvents, events
  <1> QED BY <1>1, <1>3, <1>4
         DEF IInv, ReadyMeansReadable, DrainedBeforePoll, NoStaleEvents,
             FetchInScan, CommandReady, events, manager

LEMMA ReadVirtualInv ==
  ASSUME IInv, ReadVirtual
  PROVE  IInv'
  <1> DEFINE got == smaller(count, ring[index])
  <1>1. /\ pc = "scan" /\ index \in Virtual /\ count > 0
        /\ ring' = [ring EXCEPT ![index] = @ - got]
        /\ count' = IF enable[index] THEN count - got ELSE count
        /\ index' = index + 1
        /\ UNCHANGED <<pipe, pc, left, revents, kernel, held, initial, dropped,
                       manager>>
    BY DEF ReadVirtual, scanning
  <1>2. /\ NumHw \in Nat /\ Number \in Nat /\ NumHw <= Number /\ Room \in Nat
        /\ ring \in [Virtual -> Nat] /\ count \in 0 .. Room
    BY SizeAssumption DEF IInv, TypeOK
  <1>3. got \in 0 .. count /\ got <= ring[index] /\ got \in {count, ring[index]}
    BY <1>1, <1>2 DEF smaller
  <1>4. ring' \in [Virtual -> Nat] /\ \A v \in Virtual : ring'[v] <= ring[v]
    BY <1>1, <1>2, <1>3
  <1>5. left = 0
    BY <1>1 DEF IInv, FetchInScan
  <1>6. count' \in 0 .. Room /\ left' \in 0 .. count'
    <2>1. count' = count \/ count' = count - got
      BY <1>1, Zenon
    <2> QED BY <1>1, <1>2, <1>3, <1>5, <2>1
  <1>7. index' \in 1 .. (Number + 1)
    BY <1>1, <1>2
  <1>8. TypeOK'
    BY <1>1, <1>4, <1>6, <1>7 DEF IInv, TypeOK, manager
  <1>9. NoStaleEvents'
    BY <1>1, <1>2, <1>4 DEF IInv, NoStaleEvents, manager
  <1>10. ScannedDry'
    <2> SUFFICES ASSUME count' > 0, NEW s \in 1 .. index
                 PROVE  ~hasPendingEvents(s)'
      BY <1>1, <1>2 DEF ScannedDry
    <2>1. CASE s = index
      <3>1. CASE ring[index] = 0
        BY <1>1, <1>2, <1>4, <2>1, <3>1 DEF hasPendingEvents
      <3>2. CASE ring[index] # 0
        <4>1. enable[index]
          BY <1>1, <1>2, <3>2 DEF IInv, NoStaleEvents
        <4>2. count' = count - got
          BY <1>1, <4>1
        <4>3. got = ring[index]
          BY <1>2, <1>3, <4>2
        <4>4. ring'[index] = 0
          BY <1>1, <1>2, <4>3
        <4> QED BY <1>1, <1>2, <2>1, <4>4 DEF hasPendingEvents
      <3> QED BY <3>1, <3>2
    <2>2. CASE s # index
      <3>1. ~hasPendingEvents(s)
        BY <1>1, <1>2, <2>2 DEF IInv, ScannedDry
      <3>2. s \in Hw \/ s \in Virtual
        BY <1>1, <1>2
      <3> QED BY <1>1, <1>2, <1>4, <3>1, <3>2 DEF hasPendingEvents
    <2> QED BY <2>1, <2>2
  <1> QED BY <1>1, <1>5, <1>8, <1>9, <1>10
         DEF IInv, ReadyMeansReadable, DrainedBeforePoll, FetchInScan,
             CommandReady

\* The driver calls of the scan.
LEMMA ReadHwInv ==
  ASSUME IInv, ReadInitial \/ ReadHw \/ Refetch
  PROVE  IInv'
  <1>1. /\ count \in Nat /\ left \in 0 .. count /\ initial \in [Hw -> BOOLEAN]
        /\ kernel \in [Hw -> Nat] /\ held \in [Hw -> 0 .. Frames]
    BY SizeAssumption DEF IInv, TypeOK
  <1>2. CASE ReadInitial
    <2>1. /\ pc = "scan" /\ index \in Hw /\ count > 0
          /\ initial' = [initial EXCEPT ![index] = FALSE]
          /\ Report(index, IF mEnabled[index] THEN 1 ELSE 0)
          /\ UNCHANGED <<pipe, kernel, held, manager>>
      BY <1>2 DEF ReadInitial, scanning
    <2>2. (IF mEnabled[index] THEN 1 ELSE 0) \in 0 .. count
      BY <1>1, <2>1
    <2> QED BY <1>1, <2>1, <2>2, ReportInv
  <1>3. CASE ReadHw
    <2>1. /\ pc = "scan" /\ index \in Hw /\ count > 0 /\ ~initial[index]
          /\ index \in revents
          /\ UNCHANGED <<pipe, initial, manager>>
      BY <1>3 DEF ReadHw, scanning, toRead, hasPendingEvents
    <2>2. PICK got \in 0 .. count, early \in 0 .. count :
            /\ ReadFrames(index, count, got, early)
            /\ PassDone(index, count, got, early)
      BY <1>3 DEF ReadHw
    <2> QED BY <1>1, <2>1, <2>2, PassInv
  <1>4. CASE Refetch
    <2>1. /\ pc = "fetch" /\ index \in Hw /\ count > 0 /\ ~initial[index]
          /\ index \in revents
          /\ UNCHANGED <<pipe, initial, manager>>
      BY <1>4 DEF Refetch, IInv, FetchInScan
    <2>2. CASE Report(index, 0) /\ UNCHANGED <<kernel, held>>
      BY <1>1, <2>1, <2>2, ReportInv
    <2>3. CASE \E got, early \in 0 .. left :
                 /\ ReadFrames(index, left, got, early)
                 /\ PassDone(index, left, got, early)
      BY <1>1, <2>1, <2>3, PassInv
    <2> QED BY <1>4, <2>2, <2>3 DEF Refetch
  <1> QED BY <1>2, <1>3, <1>4

\* A driver that fails leaves the scan where it is or is passed by.
LEMMA ReadFailsInv ==
  ASSUME IInv, ReadFails
  PROVE  IInv'
  <1>1. /\ pc = "scan" /\ index \in Hw /\ ~initial[index] /\ left = 0
        /\ UNCHANGED <<pipe, count, left, events, manager>>
    BY DEF ReadFails, scanning, IInv, FetchInScan
  <1>2. CASE pc' = "out" /\ UNCHANGED <<index, revents>>
    <2>1. TypeOK'
      BY <1>1, <1>2 DEF IInv, TypeOK, events, manager
    <2> QED BY <1>1, <1>2, <2>1
         DEF IInv, ReadyMeansReadable, DrainedBeforePoll, NoStaleEvents,
             ScannedDry, FetchInScan, CommandReady, events, manager
  <1>3. CASE pc' = "scan" /\ index' = index + 1 /\ revents' = revents \ {index}
    <2>1. /\ index' \in 1 .. (Number + 1) /\ index \in Int
          /\ revents' \subseteq Hw /\ revents' \subseteq revents
      BY SizeAssumption, <1>1, <1>3 DEF IInv, TypeOK
    <2>2. TypeOK'
      BY <1>1, <1>3, <2>1 DEF IInv, TypeOK, events, manager
    <2>3. ScannedDry'
      <3>1. \A s \in 1 .. (index' - 1) : s = index \/ s \in 1 .. (index - 1)
        BY <1>3, <2>1
      <3>2. ~hasPendingEvents(index)
        BY <1>1 DEF hasPendingEvents
      <3>3. count > 0 => \A s \in 1 .. (index' - 1) : ~hasPendingEvents(s)
        BY <1>1, <3>1, <3>2 DEF IInv, ScannedDry
      <3> QED BY <1>1, <3>3 DEF ScannedDry, hasPendingEvents, events
    <2>4. ReadyMeansReadable'
      BY <1>1, <1>3, <2>1 DEF IInv, ReadyMeansReadable, events
    <2> QED BY <1>1, <1>3, <2>2, <2>3, <2>4
         DEF IInv, DrainedBeforePoll, NoStaleEvents, FetchInScan, CommandReady,
             events, manager
  <1> QED BY <1>2, <1>3 DEF ReadFails

LEMMA EndScanInv ==
  ASSUME IInv, EndScan
  PROVE  IInv'
  <1>1. /\ pc = "scan" /\ (index > Number \/ count = 0)
        /\ pc' = IF count > 0 THEN "poll" ELSE "out"
        /\ UNCHANGED <<pipe, index, count, left, revents, events, manager>>
    BY DEF EndScan
  <1>2. /\ NumHw \in Nat /\ Number \in Nat /\ NumHw <= Number
        /\ index \in 1 .. (Number + 1) /\ count \in Nat
        /\ ring \in [Virtual -> Nat]
    BY SizeAssumption DEF IInv, TypeOK
  <1>3. TypeOK'
    BY <1>1 DEF IInv, TypeOK, events, manager
  <1>4. DrainedBeforePoll'
    <2> SUFFICES ASSUME count > 0
                 PROVE  /\ \A v \in Virtual : ring[v] = 0
                        /\ \A h \in Hw : ~initial[h]
      BY <1>1, <1>2 DEF DrainedBeforePoll, events
    <2>1. \A s \in 1 .. Number : ~hasPendingEvents(s)
      BY <1>1, <1>2 DEF EndScan, IInv, ScannedDry
    <2> QED BY <1>2, <2>1 DEF hasPendingEvents
  <1> QED BY <1>1, <1>3, <1>4
         DEF EndScan, IInv, ReadyMeansReadable, NoStaleEvents, ScannedDry,
             FetchInScan, CommandReady, events, manager

LEMMA PollInv ==
  ASSUME IInv, Poll \/ PollError
  PROVE  IInv'
  <1>1. CASE Poll
    <2>1. /\ pc = "poll" /\ revents' = readable /\ index' = 1
          /\ pc' = IF pipe # << >> THEN "cmd"
                     ELSE IF readable # {} THEN "scan" ELSE "out"
          /\ UNCHANGED <<pipe, count, left, events, manager>>
      BY <1>1 DEF Poll
    <2>2. 1 \in 1 .. (Number + 1) /\ readable \subseteq Hw
      BY SizeAssumption DEF readable
    <2>3. TypeOK'
      BY <2>1, <2>2 DEF IInv, TypeOK, events, manager
    <2> QED BY <2>1, <2>3
           DEF IInv, ReadyMeansReadable, DrainedBeforePoll, NoStaleEvents,
               ScannedDry, FetchInScan, CommandReady, readable, events, manager
  <1>2. CASE PollError
    <2>1. TypeOK'
      BY <1>2 DEF IInv, TypeOK, PollError, events, manager
    <2> QED BY <1>2, <2>1
           DEF PollError, IInv, ReadyMeansReadable, DrainedBeforePoll,
               NoStaleEvents, ScannedDry, FetchInScan, CommandReady, events,
               manager
  <1> QED BY <1>1, <1>2

LEMMA HandleCommandInv ==
  ASSUME IInv, HandleCommand
  PROVE  IInv'
  <1> DEFINE c == Head(pipe)
  <1>1. /\ pc = "cmd" /\ index = 1 /\ pc' \in {"scan", "out"}
        /\ pipe' = Tail(pipe)
        /\ UNCHANGED <<index, count, left, revents, kernel, held, ring, dropped>>
    BY DEF HandleCommand, IInv, CommandReady
  <1>2. /\ c \in Command /\ pipe' \in Seq(Command)
    BY <1>1 DEF IInv, CommandReady, TypeOK
  <1>3. PICK rc \in {0, -1} :
          \/ c.type = "enable" /\ Manager!Enabled(c.sensor, rc)
          \/ c.type = "disable" /\ Manager!Disabled(c.sensor, rc)
          \/ UNCHANGED manager
    BY DEF HandleCommand, Manager!Carried, manager
  <1>4. initial' \in [Hw -> BOOLEAN]
    BY DEF HandleCommand, IInv, TypeOK
  <1>5. c.type \in {"enable", "disable"} => c.sensor \in Sensor
    BY <1>2 DEF Command
  <1> HIDE DEF c
  <1>6. /\ enable \in [Sensor -> BOOLEAN] /\ listeners \in [Hw -> SUBSET Sensor]
        /\ mEnabled \in [Hw -> BOOLEAN]
    BY DEF IInv, TypeOK
  <1>7. /\ enable' \in [Sensor -> BOOLEAN]
        /\ listeners' \in [Hw -> SUBSET Sensor] /\ mEnabled' \in [Hw -> BOOLEAN]
    <2>1. CASE c.type = "enable" /\ Manager!Enabled(c.sensor, rc)
      BY <1>5, <1>6, <2>1 DEF Manager!Enabled
    <2>2. CASE c.type = "disable" /\ Manager!Disabled(c.sensor, rc)
      BY <1>5, <1>6, <2>2 DEF Manager!Disabled
    <2>3. CASE UNCHANGED manager
      BY <1>6, <2>3 DEF manager
    <2> QED BY <1>3, <2>1, <2>2, <2>3
  <1>8. TypeOK'
    BY <1>1, <1>2, <1>4, <1>7 DEF IInv, TypeOK
  <1>9. \A v \in Virtual : ring'[v] = 0
    BY <1>1 DEF IInv, DrainedBeforePoll
  <1> QED BY <1>1, <1>8, <1>9
         DEF IInv, ReadyMeansReadable, DrainedBeforePoll, NoStaleEvents,
             ScannedDry, FetchInScan, CommandReady

LEMMA InvNext == IInv /\ [Next]_vars => IInv'
  <1> SUFFICES ASSUME IInv, [Next]_vars PROVE IInv'
    OBVIOUS
  <1>1. CASE UNCHANGED vars
    BY <1>1 DEF IInv, TypeOK, ReadyMeansReadable, DrainedBeforePoll,
         NoStaleEvents, ScannedDry, FetchInScan, CommandReady,
         hasPendingEvents, vars, thread, events, manager
  <1>2. CASE Next
    BY <1>2, SendInv, ProduceInv, ReopenInv, EnterInv, SkipInv, ReadHwInv, ReadFailsInv,
       ReadVirtualInv, EndScanInv, PollInv, HandleCommandInv
       DEF Next, PollThread
  <1> QED BY <1>1, <1>2

LEMMA Invariance == Spec => []IInv
  BY InvInit, InvNext, PTL DEF Spec

-----------------------------------------------------------------------------
(* The results.                                                            *)

\* Every variable keeps its type: the room never goes negative, no reader
\* holds more frames than it has slots, the scan stays in the sensor list.
THEOREM TypeCorrect == Spec => []TypeOK
  BY Invariance, PTL DEF IInv

\* The scan never reads a descriptor that has nothing to give, whatever error
\* pollEvents() was left by and whatever driver failed unseen.
THEOREM NeverReadsEmpty == Spec => []ReadyMeansReadable
  BY Invariance, PTL DEF IInv

\* The thread never polls while an event waits that poll() cannot see.
THEOREM NeverSleepsOnEvents == Spec => []DrainedBeforePoll
  BY Invariance, PTL DEF IInv

\* A disabled virtual sensor has nothing left to deliver.
THEOREM NeverStale == Spec => []NoStaleEvents
  BY Invariance, PTL DEF IInv

-----------------------------------------------------------------------------
(* How full a virtual sensor's ring can get.                               *)

LEMMA PendingSize ==
  ASSUME NEW P \in SUBSET Hw
  PROVE  /\ IsFiniteSet(P) /\ Cardinality(P) \in 0 .. NumHw
         /\ Frames * Cardinality(P) \in Nat
         /\ Frames * Cardinality(P) <= Frames * NumHw
  <1>1. NumHw \in Nat /\ Frames \in Nat
    BY SizeAssumption
  <1>2. IsFiniteSet(Hw) /\ Cardinality(Hw) = NumHw
    BY <1>1, FS_Interval
  <1>3. IsFiniteSet(P) /\ Cardinality(P) <= NumHw
    BY <1>2, FS_Subset
  <1>4. Cardinality(P) \in Nat
    BY <1>3, FS_CardinalityType
  <1>5. ASSUME NEW k \in 0 .. NumHw
        PROVE  Frames * k \in Nat /\ Frames * k <= Frames * NumHw
    BY <1>1, <1>5, SMT
  <1> QED BY <1>1, <1>3, <1>4, <1>5

\* One sensor's turn: the frame or frames it adds were accounted for.
LEMMA ReportBound ==
  ASSUME TypeOK, TypeOK', RingBound, MaxEvents >= NumHw * Frames,
         index \in Hw, index \in pending, pending' = pending \ {index},
         NEW got \in 0 .. Frames, inject(index, got)
  PROVE  RingBound' /\ dropped' = dropped
  <1> DEFINE k == Cardinality(pending)
  <1>1. /\ Frames \in Nat /\ NumHw \in Nat /\ MaxEvents \in Nat /\ k \in Nat
        /\ ring \in [Virtual -> Nat]
    <2>1. pending \in SUBSET Hw
      BY DEF TypeOK, pending
    <2>2. k \in 0 .. NumHw
      BY <2>1, PendingSize
    <2> HIDE DEF k
    <2>3. k \in Nat
      BY <2>2, SizeAssumption
    <2> QED BY <2>3, SizeAssumption DEF TypeOK
  <1>2. Cardinality(pending') = k - 1 /\ IsFiniteSet(pending)
    <2>1. pending \in SUBSET Hw
      BY DEF TypeOK, pending
    <2>2. IsFiniteSet(pending)
      BY <2>1, PendingSize
    <2> QED BY <2>2, FS_RemoveElement
  <1>3. k \in Nat \ {0}
    <2>1. k # 0
      BY <1>2, FS_EmptySet
    <2> QED BY <1>1, <2>1
  <1>4. /\ ring' \in [Virtual -> Nat]
        /\ \A v \in Virtual : ring'[v] <= ring[v] + got
        /\ (\A v \in Virtual : ring[v] + got <= MaxEvents) => dropped' = dropped
    BY <1>1, InjectEffect
  <1>5. \A v \in Virtual : ring[v] + Frames * k <= Frames * NumHw
    BY DEF RingBound
  <1> HIDE DEF k
  <1>6. Frames * k = Frames * (k - 1) + Frames /\ Frames * (k - 1) \in Nat
    BY <1>1, <1>3, SMT
  <1>7. Frames * NumHw \in Nat /\ Frames * NumHw = NumHw * Frames
    BY <1>1, SMT
  <1>8. \A v \in Virtual : ring[v] + got <= MaxEvents
    BY <1>1, <1>5, <1>6, <1>7
  <1>9. \A v \in Virtual : ring'[v] + Frames * (k - 1) <= Frames * NumHw
    BY <1>1, <1>4, <1>5, <1>6, <1>7
  <1>10. RingBound'
    BY <1>2, <1>9 DEF RingBound
  <1> QED BY <1>4, <1>8, <1>10

LEMMA BoundNext ==
  ASSUME IInv, IInv', RingBound, ~dropped, MaxEvents >= NumHw * Frames,
         [Next]_vars
  PROVE  RingBound' /\ ~dropped'
  <1>1. /\ TypeOK /\ TypeOK' /\ Frames \in Nat \ {0} /\ NumHw \in Nat
        /\ count \in Nat /\ left \in 0 .. count /\ initial \in [Hw -> BOOLEAN]
        /\ pending \in SUBSET Hw /\ pending' \in SUBSET Hw
    <2>1. TypeOK /\ TypeOK'
      BY DEF IInv
    <2>2. count \in 0 .. Room /\ left \in 0 .. count
      BY <2>1 DEF TypeOK
    <2>3. pending \in SUBSET Hw /\ pending' \in SUBSET Hw
      BY <2>1 DEF TypeOK, pending
    <2>4. initial \in [Hw -> BOOLEAN]
      BY <2>1 DEF TypeOK
    <2> QED BY <2>1, <2>2, <2>3, <2>4, SizeAssumption
  <1>2. ASSUME UNCHANGED <<ring, dropped, initial, revents>>
        PROVE  RingBound' /\ ~dropped'
    BY <1>2 DEF RingBound, pending
  <1>3. CASE ReadInitial
    <2>1. /\ index \in Hw /\ index \in pending
          /\ initial' = [initial EXCEPT ![index] = FALSE]
          /\ Report(index, IF mEnabled[index] THEN 1 ELSE 0)
      BY <1>3 DEF ReadInitial, pending
    <2>2. pending' = pending \ {index}
      BY <1>1, <2>1 DEF pending, Report
    <2>3. (IF mEnabled[index] THEN 1 ELSE 0) \in 0 .. Frames
      BY <1>1
    <2> QED BY <1>1, <2>1, <2>2, <2>3, ReportBound DEF Report
  <1>4. ASSUME index \in Hw, index \in revents, ~initial[index],
               NEW c \in 0 .. count, NEW got \in 0 .. c, NEW early \in 0 .. c,
               ReadFrames(index, c, got, early), PassDone(index, c, got, early),
               initial' = initial
        PROVE  RingBound' /\ ~dropped'
    <2>1. got \in 0 .. Frames
      BY <1>1, <1>4, ReadFramesEffect
    <2>2. CASE Report(index, got)
      <3>1. pending' = pending \ {index} /\ index \in pending
        BY <1>1, <1>4, <2>2 DEF pending, Report
      <3> QED BY <1>1, <1>4, <2>1, <2>2, <3>1, ReportBound DEF Report
    <2>3. CASE UNCHANGED <<revents, ring, dropped>>
      BY <1>2, <1>4, <2>3
    <2> QED BY <1>4, <2>2, <2>3 DEF PassDone
  <1>5. CASE ReadHw
    <2>1. /\ index \in Hw /\ ~initial[index] /\ index \in revents
          /\ initial' = initial
      BY <1>5 DEF ReadHw, toRead, hasPendingEvents
    <2>2. PICK got \in 0 .. count, early \in 0 .. count :
            /\ ReadFrames(index, count, got, early)
            /\ PassDone(index, count, got, early)
      BY <1>5 DEF ReadHw
    <2> QED BY <1>1, <1>4, <2>1, <2>2
  <1>6. CASE Refetch
    <2>1. /\ index \in Hw /\ ~initial[index] /\ index \in revents
          /\ initial' = initial
      BY <1>6 DEF Refetch, IInv, FetchInScan
    <2>2. CASE Report(index, 0)
      <3>1. pending' = pending \ {index} /\ index \in pending
        BY <1>1, <2>1, <2>2 DEF pending, Report
      <3>2. 0 \in 0 .. Frames
        BY <1>1
      <3> QED BY <1>1, <2>1, <2>2, <3>1, <3>2, ReportBound DEF Report
    <2>3. CASE \E got, early \in 0 .. left :
                 /\ ReadFrames(index, left, got, early)
                 /\ PassDone(index, left, got, early)
      BY <1>1, <1>4, <2>1, <2>3
    <2> QED BY <1>6, <2>2, <2>3 DEF Refetch
  <1>7. CASE ReadVirtual
    <2>1. /\ index \in Virtual /\ UNCHANGED <<revents, initial, dropped>>
          /\ ring' = [ring EXCEPT ![index] = @ - smaller(count, ring[index])]
      BY <1>7 DEF ReadVirtual
    <2>2. ring \in [Virtual -> Nat]
      BY <1>1 DEF TypeOK
    <2>3. smaller(count, ring[index]) \in Nat
      BY <1>1, <2>1, <2>2 DEF smaller
    <2>4. \A v \in Virtual : ring'[v] <= ring[v] /\ ring'[v] \in Int
      BY <2>1, <2>2, <2>3
    <2>5. pending' = pending
      BY <2>1 DEF pending
    <2>6. Frames * Cardinality(pending) \in Nat /\ Frames * NumHw \in Nat
      BY <1>1, PendingSize
    <2> QED BY <2>1, <2>2, <2>4, <2>5, <2>6 DEF RingBound
  <1>8. CASE Poll \/ HandleCommand
    <2>1. pc \in {"poll", "cmd"} /\ UNCHANGED <<ring, dropped>>
      BY <1>8 DEF Poll, HandleCommand, events
    <2>2. \A v \in Virtual : ring'[v] = 0
      BY <2>1 DEF IInv, DrainedBeforePoll
    <2>3. /\ Frames * Cardinality(pending') \in Nat
          /\ Frames * Cardinality(pending') <= Frames * NumHw
      BY <1>1, PendingSize
    <2>4. RingBound'
      BY <2>2, <2>3 DEF RingBound
    <2> QED BY <2>1, <2>4
  <1>9. CASE Enter \/ Skip \/ EndScan \/ PollError \/ UNCHANGED vars
    BY <1>2, <1>9 DEF Enter, Skip, EndScan, PollError, vars, events, thread
  <1>10. ASSUME (\E c \in Commands : Send(c)) \/ (\E h \in Hw : Produce(h))
         PROVE  RingBound' /\ ~dropped'
    BY <1>2, <1>10 DEF Send, Produce, events, thread
  <1>11. CASE Reopen \/ ReadFails
    <2>1. pending' \subseteq pending /\ UNCHANGED <<ring, dropped>>
      BY <1>11 DEF Reopen, ReadFails, pending, events
    <2> DEFINE k == Cardinality(pending)
               l == Cardinality(pending')
    <2>2. k \in Nat /\ l \in Nat /\ l <= k
      <3>1. /\ IsFiniteSet(pending) /\ k \in 0 .. NumHw
            /\ l \in 0 .. NumHw
        BY <1>1, PendingSize
      <3>2. l <= k
        BY <2>1, <3>1, FS_Subset
      <3> HIDE DEF k, l
      <3> QED BY <1>1, <3>1, <3>2
    <2>3. \A v \in Virtual : ring[v] \in Nat /\ ring[v] + Frames * k <= Frames * NumHw
      BY <1>1 DEF RingBound, TypeOK
    <2>4. RingBound' <=> \A v \in Virtual : ring'[v] + Frames * l <= Frames * NumHw
      BY DEF RingBound
    <2> HIDE DEF k, l
    <2>5. Frames * l <= Frames * k /\ Frames * l \in Nat /\ Frames * k \in Nat
      BY <1>1, <2>2, SMT
    <2>6. Frames * NumHw \in Nat
      BY <1>1, SMT
    <2> QED BY <2>1, <2>3, <2>4, <2>5, <2>6
  <1> QED BY <1>3, <1>5, <1>6, <1>7, <1>8, <1>9, <1>10, <1>11 DEF Next, PollThread

\* With a ring as long as all the drivers' readers together, no event is
\* ever dropped on its way to a virtual sensor.
THEOREM RingsSuffice ==
  ASSUME MaxEvents >= NumHw * Frames
  PROVE  Spec => []NothingDropped
  <1>1. Init => RingBound /\ ~dropped
    <2> SUFFICES ASSUME Init PROVE RingBound /\ ~dropped
      OBVIOUS
    <2>1. ~dropped /\ \A v \in Virtual : ring[v] = 0
      BY DEF Init
    <2>2. pending \in SUBSET Hw
      BY InvInit DEF IInv, TypeOK, pending
    <2>3. /\ Frames * Cardinality(pending) \in Nat
          /\ Frames * Cardinality(pending) <= Frames * NumHw
      BY <2>2, PendingSize
    <2> QED BY <2>1, <2>3 DEF RingBound
  <1>2. /\ IInv /\ IInv' /\ RingBound /\ ~dropped /\ [Next]_vars
        => RingBound' /\ ~dropped'
    BY BoundNext
  <1> QED BY <1>1, <1>2, Invariance, PTL DEF Spec, NothingDropped
=============================================================================
