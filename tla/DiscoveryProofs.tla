-------------------------- MODULE DiscoveryProofs --------------------------
(***************************************************************************)
(* Whatever the directories hold and whichever algorithms there are, the   *)
(* contexts getDataInfo() makes are what the manager and the polling       *)
(* thread take them for.                                                   *)
(***************************************************************************)
EXTENDS Discovery, SequenceTheorems, FiniteSetTheorems, WellFoundedInduction, TLAPS

\* The usable ones among the first n entries.
usableTo(n) == {k \in 1 .. n : usable(dir[k])}

\* How far the contexts have come: one for each usable entry so far, and then
\* at most one for each virtual sensor tried.
Room ==
  /\ pc = "nodes" => context = << >>
  /\ pc = "dir" => i <= Len(dir) + 1 /\ Len(context) = Cardinality(usableTo(i - 1))
  /\ pc \in {"info", "dead"} => Len(context) = Cardinality(usableTo(Len(dir)))
  /\ pc = "virtual" => i <= 7 /\ Len(context) < Cardinality(usableTo(Len(dir))) + i
  /\ pc = "stray" => Cardinality(usableTo(Len(dir))) + 6 > MaxSensors

\* The nodes are listed once.
PlacesDiffer ==
  /\ \A k \in DOMAIN event_list : pc = "nodes" => event_list[k].place < i
  /\ \A k, m \in DOMAIN event_list : k # m => event_list[k].place # event_list[m].place

Numbered == \A k \in DOMAIN context : context[k].handle = k

HardwareFirst ==
  /\ pc \notin {"virtual", "done", "stray"} =>
       \A k \in DOMAIN context : ~context[k].virtual
  /\ \A k, m \in DOMAIN context : (k < m /\ context[k].virtual) => context[m].virtual

completed(k) == pc \in {"virtual", "done"} \/ (pc = "info" /\ k < i)

\* A completed hardware context stands on itself, and is the context of its
\* type or has been.
HardwareDone ==
  \A k \in DOMAIN context : (completed(k) /\ ~context[k].virtual) =>
    /\ context[k].dep = <<k>>
    /\ context[k].path = dataPath(context[k])
    /\ type_map[context[k].type] # None

\* What is found by the two types virtual sensors ask for is hardware of the
\* type, and stays so when the virtual sensors are added to the map.
MapFindsHardware ==
  \A t \in {"acc", "mag"} : type_map[t] # None =>
    ~context[type_map[t]].virtual /\ context[type_map[t]].type = t

\* A virtual context has the background sensors of its kind, all found.
VirtualComplete ==
  \A k \in DOMAIN context : context[k].virtual =>
    \E v \in Range(VirtualSensors) :
      /\ v.name = context[k].name
      /\ context[k].dep = background(v)
      /\ \A t \in v.needs : type_map[t] # None

Inv ==
  /\ nodes \in EventDirs /\ dir \in SensorDirs
  /\ TypeOK
  /\ Room /\ PlacesDiffer /\ Numbered /\ HardwareFirst
  /\ HardwareDone /\ MapFindsHardware /\ VirtualComplete

-----------------------------------------------------------------------------
(* Minima and maxima of the places of a name.                              *)

LEMMA MinOfPlaces ==
  ASSUME NEW S \in SUBSET Nat, S # {}
  PROVE  Min(S) \in S
  <1>1. PICK x \in S : \A y \in S : ~ (<<y, x>> \in OpToRel(<, Nat))
    BY NatLessThanWellFounded, WFMin
  <1>2. \A y \in S : ~(y < x)
    BY <1>1 DEF OpToRel
  <1>3. \A y \in S : x <= y
    BY <1>2
  <1> QED BY <1>3 DEF Min

LEMMA MaxOfPlaces ==
  ASSUME NEW n \in Nat, NEW S \in SUBSET (1 .. n), S # {}
  PROVE  Max(S) \in S
  <1> DEFINE T == {n - x : x \in S}
  <1>1. T \in SUBSET Nat /\ T # {} /\ \A y \in S : n - y \in T
    <2>1. \A y \in S : n - y \in Nat
      OBVIOUS
    <2>2. \A y \in S : n - y \in T
      OBVIOUS
    <2> QED BY <2>1, <2>2
  <1>2. \A x \in T : \E m \in S : x = n - m
    OBVIOUS
  <1> HIDE DEF T
  <1>3. PICK x \in T : \A y \in T : ~ (<<y, x>> \in OpToRel(<, Nat))
    BY <1>1, NatLessThanWellFounded, WFMin
  <1>4. \A y \in T : ~(y < x)
    BY <1>1, <1>3 DEF OpToRel
  <1>5. PICK m \in S : x = n - m
    BY <1>2
  <1>6. \A y \in S : m >= y
    <2> TAKE y \in S
    <2>1. ~(n - y < n - m)
      BY <1>1, <1>4, <1>5
    <2> QED BY <2>1
  <1> QED BY <1>6 DEF Max

\* The data path of a context is that of an event node, of one of its own name
\* if there is one.
LEMMA PathType ==
  ASSUME event_list \in Seq(Node), NEW c
  PROVE  /\ dataPath(c) \in Nat \cup {None}
         /\ called(c.name) # {} =>
              \E k \in called(c.name) : dataPath(c) = event_list[k].place
  <1>1. DOMAIN event_list = 1 .. Len(event_list) /\ Len(event_list) \in Nat
    OBVIOUS
  <1>2. ASSUME NEW n, called(n) # {}
        PROVE  Min(called(n)) \in called(n) /\ Max(called(n)) \in called(n)
    <2>1. called(n) \in SUBSET (1 .. Len(event_list))
      BY <1>1 DEF called
    <2>2. called(n) \in SUBSET Nat
      BY <1>1, <2>1
    <2> QED BY <1>1, <1>2, <2>1, <2>2, MinOfPlaces, MaxOfPlaces
  <1>3. \A k \in DOMAIN event_list : event_list[k].place \in Nat
    <2>1. \A k \in DOMAIN event_list : event_list[k] \in Node
      BY <1>1
    <2> QED BY <2>1 DEF Node
  <1> QED BY <1>2, <1>3 DEF dataPath, called

LEMMA PathKept ==
  ASSUME event_list' = event_list, NEW k,
         context'[k].name = context[k].name, context'[k].type = context[k].type
  PROVE  dataPath(context[k])' = dataPath(context[k])
  <1>1. called(context[k].name)' = called(context[k].name)
    BY DEF called
  <1>2. called(TypeName[context[k].type])' = called(TypeName[context[k].type])
    BY DEF called
  <1> QED BY <1>1, <1>2 DEF dataPath

-----------------------------------------------------------------------------
\* The virtual sensors: six, on a magnetometer or on both.
LEMMA VirtualKinds ==
  /\ Len(VirtualSensors) = 6
  /\ \A k \in 1 .. 6 :
       /\ VirtualSensors[k].name \in Name
       /\ VirtualSensors[k].needs \in {{"mag"}, {"acc", "mag"}}
       /\ typeOf(VirtualSensors[k].name) \in Listed \cap (Type \ {"acc", "mag"})
       /\ VirtualSensors[k] \in Range(VirtualSensors)
  /\ \A v \in Range(VirtualSensors) : v.needs \in {{"mag"}, {"acc", "mag"}}
  <1>1. Len(VirtualSensors) = 6 /\ DOMAIN VirtualSensors = 1 .. 6
    BY DEF VirtualSensors
  <1> DEFINE ok(v) == /\ v.needs \in {{"mag"}, {"acc", "mag"}}
                      /\ typeOf(v.name) \notin {"acc", "mag"}
  <1>2. ok(VirtualSensors[1])
    BY DEF VirtualSensors, typeOf
  <1>3. ok(VirtualSensors[2])
    BY DEF VirtualSensors, typeOf
  <1>4. ok(VirtualSensors[3])
    BY DEF VirtualSensors, typeOf
  <1>5. ok(VirtualSensors[4])
    BY DEF VirtualSensors, typeOf
  <1>6. ok(VirtualSensors[5])
    BY DEF VirtualSensors, typeOf
  <1>7. ok(VirtualSensors[6])
    BY DEF VirtualSensors, typeOf
  <1>8. \A k \in 1 .. 6 : k = 1 \/ k = 2 \/ k = 3 \/ k = 4 \/ k = 5 \/ k = 6
    OBVIOUS
  <1>9. \A k \in 1 .. 6 : ok(VirtualSensors[k])
    BY <1>2, <1>3, <1>4, <1>5, <1>6, <1>7, <1>8
  <1>10. \A k \in 1 .. 6 : typeOf(VirtualSensors[k].name) \in Listed \cap Type
    BY <1>1, TypeAssumption DEF Listed
  <1>11. \A k \in 1 .. 6 : VirtualSensors[k].name \in Name
    BY <1>1, TypeAssumption
  <1> QED BY <1>1, <1>9, <1>10, <1>11 DEF Range

\* A sensor is added behind the others.
LEMMA Appended ==
  ASSUME context \in Seq(Context), NEW c \in Context, context' = Append(context, c)
  PROVE  /\ context' \in Seq(Context) /\ Len(context') = Len(context) + 1
         /\ DOMAIN context' = DOMAIN context \cup {Len(context) + 1}
         /\ \A k \in DOMAIN context : context'[k] = context[k]
         /\ context'[Len(context) + 1] = c
         /\ Len(context) + 1 \notin DOMAIN context
  OBVIOUS

\* More entries have at least as many usable ones.
LEMMA CountTo ==
  ASSUME NEW n \in Nat
  PROVE  /\ n = 0 => Cardinality(usableTo(n)) = 0
         /\ \A m \in Nat : m <= n => Cardinality(usableTo(m)) <= Cardinality(usableTo(n))
  <1>1. IsFiniteSet(usableTo(n))
    <2>1. usableTo(n) \subseteq 1 .. n /\ IsFiniteSet(1 .. n)
      BY FS_Interval DEF usableTo
    <2> QED BY <2>1, FS_Subset
  <1>2. ASSUME n = 0 PROVE Cardinality(usableTo(n)) = 0
    <2>1. usableTo(n) = {}
      BY <1>2 DEF usableTo
    <2> QED BY <2>1, FS_EmptySet
  <1>3. ASSUME NEW m \in Nat, m <= n
        PROVE  Cardinality(usableTo(m)) <= Cardinality(usableTo(n))
    <2>1. usableTo(m) \subseteq usableTo(n)
      BY <1>3 DEF usableTo
    <2> QED BY <1>1, <2>1, FS_Subset
  <1> QED BY <1>2, <1>3

\* One more entry is one more usable entry, or none.
LEMMA UsableCount ==
  ASSUME NEW n \in Nat
  PROVE  /\ Cardinality(usableTo(n)) \in Nat
         /\ Cardinality(usableTo(n + 1)) =
              Cardinality(usableTo(n)) + (IF usable(dir[n + 1]) THEN 1 ELSE 0)
         /\ n = 0 => Cardinality(usableTo(n)) = 0
         /\ \A m \in Nat : m <= n => Cardinality(usableTo(m)) <= Cardinality(usableTo(n))
  <1>1. \A m \in Nat : usableTo(m) \subseteq 1 .. m /\ IsFiniteSet(1 .. m)
    BY FS_Interval DEF usableTo
  <1>2. \A m \in Nat : IsFiniteSet(usableTo(m)) /\ Cardinality(usableTo(m)) \in Nat
    BY <1>1, FS_Subset, FS_CardinalityType
  <1>3. CASE usable(dir[n + 1])
    <2>1. usableTo(n + 1) = usableTo(n) \cup {n + 1} /\ n + 1 \notin usableTo(n)
      BY <1>3 DEF usableTo
    <2> QED BY <1>2, <1>3, <2>1, FS_AddElement, CountTo
  <1>4. CASE ~usable(dir[n + 1])
    <2>1. usableTo(n + 1) = usableTo(n)
      BY <1>4 DEF usableTo
    <2> QED BY <1>2, <1>4, <2>1, CountTo
  <1> QED BY <1>3, <1>4

LEMMA InvInit == Init => Inv
  <1> SUFFICES ASSUME Init PROVE Inv
    OBVIOUS
  <1>1. context = << >> /\ DOMAIN context = {} /\ Len(context) = 0
        /\ event_list = << >> /\ DOMAIN event_list = {}
        /\ pc = "nodes" /\ i = 1 /\ nodes \in EventDirs /\ dir \in SensorDirs
        /\ type_map = [t \in Type |-> None]
    BY DEF Init
  <1>2. TypeOK
    BY <1>1, FoundAssumption DEF TypeOK
  <1>3. MapFindsHardware
    BY <1>1, TypeAssumption DEF MapFindsHardware
  <1> QED BY <1>1, <1>2, <1>3
          DEF Inv, Room, PlacesDiffer, Numbered, HardwareFirst, HardwareDone, VirtualComplete

-----------------------------------------------------------------------------
\* A step that leaves the contexts and the map alone and passes no context.
LEMMA ContextsKept ==
  ASSUME Inv, UNCHANGED <<context, type_map>>,
         event_list' = event_list \/ context = << >>,
         \A k \in DOMAIN context : completed(k)' => completed(k),
         pc' \notin {"virtual", "done", "stray"} => pc \notin {"virtual", "done", "stray"}
  PROVE  Numbered' /\ HardwareFirst' /\ HardwareDone' /\ MapFindsHardware' /\ VirtualComplete'
  <1>1. Numbered' /\ HardwareFirst'
    BY DEF Inv, Numbered, HardwareFirst
  <1>2. HardwareDone'
    <2>1. ASSUME NEW k \in DOMAIN context, completed(k), ~context[k].virtual
          PROVE  /\ context[k].dep = <<k>>
                 /\ context[k].path = dataPath(context[k])'
                 /\ type_map[context[k].type] # None
      <3>1. event_list' = event_list
        OBVIOUS
      <3>2. dataPath(context[k])' = dataPath(context[k])
        BY <3>1, PathKept
      <3> QED BY <2>1, <3>2 DEF Inv, HardwareDone
    <2> QED BY <2>1 DEF HardwareDone
  <1>3. MapFindsHardware'
    BY DEF Inv, MapFindsHardware
  <1>4. VirtualComplete'
    BY DEF Inv, VirtualComplete, background, found
  <1> QED BY <1>1, <1>2, <1>3, <1>4

LEMMA NodeStep == Inv /\ LookAtNode => Inv'
  <1> SUFFICES ASSUME Inv, LookAtNode PROVE Inv'
    OBVIOUS
  <1> USE DEF LookAtNode, world
  <1>1. context = << >> /\ DOMAIN context = {}
    BY DEF Inv, Room
  <1>2. /\ event_list \in Seq(Node) /\ i \in Nat \ {0}
        /\ DOMAIN event_list = 1 .. Len(event_list) /\ Len(event_list) \in Nat
    BY DEF Inv, TypeOK
  <1>3. nodes[i].name \in Name
    <2>1. nodes \in Seq(Input) /\ i \in DOMAIN nodes
      BY FoundAssumption DEF Inv, TypeOK
    <2>2. nodes[i] \in Input
      BY <2>1
    <2> QED BY <2>2 DEF Input
  <1> DEFINE e == [place |-> i, name |-> nodes[i].name]
  <1>4. e \in Node /\ e.place = i
    BY <1>2, <1>3 DEF Node
  <1>5. event_list' \in Seq(Node) /\ PlacesDiffer'
    <2>1. CASE nodes[i].opens
      <3>1. event_list' = Append(event_list, e)
        BY <2>1
      <3> HIDE DEF e
      <3>2. /\ event_list' \in Seq(Node)
            /\ DOMAIN event_list' = DOMAIN event_list \cup {Len(event_list) + 1}
            /\ Len(event_list) + 1 \notin DOMAIN event_list
            /\ \A k \in DOMAIN event_list : event_list'[k] = event_list[k]
            /\ event_list'[Len(event_list) + 1] = e
        BY <1>2, <1>4, <3>1
      <3>3. \A k \in DOMAIN event_list : event_list[k].place < i /\ event_list[k].place \in Nat
        <4>1. \A k \in DOMAIN event_list : event_list[k] \in Node
          BY <1>2
        <4> QED BY <4>1 DEF Node, Inv, PlacesDiffer
      <3>4. \A k \in DOMAIN event_list' : event_list'[k].place < i + 1
        BY <1>2, <1>4, <3>2, <3>3
      <3>5. \A k, m \in DOMAIN event_list' :
              k # m => event_list'[k].place # event_list'[m].place
        BY <1>2, <1>4, <3>2, <3>3 DEF Inv, PlacesDiffer
      <3> QED BY <3>2, <3>4, <3>5 DEF PlacesDiffer
    <2>2. CASE ~nodes[i].opens
      <3>1. \A k \in DOMAIN event_list : event_list[k].place < i /\ event_list[k].place \in Nat
        <4>1. \A k \in DOMAIN event_list : event_list[k] \in Node
          BY <1>2
        <4> QED BY <4>1 DEF Node, Inv, PlacesDiffer
      <3>2. event_list' = event_list
        BY <2>2
      <3>3. \A k \in DOMAIN event_list : event_list[k].place < i + 1
        BY <1>2, <3>1
      <3> QED BY <1>2, <3>2, <3>3 DEF Inv, PlacesDiffer
    <2> QED BY <2>1, <2>2
  <1>6. TypeOK' /\ Room'
    BY <1>1, <1>2, <1>5 DEF Inv, TypeOK, Room
  <1>7. Numbered' /\ HardwareFirst' /\ HardwareDone' /\ MapFindsHardware' /\ VirtualComplete'
    BY <1>1, ContextsKept
  <1> QED BY <1>5, <1>6, <1>7 DEF Inv

\* The ends of the four loops.
LEMMA DoneStep ==
  ASSUME Inv, NodesDone \/ ScanFails \/ DirDone \/ InfoDone \/ VirtualDone
  PROVE  Inv'
  <1> USE DEF NodesDone, ScanFails, DirDone, InfoDone, VirtualDone
  <1>1. UNCHANGED <<world, event_list, context, type_map>>
    OBVIOUS
  <1>2. nodes' \in EventDirs /\ dir' \in SensorDirs
    BY <1>1 DEF Inv, world
  <1>3. Len(context) \in Nat /\ Len(dir) \in Nat /\ Len(VirtualSensors) = 6
        /\ DOMAIN context = 1 .. Len(context) /\ i \in Nat \ {0}
    BY FoundAssumption, VirtualKinds DEF Inv, TypeOK
  <1>4. TypeOK'
    BY <1>1, <1>3 DEF Inv, TypeOK, world
  <1>9. Room'
    <2>1. dir' = dir /\ \A n : usableTo(n)' = usableTo(n)
      BY <1>1 DEF world, usableTo, usable
    <2>2. /\ Cardinality(usableTo(0)) = 0
          /\ Cardinality(usableTo(Len(dir))) \in Nat
      BY <1>3, CountTo, UsableCount
    <2>3. CASE NodesDone
      BY <1>1, <1>3, <2>1, <2>2, <2>3 DEF Inv, Room
    <2>4. CASE DirDone
      <3>1. i - 1 = Len(dir)
        BY <1>3, <2>4 DEF Inv, Room
      <3> QED BY <1>1, <2>1, <2>4, <3>1 DEF Inv, Room
    <2>5. CASE InfoDone
      BY <1>1, <1>3, <2>1, <2>2, <2>5 DEF Inv, Room
    <2>6. CASE ScanFails \/ VirtualDone
      BY <2>6 DEF Room
    <2> QED BY <2>3, <2>4, <2>5, <2>6
  <1>5. PlacesDiffer'
    BY <1>1 DEF Inv, PlacesDiffer
  <1>6. \A k \in DOMAIN context : completed(k)' => completed(k)
    <2>1. CASE ScanFails
      BY <2>1, <1>3 DEF Inv, Room
    <2>2. CASE NodesDone \/ DirDone \/ InfoDone \/ VirtualDone
      BY <2>2, <1>1, <1>3 DEF completed
    <2> QED BY <2>1, <2>2
  <1>7. pc' \notin {"virtual", "done", "stray"} => pc \notin {"virtual", "done", "stray"}
    OBVIOUS
  <1>8. Numbered' /\ HardwareFirst' /\ HardwareDone' /\ MapFindsHardware' /\ VirtualComplete'
    BY <1>1, <1>6, <1>7, ContextsKept
  <1> QED BY <1>2, <1>4, <1>5, <1>8, <1>9 DEF Inv

LEMMA OverrunStep == ASSUME Inv, Overrun PROVE Inv'
  <1>1. /\ UNCHANGED <<world, i, event_list, context, type_map>>
        /\ pc \in {"dir", "virtual"} /\ pc' = "stray" /\ Len(context) = MaxSensors
    BY DEF Overrun, needsContext
  <1>2. /\ Len(context) \in Nat /\ Len(dir) \in Nat /\ i \in Nat \ {0}
        /\ nodes' \in EventDirs /\ dir' \in SensorDirs
    BY <1>1, FoundAssumption DEF Inv, TypeOK, world
  <1>3. TypeOK' /\ PlacesDiffer'
    BY <1>1 DEF Inv, TypeOK, PlacesDiffer
  <1>4. Room'
    <2>1. dir' = dir /\ usableTo(Len(dir))' = usableTo(Len(dir))
      BY <1>1 DEF world, usableTo, usable
    <2>2. Cardinality(usableTo(Len(dir))) \in Nat
      BY <1>2, UsableCount
    <2>3. CASE pc = "dir"
      <3>1. i - 1 \in Nat /\ i - 1 <= Len(dir)
        BY <1>2, <2>3 DEF Inv, Room
      <3>2. Cardinality(usableTo(i - 1)) <= Cardinality(usableTo(Len(dir)))
        BY <1>2, <3>1, CountTo
      <3>3. MaxSensors = Cardinality(usableTo(i - 1)) /\ MaxSensors \in Nat
        BY <1>1, <1>2, <2>3 DEF Inv, Room
      <3>4. Cardinality(usableTo(Len(dir))) + 6 > MaxSensors
        BY <2>2, <3>2, <3>3
      <3> QED BY <1>1, <2>1, <3>4 DEF Room
    <2>4. CASE pc = "virtual"
      <3>1. i <= 6
        BY <1>2, <2>4, VirtualKinds DEF Overrun, needsContext
      <3>2. MaxSensors < Cardinality(usableTo(Len(dir))) + i
        BY <1>1, <2>4 DEF Inv, Room
      <3>3. Cardinality(usableTo(Len(dir))) + 6 > MaxSensors
        BY <1>1, <1>2, <2>2, <3>1, <3>2
      <3> QED BY <1>1, <2>1, <3>3 DEF Room
    <2> QED BY <1>1, <2>3, <2>4
  <1>5. Numbered' /\ HardwareFirst' /\ HardwareDone' /\ MapFindsHardware' /\ VirtualComplete'
    <2>1. \A k \in DOMAIN context : completed(k)' => completed(k)
      BY <1>1 DEF completed
    <2> QED BY <1>1, <2>1, ContextsKept
  <1> QED BY <1>2, <1>3, <1>4, <1>5 DEF Inv

LEMMA EntryStep == Inv /\ LookAtEntry => Inv'
  <1> SUFFICES ASSUME Inv, LookAtEntry PROVE Inv'
    OBVIOUS
  <1>1. /\ pc = "dir" /\ pc' = "dir" /\ i <= Len(dir) /\ i' = i + 1
        /\ UNCHANGED <<nodes, dir, algos, params, event_list, type_map>>
    BY DEF LookAtEntry, world
  <1>2. /\ context \in Seq(Context) /\ i \in Nat \ {0} /\ Len(context) < MaxSensors
        /\ Len(context) \in Nat /\ DOMAIN context = 1 .. Len(context) /\ Len(dir) \in Nat
        /\ \A k \in DOMAIN context : context[k] \in Context
    BY <1>1, FoundAssumption DEF Inv, TypeOK, LookAtEntry
  <1>3. nodes' \in EventDirs /\ dir' \in SensorDirs
    BY <1>1 DEF Inv
  <1>4. PlacesDiffer'
    BY <1>1 DEF Inv, PlacesDiffer
  <1>7. ASSUME Len(context') = Len(context) + (IF usable(dir[i]) THEN 1 ELSE 0)
        PROVE  Room'
    <2>1. \A n : usableTo(n)' = usableTo(n)
      BY <1>1 DEF usableTo, usable
    <2>2. i - 1 \in Nat /\ (i - 1) + 1 = i /\ i' - 1 = i
      BY <1>1, <1>2
    <2>3. Cardinality(usableTo(i)) =
            Cardinality(usableTo(i - 1)) + (IF usable(dir[i]) THEN 1 ELSE 0)
      BY <2>2, UsableCount
    <2>4. Len(context') = Cardinality(usableTo(i))
      BY <1>1, <1>7, <2>3 DEF Inv, Room
    <2> QED BY <1>1, <1>2, <2>1, <2>2, <2>4 DEF Room
  <1>5. CASE ~usable(dir[i]) /\ UNCHANGED context
    <2>1. TypeOK' /\ Room'
      BY <1>1, <1>2, <1>5, <1>7 DEF Inv, TypeOK
    <2>2. \A k \in DOMAIN context : completed(k)' => completed(k)
      BY <1>1 DEF completed
    <2>3. Numbered' /\ HardwareFirst' /\ HardwareDone' /\ MapFindsHardware' /\ VirtualComplete'
      BY <1>1, <1>5, <2>2, ContextsKept
    <2> QED BY <1>3, <1>4, <2>1, <2>3 DEF Inv
  <1>6. CASE usable(dir[i])
    <2> DEFINE c == [handle |-> Len(context) + 1, name |-> dir[i].name,
                     type |-> dir[i].type, virtual |-> FALSE, path |-> None, dep |-> << >>]
    <2>1. context' = Append(context, c)
      BY <1>6 DEF LookAtEntry
    <2>2. dir[i] \in Dirent
      <3>1. dir \in Seq(Dirent) /\ i \in DOMAIN dir
        BY <1>1, <1>2, FoundAssumption DEF Inv
      <3> QED BY <3>1
    <2>3. c \in Context /\ c.handle = Len(context) + 1 /\ c.virtual = FALSE
      BY <1>2, <1>6, <2>2 DEF Context, Listed, Dirent, usable
    <2> HIDE DEF c
    <2>4. /\ context' \in Seq(Context) /\ Len(context') = Len(context) + 1
          /\ DOMAIN context' = DOMAIN context \cup {Len(context) + 1}
          /\ \A k \in DOMAIN context : context'[k] = context[k]
          /\ context'[Len(context) + 1] = c
      BY <1>2, <2>1, <2>3, Appended
    <2>5. TypeOK' /\ Room'
      <3>1. Room'
        BY <1>6, <1>7, <2>4
      <3>2. Len(context') <= MaxSensors
        BY <1>2, <2>4, FoundAssumption
      <3>3. type_map' \in [Type -> DOMAIN context' \cup {None}]
        BY <1>1, <2>4 DEF Inv, TypeOK
      <3> QED BY <1>1, <1>2, <2>4, <3>1, <3>2, <3>3 DEF Inv, TypeOK
    <2>6. \A k \in DOMAIN context : ~context[k].virtual
      BY <1>1 DEF Inv, HardwareFirst
    <2>7. \A k \in DOMAIN context' : ~context'[k].virtual
      BY <2>3, <2>4, <2>6
    <2>8. Numbered' /\ HardwareFirst' /\ VirtualComplete'
      BY <2>3, <2>4, <2>7 DEF Inv, Numbered, HardwareFirst, VirtualComplete
    <2>9. HardwareDone'
      BY <1>1 DEF HardwareDone, completed
    <2>10. MapFindsHardware'
      <3>1. \A t \in {"acc", "mag"} : type_map[t] # None => type_map[t] \in DOMAIN context
        BY TypeAssumption DEF Inv, TypeOK
      <3> QED BY <1>1, <2>4, <3>1 DEF Inv, MapFindsHardware
    <2> QED BY <1>3, <1>4, <2>5, <2>8, <2>9, <2>10 DEF Inv
  <1> QED BY <1>5, <1>6 DEF LookAtEntry

LEMMA ListedTypes == Listed \subseteq Type
  BY TypeAssumption DEF Listed

LEMMA CompleteStep == Inv /\ Complete => Inv'
  <1> SUFFICES ASSUME Inv, Complete PROVE Inv'
    OBVIOUS
  <1>1. /\ pc = "info" /\ pc' \in {"info", "dead"} /\ i <= Len(context) /\ i' = i + 1
        /\ UNCHANGED <<nodes, dir, algos, params, event_list>>
        /\ context' = [context EXCEPT ![i].dep = <<i>>, ![i].path = dataPath(context[i])]
        /\ type_map' = [type_map EXCEPT ![context[i].type] = i]
    BY DEF Complete, world
  <1>2. /\ context \in Seq(Context) /\ i \in DOMAIN context /\ i \in Nat \ {0}
        /\ Len(context) \in Nat /\ DOMAIN context = 1 .. Len(context)
        /\ \A k \in DOMAIN context : context[k] \in Context
    BY <1>1 DEF Inv, TypeOK
  <1>3. \A k \in DOMAIN context : ~context[k].virtual
    BY <1>1 DEF Inv, HardwareFirst
  <1>4. dataPath(context[i]) \in Nat \cup {None} /\ <<i>> \in Seq(Nat)
    BY <1>2, PathType DEF Inv, TypeOK
  <1>5. PICK c, d, p, e : /\ c = context[i] /\ d = <<i>> /\ p = dataPath(context[i])
                          /\ e = [c EXCEPT !.dep = d, !.path = p]
    OBVIOUS
  <1>6. /\ e \in Context /\ e.handle = context[i].handle /\ e.name = context[i].name
        /\ e.type = context[i].type /\ e.virtual = context[i].virtual
        /\ e.dep = <<i>> /\ e.path = dataPath(context[i])
    <2>1. c \in Context /\ d \in Seq(Nat) /\ p \in Nat \cup {None}
      BY <1>2, <1>4, <1>5
    <2>2. /\ e \in Context /\ e.handle = c.handle /\ e.name = c.name
          /\ e.type = c.type /\ e.virtual = c.virtual
          /\ e.dep = d /\ e.path = p
      BY <1>5, <2>1 DEF Context
    <2> QED BY <1>5, <2>2
  <1>7. context' = [context EXCEPT ![i] = e]
    BY <1>1, <1>2, <1>5
  <1>8. /\ context' \in Seq(Context) /\ Len(context') = Len(context)
        /\ DOMAIN context' = DOMAIN context
        /\ \A k \in DOMAIN context : k # i => context'[k] = context[k]
        /\ context'[i] = e
    BY <1>2, <1>6, <1>7
  <1>9. context[i].type \in Type
    BY <1>2, ListedTypes DEF Context
  <1>10. /\ type_map' \in [Type -> DOMAIN context \cup {None}]
         /\ type_map'[context[i].type] = i
         /\ \A t \in Type : t # context[i].type => type_map'[t] = type_map[t]
    BY <1>1, <1>2, <1>9 DEF Inv, TypeOK
  <1>11. TypeOK' /\ Room'
    <2>1. TypeOK'
      BY <1>1, <1>2, <1>8, <1>10 DEF Inv, TypeOK
    <2>2. usableTo(Len(dir))' = usableTo(Len(dir))
      BY <1>1 DEF usableTo, usable
    <2> QED BY <1>1, <1>8, <2>1, <2>2 DEF Inv, Room
  <1>12. PlacesDiffer'
    BY <1>1 DEF Inv, PlacesDiffer
  <1>13. \A k \in DOMAIN context : ~context'[k].virtual
    BY <1>3, <1>6, <1>8
  <1>14. Numbered'
    BY <1>6, <1>8 DEF Inv, Numbered
  <1>15. HardwareFirst'
    BY <1>8, <1>13 DEF HardwareFirst
  <1>16. VirtualComplete'
    BY <1>8, <1>13 DEF VirtualComplete
  <1>17. HardwareDone'
    <2>1. ASSUME NEW k \in DOMAIN context, completed(k)'
          PROVE  /\ context'[k].dep = <<k>>
                 /\ context'[k].path = dataPath(context[k])'
                 /\ type_map'[context'[k].type] # None
      <3>1. k < i + 1
        BY <1>1, <2>1 DEF completed
      <3>2. i # None
        BY <1>2, FoundAssumption
      <3>3. CASE k = i
        <4>1. dataPath(context[k])' = dataPath(context[k])
          BY <1>1, <1>6, <1>8, <3>3, PathKept
        <4> QED BY <1>6, <1>8, <1>10, <3>2, <3>3, <4>1
      <3>4. CASE k # i
        <4>1. completed(k) /\ ~context[k].virtual
          BY <1>1, <1>2, <1>3, <3>1, <3>4 DEF completed
        <4>2. /\ context[k].dep = <<k>> /\ context[k].path = dataPath(context[k])
              /\ type_map[context[k].type] # None
          BY <4>1 DEF Inv, HardwareDone
        <4>3. context'[k] = context[k]
          BY <1>8, <3>4
        <4>4. dataPath(context[k])' = dataPath(context[k])
          BY <1>1, <4>3, PathKept
        <4>5. context[k].type \in Type
          BY <1>2, ListedTypes DEF Context
        <4> QED BY <1>10, <3>2, <4>2, <4>3, <4>4, <4>5
      <3> QED BY <3>3, <3>4
    <2> QED BY <1>8, <2>1 DEF HardwareDone
  <1>18. MapFindsHardware'
    <2>1. ASSUME NEW t \in {"acc", "mag"}, type_map'[t] # None
          PROVE  ~context'[type_map'[t]].virtual /\ context'[type_map'[t]].type = t
      <3>1. t \in Type
        BY TypeAssumption
      <3>2. CASE t = context[i].type
        BY <1>2, <1>6, <1>8, <1>10, <1>13, <3>2
      <3>3. CASE t # context[i].type
        <4>1. type_map'[t] = type_map[t] /\ type_map[t] \in DOMAIN context
          BY <1>10, <2>1, <3>1, <3>3 DEF Inv, TypeOK
        <4>2. context[type_map[t]].type = t
          BY <2>1, <4>1 DEF Inv, MapFindsHardware
        <4> QED BY <1>6, <1>8, <1>13, <4>1, <4>2
      <3> QED BY <3>2, <3>3
    <2> QED BY <2>1 DEF MapFindsHardware
  <1> QED BY <1>1, <1>11, <1>12, <1>14, <1>15, <1>16, <1>17, <1>18 DEF Inv

LEMMA VirtualStep == Inv /\ TryVirtual => Inv'
  <1> SUFFICES ASSUME Inv, TryVirtual PROVE Inv'
    OBVIOUS
  <1> DEFINE v == VirtualSensors[i]
             n == Len(context) + 1
             c == [handle |-> n, name |-> v.name, type |-> typeOf(v.name),
                   virtual |-> TRUE, path |-> None, dep |-> background(v)]
  <1>1. /\ pc = "virtual" /\ pc' = "virtual" /\ i \in 1 .. 6 /\ i' = i + 1
        /\ UNCHANGED <<nodes, dir, algos, params, event_list>>
    BY VirtualKinds DEF TryVirtual, world, Inv, TypeOK
  <1>2. /\ context \in Seq(Context)
        /\ Len(context) \in Nat /\ DOMAIN context = 1 .. Len(context) /\ Len(dir) \in Nat
        /\ \A k \in DOMAIN context : context[k] \in Context
    BY <1>1, FoundAssumption DEF Inv, TypeOK
  <1>3. nodes' \in EventDirs /\ dir' \in SensorDirs
    BY <1>1 DEF Inv
  <1>4. PlacesDiffer'
    BY <1>1 DEF Inv, PlacesDiffer
  <1>7. ASSUME Len(context') \in {Len(context), Len(context) + 1}
        PROVE  Room'
    <2>1. usableTo(Len(dir))' = usableTo(Len(dir)) /\ dir' = dir
      BY <1>1 DEF usableTo, usable
    <2>2. Cardinality(usableTo(Len(dir))) \in Nat
      BY <1>2, UsableCount
    <2>3. Len(context) < Cardinality(usableTo(Len(dir))) + i
      BY <1>1 DEF Inv, Room
    <2>4. Len(context') < Cardinality(usableTo(Len(dir))) + i'
      BY <1>1, <1>2, <1>7, <2>2, <2>3
    <2> QED BY <1>1, <2>1, <2>4 DEF Room
  <1>5. CASE UNCHANGED <<context, type_map>>
    <2>1. TypeOK' /\ Room'
      BY <1>1, <1>2, <1>5, <1>7 DEF Inv, TypeOK
    <2>2. \A k \in DOMAIN context : completed(k)' => completed(k)
      BY <1>1 DEF completed
    <2>3. Numbered' /\ HardwareFirst' /\ HardwareDone' /\ MapFindsHardware' /\ VirtualComplete'
      BY <1>1, <1>5, <2>2, ContextsKept
    <2> QED BY <1>3, <1>4, <2>1, <2>3 DEF Inv
  <1>6. CASE /\ wanted(v) /\ context' = Append(context, c)
             /\ type_map' = [type_map EXCEPT ![typeOf(v.name)] = n]
    <2>1. /\ v.name \in Name /\ v.needs \in {{"mag"}, {"acc", "mag"}}
          /\ typeOf(v.name) \in Listed /\ typeOf(v.name) \in Type \ {"acc", "mag"}
          /\ v \in Range(VirtualSensors)
      BY <1>1, VirtualKinds
    <2>2. \A t \in {"acc", "mag"} : type_map[t] # None => type_map[t] \in DOMAIN context
      BY TypeAssumption DEF Inv, TypeOK
    <2>3. background(v) \in Seq(Nat)
      <3>1. \A t \in {"acc", "mag"} : found(v, t) \in Seq(Nat)
        BY <1>2, <2>2 DEF found
      <3> QED BY <3>1 DEF background
    <2>4. c \in Context /\ c.handle = n /\ c.virtual = TRUE /\ c.name = v.name
          /\ c.dep = background(v)
      BY <1>2, <2>1, <2>3 DEF Context
    <2> HIDE DEF c
    <2>5. /\ context' \in Seq(Context) /\ Len(context') = n
          /\ DOMAIN context' = DOMAIN context \cup {n} /\ n \notin DOMAIN context
          /\ \A k \in DOMAIN context : context'[k] = context[k]
          /\ context'[n] = c
      BY <1>2, <1>6, <2>4, Appended
    <2>6. /\ type_map' \in [Type -> DOMAIN context' \cup {None}]
          /\ type_map'["acc"] = type_map["acc"] /\ type_map'["mag"] = type_map["mag"]
          /\ \A t \in Type : type_map'[t] \in {type_map[t], n}
      BY <1>6, <2>1, <2>5, TypeAssumption DEF Inv, TypeOK
    <2>7. TypeOK' /\ Room'
      <3>1. Len(context) < MaxSensors
        BY <1>2, <1>6, FoundAssumption DEF TryVirtual, Inv, TypeOK
      <3>2. Len(context') <= MaxSensors
        BY <1>2, <2>5, <3>1, FoundAssumption
      <3> QED BY <1>1, <1>2, <1>7, <2>5, <2>6, <3>2 DEF Inv, TypeOK
    <2>8. Numbered'
      BY <2>4, <2>5 DEF Inv, Numbered
    <2>9. HardwareFirst'
      <3>1. \A k, m \in DOMAIN context' : (k < m /\ context'[k].virtual) => context'[m].virtual
        BY <1>2, <2>4, <2>5 DEF Inv, HardwareFirst
      <3> QED BY <1>1, <3>1 DEF HardwareFirst
    <2>10. MapFindsHardware'
      BY <2>2, <2>5, <2>6 DEF Inv, MapFindsHardware
    <2>11. HardwareDone'
      <3>1. ASSUME NEW k \in DOMAIN context', ~context'[k].virtual
            PROVE  /\ context'[k].dep = <<k>>
                   /\ context'[k].path = dataPath(context[k])'
                   /\ type_map'[context'[k].type] # None
        <4>1. k \in DOMAIN context /\ context'[k] = context[k]
          BY <2>4, <2>5, <3>1
        <4>2. completed(k)
          BY <1>1 DEF completed
        <4>3. /\ context[k].dep = <<k>> /\ context[k].path = dataPath(context[k])
              /\ type_map[context[k].type] # None
          BY <3>1, <4>1, <4>2 DEF Inv, HardwareDone
        <4>4. dataPath(context[k])' = dataPath(context[k])
          BY <1>1, <4>1, PathKept
        <4>5. context[k].type \in Type
          BY <1>2, <4>1, ListedTypes DEF Context
        <4> QED BY <1>2, <2>6, <4>1, <4>3, <4>4, <4>5, FoundAssumption
      <3> QED BY <3>1 DEF HardwareDone
    <2>12. VirtualComplete'
      <3>1. \A w : background(w)' = background(w)
        BY <2>6 DEF background, found
      <3>2. ASSUME NEW k \in DOMAIN context', context'[k].virtual
            PROVE  \E w \in Range(VirtualSensors) :
                     /\ w.name = context'[k].name
                     /\ context'[k].dep = background(w)
                     /\ \A t \in w.needs : type_map'[t] # None
        <4>1. CASE k = n
          <5>1. \A t \in v.needs : type_map[t] # None
            <6>1. ASSUME NEW t \in v.needs PROVE type_map[t] # None
              <7>1. PICK m \in DOMAIN context : ~context[m].virtual /\ context[m].type = t
                BY <1>6 DEF wanted, has
              <7>2. completed(m)
                BY <1>1 DEF completed
              <7> QED BY <7>1, <7>2 DEF Inv, HardwareDone
            <6> QED BY <6>1
          <5>2. \A t \in v.needs : type_map'[t] # None
            BY <2>1, <2>6, <5>1
          <5> QED BY <2>1, <2>4, <2>5, <4>1, <5>2
        <4>2. CASE k # n
          <5>1. k \in DOMAIN context /\ context'[k] = context[k]
            BY <2>5, <4>2
          <5>2. PICK w \in Range(VirtualSensors) :
                     /\ w.name = context[k].name
                     /\ context[k].dep = background(w)
                     /\ \A t \in w.needs : type_map[t] # None
            BY <3>2, <5>1 DEF Inv, VirtualComplete
          <5>3. w.needs \in {{"mag"}, {"acc", "mag"}}
            BY VirtualKinds
          <5>4. \A t \in w.needs : type_map'[t] # None
            BY <2>6, <5>2, <5>3
          <5> QED BY <5>1, <5>2, <5>4
        <4> QED BY <4>1, <4>2
      <3> QED BY <3>1, <3>2 DEF VirtualComplete
    <2> QED BY <1>3, <1>4, <2>7, <2>8, <2>9, <2>10, <2>11, <2>12 DEF Inv
  <1> QED BY <1>5, <1>6 DEF TryVirtual

LEMMA InvNext == Inv /\ [Next]_vars => Inv'
  <1> SUFFICES ASSUME Inv, [Next]_vars PROVE Inv'
    OBVIOUS
  <1>1. CASE UNCHANGED vars
    <2>1. UNCHANGED <<nodes, dir, pc, i, event_list, context, type_map>>
      BY <1>1 DEF vars, world
    <2>2. TypeOK' /\ Room' /\ PlacesDiffer' /\ \A k \in DOMAIN context : completed(k)' => completed(k)
      BY <2>1 DEF Inv, TypeOK, Room, PlacesDiffer, completed, usableTo, usable
    <2>3. Numbered' /\ HardwareFirst' /\ HardwareDone' /\ MapFindsHardware' /\ VirtualComplete'
      BY <2>1, <2>2, ContextsKept
    <2> QED BY <2>1, <2>2, <2>3 DEF Inv
  <1> QED BY <1>1, NodeStep, DoneStep, EntryStep, CompleteStep, VirtualStep, OverrunStep
         DEF Next

-----------------------------------------------------------------------------
\* Whatever is found, everything keeps its type and no context is kept that is
\* not of the array: where there is none left, getDataInfo() goes astray.
THEOREM TypeCorrect == Spec => []TypeOK
  <1>1. Inv => TypeOK
    BY DEF Inv
  <1> QED BY InvInit, InvNext, <1>1, PTL DEF Spec

\* It does not as long as the array has room for every usable entry and the
\* six virtual sensors (NativeSensorManager.cpp:596-626).
THEOREM ArraySuffices == Spec => []ContextsFit
  <1>1. ASSUME Inv PROVE ContextsFit
    <2>1. usableTo(Len(dir)) = {k \in DOMAIN dir : usable(dir[k])}
      <3>1. DOMAIN dir = 1 .. Len(dir)
        BY <1>1, FoundAssumption DEF Inv
      <3> QED BY <3>1 DEF usableTo
    <2> QED BY <1>1, <2>1, VirtualKinds DEF Inv, Room, ContextsFit
  <1>2. Inv => ContextsFit
    BY <1>1
  <1> QED BY InvInit, InvNext, <1>2, PTL DEF Spec

\* Handles count the contexts from the first, hardware before virtual sensors:
\* what sensors.cpp:128-134 takes them for.
THEOREM HandlesCorrect == Spec => []HandlesAgree
  <1>1. Inv => HandlesAgree
    BY DEF Inv, Numbered, HardwareFirst, HandlesAgree
  <1> QED BY InvInit, InvNext, <1>1, PTL DEF Spec

LEMMA PairConcat ==
  ASSUME NEW x \in Nat, NEW y \in Nat
  PROVE  <<x>> \o <<y>> = <<x, y>>
  <1> DEFINE s == <<x>> \o <<y>>
  <1>1. <<x>> \in Seq(Nat) /\ <<y>> \in Seq(Nat) /\ Len(<<x>>) = 1 /\ Len(<<y>>) = 1
    OBVIOUS
  <1>2. s \in Seq(Nat) /\ Len(s) = 2 /\ s[1] = x /\ s[2] = y
    BY <1>1, ConcatProperties
  <1>3. <<x, y>> \in Seq(Nat) /\ Len(<<x, y>>) = 2
    OBVIOUS
  <1> HIDE DEF s
  <1>4. \A k \in 1 .. Len(s) : s[k] = <<x, y>>[k]
    BY <1>2
  <1>5. s = <<x, y>>
    BY <1>2, <1>3, <1>4, SeqEqual
  <1> QED BY <1>5 DEF s

LEMMA BackgroundsHold == Inv => BackgroundComplete
  <1> SUFFICES ASSUME Inv, Ready, NEW k \in DOMAIN context
               PROVE  LET dep == context[k].dep IN
                      IF context[k].virtual
                        THEN /\ \A m \in Range(dep) : ~context[m].virtual
                             /\ IsInjective([m \in DOMAIN dep |-> context[dep[m]].type])
                             /\ \E v \in Range(VirtualSensors) :
                                  /\ v.name = context[k].name
                                  /\ v.needs = {context[m].type : m \in Range(dep)}
                        ELSE dep = <<k>>
    BY DEF BackgroundComplete
  <1>1. CASE ~context[k].virtual
    BY <1>1 DEF Inv, HardwareDone, completed, Ready
  <1>2. CASE context[k].virtual
    <2>1. PICK v \in Range(VirtualSensors) :
            /\ v.name = context[k].name
            /\ context[k].dep = background(v)
            /\ \A t \in v.needs : type_map[t] # None
      BY <1>2 DEF Inv, VirtualComplete
    <2>2. v.needs \in {{"mag"}, {"acc", "mag"}}
      BY VirtualKinds
    <2> DEFINE a == type_map["acc"]
               g == type_map["mag"]
    <2>3. g # None /\ ~context[g].virtual /\ context[g].type = "mag"
      BY <2>1, <2>2 DEF Inv, MapFindsHardware
    <2>4. CASE v.needs = {"mag"}
      <3>1. context[k].dep = <<g>>
        BY <2>1, <2>3, <2>4 DEF background, found
      <3>2. Range(<<g>>) = {g} /\ DOMAIN <<g>> = {1}
        BY DEF Range
      <3>3. IsInjective([m \in DOMAIN <<g>> |-> context[<<g>>[m]].type])
        BY <3>2 DEF IsInjective
      <3> QED BY <1>2, <2>1, <2>3, <2>4, <3>1, <3>2, <3>3
    <2>5. CASE v.needs = {"acc", "mag"}
      <3>1. a # None /\ ~context[a].virtual /\ context[a].type = "acc"
        BY <2>1, <2>5 DEF Inv, MapFindsHardware
      <3>2. context[k].dep = <<a, g>>
        <4>1. found(v, "acc") = <<a>> /\ found(v, "mag") = <<g>>
          BY <2>1, <2>3, <2>5, <3>1 DEF found
        <4>2. a \in Nat /\ g \in Nat
          BY <2>3, <3>1, TypeAssumption DEF Inv, TypeOK
        <4> HIDE DEF a, g
        <4>3. <<a>> \o <<g>> = <<a, g>>
          BY <4>2, PairConcat
        <4> QED BY <2>1, <4>1, <4>3 DEF background
      <3> HIDE DEF a, g
      <3>3. Range(<<a, g>>) = {a, g} /\ DOMAIN <<a, g>> = {1, 2}
        BY DEF Range
      <3>4. IsInjective([m \in DOMAIN <<a, g>> |-> context[<<a, g>>[m]].type])
        BY <2>3, <3>1, <3>3 DEF IsInjective
      <3> QED BY <1>2, <2>1, <2>3, <2>5, <3>1, <3>2, <3>3, <3>4
    <2> QED BY <2>2, <2>4, <2>5
  <1> QED BY <1>1, <1>2

\* Each virtual sensor stands on one hardware sensor of each type it needs,
\* hardware on itself: what SensorManager and PollLoop assume of contexts.
THEOREM BackgroundsCorrect == Spec => []BackgroundComplete
  BY InvInit, InvNext, BackgroundsHold, PTL DEF Spec

\* Hardware of different names never shares an event node, if each has one.
THEOREM PathsCorrect == Spec => []PathsApart
  <1>1. ASSUME Inv PROVE PathsApart
    <2> SUFFICES ASSUME Ready, NEW k \in DOMAIN context, NEW m \in DOMAIN context,
                        ~context[k].virtual, ~context[m].virtual,
                        context[k].name # context[m].name,
                        \A c \in {k, m} : \E e \in Range(event_list) : e.name = context[c].name
                 PROVE  context[k].path # context[m].path
      BY DEF PathsApart
    <2>1. ASSUME NEW c \in {k, m}
          PROVE  \E j \in called(context[c].name) : context[c].path = event_list[j].place
      <3>1. called(context[c].name) # {}
        BY DEF called, Range
      <3>2. context[c].path = dataPath(context[c])
        BY <1>1 DEF Inv, HardwareDone, completed, Ready
      <3> QED BY <1>1, <3>1, <3>2, PathType DEF Inv, TypeOK
    <2>2. PICK j \in called(context[k].name) : context[k].path = event_list[j].place
      BY <2>1
    <2>3. PICK l \in called(context[m].name) : context[m].path = event_list[l].place
      BY <2>1
    <2>4. j \in DOMAIN event_list /\ l \in DOMAIN event_list /\ j # l
      BY DEF called
    <2> QED BY <1>1, <2>2, <2>3, <2>4 DEF Inv, PlacesDiffer
  <1>2. Inv => PathsApart
    BY <1>1
  <1> QED BY InvInit, InvNext, <1>2, PTL DEF Spec
=============================================================================
