------------------------------ MODULE Discovery ------------------------------
(***************************************************************************)
(* NativeSensorManager::getDataInfo(): how the contexts the manager and    *)
(* the polling thread work on come about.  It looks at the event nodes and *)
(* at the directory of sensors, makes a hardware context of every entry it *)
(* can use, with its data path and driver, and then tries the virtual      *)
(* sensors that the hardware found allows and an algorithm exists for.     *)
(*                                                                         *)
(* What is found is chosen in Init.  Of an entry's eight attributes, all   *)
(* needed, name and type are kept.  Virtual sensors are told apart by name. *)
(***************************************************************************)
EXTENDS Integers, Sequences, Functions, FiniteSetsExt

CONSTANTS
  EventDirs,    \* what /dev/input may hold: sequences of [opens, name]
  SensorDirs,   \* and /sys/class/sensors: sequences of [complete, type, name]
  Supported,    \* SUPPORTED_SENSORS_TYPE
  Driven,       \* the types with a driver
  TypeName,     \* type_to_name()
  Name,         \* the names sensors and event nodes may have
  MaxSensors,   \* MAX_SENSORS, 20
  AlgoSets,     \* the virtual sensors that have an algorithm, as sets
  None          \* no context, no path

\* The virtual sensors in the order they are tried, with the background
\* sensors they need and whether they are for devices without a gyroscope.
VirtualSensors == <<
  [name |-> "uncalibrated", needs |-> {"mag"}, noGyro |-> FALSE],
  [name |-> "orientation", needs |-> {"acc", "mag"}, noGyro |-> FALSE],
  [name |-> "pseudo-gyro", needs |-> {"acc", "mag"}, noGyro |-> TRUE],
  [name |-> "linear", needs |-> {"acc", "mag"}, noGyro |-> TRUE],
  [name |-> "rotation", needs |-> {"acc", "mag"}, noGyro |-> TRUE],
  [name |-> "gravity", needs |-> {"acc", "mag"}, noGyro |-> TRUE]>>

\* The type a virtual sensor is listed under: a pseudo-gyro counts as a gyro.
typeOf(name) == IF name = "pseudo-gyro" THEN "gyro" ELSE name

Type == DOMAIN TypeName

Dirent == [complete : BOOLEAN, type : Type, name : Name]
Input == [opens : BOOLEAN, name : Name]

ASSUME FoundAssumption ==
  /\ EventDirs \subseteq Seq(Input) /\ SensorDirs \subseteq Seq(Dirent)
  /\ MaxSensors \in Nat /\ None \notin Nat

ASSUME TypeAssumption ==
  /\ {"acc", "mag", "gyro"} \subseteq Driven /\ Driven \subseteq Supported
  /\ Supported \subseteq Type
  /\ \A k \in DOMAIN VirtualSensors :
       VirtualSensors[k].name \in Name /\ typeOf(VirtualSensors[k].name) \in Type

VARIABLES
  nodes, dir,   \* what there is to find
  algos,        \* the virtual sensors getCalAlgo() has an algorithm for
  params,       \* whether read_sensors_params() finds a file
  pc,           \* "nodes", "dir", "info", "virtual", "done", "dead", or
                \* "stray": it has written behind its arrays
  i,            \* place in the list pc is about
  event_list,   \* the event nodes that could be opened: [place, name]
  context,      \* the contexts made so far
  type_map      \* the context of a type; of several, the last one

world == <<nodes, dir, algos, params>>
vars == <<world, pc, i, event_list, context, type_map>>

Init ==
  /\ nodes \in EventDirs /\ dir \in SensorDirs
  /\ algos \in AlgoSets
  /\ params \in BOOLEAN
  /\ pc = "nodes" /\ i = 1
  /\ event_list = << >> /\ context = << >>
  /\ type_map = [t \in Type |-> None]

\* One of the first MaxSensors event nodes.
LookAtNode ==
  /\ pc = "nodes" /\ i <= Len(nodes) /\ i <= MaxSensors
  /\ event_list' = IF nodes[i].opens
       THEN Append(event_list, [place |-> i, name |-> nodes[i].name])
       ELSE event_list
  /\ i' = i + 1
  /\ UNCHANGED <<world, pc, context, type_map>>

\* scandir() fails: getDataInfo() gives up and there are no sensors at all.
ScanFails ==
  /\ pc = "nodes" /\ i = 1
  /\ pc' = "done"
  /\ UNCHANGED <<world, i, event_list, context, type_map>>

NodesDone ==
  /\ pc = "nodes" /\ (i > Len(nodes) \/ i > MaxSensors)
  /\ pc' = "dir" /\ i' = 1
  /\ UNCHANGED <<world, event_list, context, type_map>>

\* An entry all of whose attributes can be read and whose type is supported.
usable(d) == d.complete /\ d.type \in Supported

\* Mutant: an entry of any type is used.
LookAtEntry_anyType ==
  /\ pc = "dir" /\ i <= Len(dir) /\ Len(context) < MaxSensors
  /\ context' = IF dir[i].complete
       THEN Append(context, [handle |-> Len(context) + 1, name |-> dir[i].name,
                             type |-> dir[i].type, virtual |-> FALSE,
                             path |-> None, dep |-> << >>])
       ELSE context
  /\ i' = i + 1
  /\ UNCHANGED <<world, pc, event_list, type_map>>

\* Mutant: an entry that is not used leaves a hole in the handles.
LookAtEntry_countAll ==
  /\ pc = "dir" /\ i <= Len(dir) /\ Len(context) < MaxSensors
  /\ context' = IF usable(dir[i])
       THEN Append(context, [handle |-> i, name |-> dir[i].name,
                             type |-> dir[i].type, virtual |-> FALSE,
                             path |-> None, dep |-> << >>])
       ELSE context
  /\ i' = i + 1
  /\ UNCHANGED <<world, pc, event_list, type_map>>

\* Mutant: an entry is used before its last attributes could be read.
LookAtEntry_partial ==
  /\ pc = "dir" /\ i <= Len(dir) /\ Len(context) < MaxSensors
  /\ context' = IF dir[i].type \in Supported
       THEN Append(context, [handle |-> Len(context) + 1, name |-> dir[i].name,
                             type |-> dir[i].type, virtual |-> FALSE,
                             path |-> None, dep |-> << >>])
       ELSE context
  /\ i' = i + 1
  /\ UNCHANGED <<world, pc, event_list, type_map>>

\* getSensorListInner() reads an entry into the next context and keeps it if
\* it is usable.
LookAtEntry ==
  /\ pc = "dir" /\ i <= Len(dir) /\ Len(context) < MaxSensors
  /\ context' = IF usable(dir[i])
       THEN Append(context, [handle |-> Len(context) + 1, name |-> dir[i].name,
                             type |-> dir[i].type, virtual |-> FALSE,
                             path |-> None, dep |-> << >>])
       ELSE context
  /\ i' = i + 1
  /\ UNCHANGED <<world, pc, event_list, type_map>>

DirDone ==
  /\ pc = "dir" /\ i > Len(dir)
  /\ pc' = "info" /\ i' = 1
  /\ UNCHANGED <<world, event_list, context, type_map>>

\* The event nodes of a name.
called(n) == {k \in DOMAIN event_list : event_list[k].name = n}

\* Mutant: it stops at any match.
dataPath_anyMatch(c) ==
  LET hits == called(c.name) \cup called(TypeName[c.type])
  IN  IF hits = {} THEN None ELSE event_list[Min(hits)].place

\* The event node of a context: the first one of its own name, otherwise the
\* last one of its type's name.  Only a match by its own name ends the loop.
dataPath(c) ==
  IF called(c.name) # {} THEN event_list[Min(called(c.name))].place
  ELSE IF called(TypeName[c.type]) # {} THEN event_list[Max(called(TypeName[c.type]))].place
  ELSE None

\* A hardware context is completed: it stands on itself alone.  A type
\* without a driver leaves NULL, which initCalibrate() follows as soon as
\* there are parameters to restore.
Complete ==
  /\ pc = "info" /\ i <= Len(context)
  /\ context' = [context EXCEPT ![i].dep = <<i>>, ![i].path = dataPath(context[i])]
  /\ type_map' = [type_map EXCEPT ![context[i].type] = i]
  /\ pc' = IF context[i].type \notin Driven /\ params THEN "dead" ELSE "info"
  /\ i' = i + 1
  /\ UNCHANGED <<world, event_list>>

InfoDone ==
  /\ pc = "info" /\ i > Len(context)
  /\ pc' = "virtual" /\ i' = 1
  /\ UNCHANGED <<world, event_list, context, type_map>>

\* has_acc, has_compass, has_gyro
has(t) == \E k \in DOMAIN context : ~context[k].virtual /\ context[k].type = t

wanted(v) == (\A t \in v.needs : has(t)) /\ (v.noGyro => ~has("gyro"))

\* The background sensors found by their types, in the order of the types.
found(v, t) ==
  IF t \in v.needs /\ type_map[t] # None THEN <<type_map[t]>> ELSE << >>

background(v) == found(v, "acc") \o found(v, "mag")

\* Mutant: orientation and its like are tried with a compass alone.
TryVirtual_compassOnly ==
  /\ pc = "virtual" /\ i <= Len(VirtualSensors) /\ Len(context) < MaxSensors
  /\ LET v == VirtualSensors[i] IN
     IF has("mag") /\ (v.noGyro => ~has("gyro")) /\ v.name \in algos
       THEN /\ context' = Append(context,
                 [handle |-> Len(context) + 1, name |-> v.name,
                  type |-> typeOf(v.name), virtual |-> TRUE,
                  path |-> None, dep |-> background(v)])
            /\ type_map' = [type_map EXCEPT ![typeOf(v.name)] = Len(context) + 1]
       ELSE UNCHANGED <<context, type_map>>
  /\ i' = i + 1
  /\ UNCHANGED <<world, pc, event_list>>

\* initVirtualSensor(), called for the virtual sensors that are wanted; one
\* without an algorithm is dropped and its place used for the next.
TryVirtual ==
  /\ pc = "virtual" /\ i <= Len(VirtualSensors)
  /\ Len(context) < MaxSensors \/ ~wanted(VirtualSensors[i])
  /\ LET v == VirtualSensors[i] IN
     IF wanted(v) /\ v.name \in algos
       THEN /\ context' = Append(context,
                 [handle |-> Len(context) + 1, name |-> v.name,
                  type |-> typeOf(v.name), virtual |-> TRUE,
                  path |-> None, dep |-> background(v)])
            /\ type_map' = [type_map EXCEPT ![typeOf(v.name)] = Len(context) + 1]
       ELSE UNCHANGED <<context, type_map>>
  /\ i' = i + 1
  /\ UNCHANGED <<world, pc, event_list>>

\* What is looked at next is read into the context behind the last one, be it
\* kept or not: an entry of the directory, or a virtual sensor that is wanted.
needsContext ==
  IF pc = "dir" THEN i <= Len(dir)
  ELSE pc = "virtual" /\ i <= Len(VirtualSensors) /\ wanted(VirtualSensors[i])

\* Nothing asks whether there is one.  What follows is not defined.
Overrun ==
  /\ needsContext /\ Len(context) = MaxSensors
  /\ pc' = "stray"
  /\ UNCHANGED <<world, i, event_list, context, type_map>>

VirtualDone ==
  /\ pc = "virtual" /\ i > Len(VirtualSensors)
  /\ pc' = "done"
  /\ UNCHANGED <<world, i, event_list, context, type_map>>

Next ==
  \/ LookAtNode \/ ScanFails \/ NodesDone \/ LookAtEntry \/ DirDone
  \/ Complete \/ InfoDone \/ TryVirtual \/ Overrun \/ VirtualDone

Spec == Init /\ [][Next]_vars

-----------------------------------------------------------------------------
Listed == Supported \cup {typeOf(VirtualSensors[k].name) : k \in DOMAIN VirtualSensors}
Node == [place : Nat, name : Name]
Context == [handle : Nat, name : Name, type : Listed, virtual : BOOLEAN,
            path : Nat \cup {None}, dep : Seq(Nat)]

TypeOK ==
  /\ pc \in {"nodes", "dir", "info", "virtual", "done", "dead", "stray"}
  /\ i \in Nat \ {0}
  /\ event_list \in Seq(Node)
  /\ context \in Seq(Context) /\ Len(context) <= MaxSensors
  /\ type_map \in [Type -> DOMAIN context \cup {None}]

Ready == pc = "done"

\* The contexts stay within their array as long as it has room for the usable
\* entries and all six virtual sensors: entries and virtual sensors that are
\* not kept take no place, although each is first read into one
\* (NativeSensorManager.cpp:596-626, 152-155).
ContextsFit ==
  pc = "stray" =>
    Cardinality({k \in DOMAIN dir : usable(dir[k])}) + Len(VirtualSensors) > MaxSensors

\* Sensors are numbered by their handles without a gap, so that the polling
\* thread's descriptors and the manager's contexts mean the same sensors
\* (sensors.cpp:128-134), and the hardware comes first.
HandlesAgree ==
  Ready => \A k \in DOMAIN context :
             /\ context[k].handle = k
             /\ context[k].virtual => \A m \in DOMAIN context :
                                        m > k => context[m].virtual

\* What SensorManager and PollLoop assume of the contexts: hardware stands
\* on itself, a virtual sensor on one hardware sensor of each type it needs,
\* although the flags that admit it and the map that finds them are kept
\* apart (NativeSensorManager.cpp:379-401, 421-466 against 168-177).
BackgroundComplete ==
  Ready => \A k \in DOMAIN context :
    LET dep == context[k].dep IN
    IF context[k].virtual
      THEN /\ \A m \in Range(dep) : ~context[m].virtual
           /\ IsInjective([m \in DOMAIN dep |-> context[dep[m]].type])
           /\ \E v \in Range(VirtualSensors) :
                v.name = context[k].name /\ v.needs = {context[m].type : m \in Range(dep)}
      ELSE dep = <<k>>

\* Two hardware sensors of different names, each with a node of its own name,
\* never read the same node, however the nodes are ordered.
PathsApart ==
  Ready => \A k, m \in DOMAIN context :
    (k # m /\ ~context[k].virtual /\ ~context[m].virtual
       /\ context[k].name # context[m].name
       /\ \A c \in {k, m} : \E e \in Range(event_list) : e.name = context[c].name)
      => context[k].path # context[m].path
=============================================================================
