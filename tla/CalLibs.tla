------------------------------ MODULE CalLibs ------------------------------
(***************************************************************************)
(* CalibrationManager: loads the calibration libraries that the            *)
(* configuration file names, gathers their algorithms in one list, picks   *)
(* an algorithm for a sensor, and unloads the libraries in the end.        *)
(*                                                                         *)
(* What there is to load is chosen in Init: the configuration file and, of *)
(* every library, how far loading it gets.  The list is first sized by one *)
(* pass over the libraries and then filled by another.  An algorithm is    *)
(* known by its library and its place in it; its compatible names are      *)
(* told apart as far as getCalAlgo() does.  Its module is the library it is *)
(* from.                                                                   *)
(***************************************************************************)
EXTENDS Integers, Sequences, Functions, FiniteSetsExt

CONSTANTS
  Lib,          \* the libraries that may be named
  Default,      \* DEFAULT_CAL_LIB
  Number,       \* sensor_cal_module_t.number of each library
  Configs,      \* the configuration files: sequences of names, or
  NoFile,       \* none that can be opened, or an empty one, or
  Misread,      \* one that read() fails on, or that fills buf to its end
  States,       \* how far loading a library may get
  Sensor,       \* the sensors algorithms are asked for, [type, name]
  Attributes,   \* what an algorithm may be: [valid, type, compatible]
  TypeName,     \* type_to_name()
  NoAlgo,       \* NULL
  Unset         \* a pointer nobody has written

State == {"absent",    \* no such file, or dlopen() fails
          "no symbol", \* opened, but not a calibration library
          "no init",   \* opened, and its init() fails
          "no list",   \* loaded, but get_algo_list() is missing or fails
          "good"}

Algo == UNION {{l} \X (1 .. Number[l]) : l \in Lib}

ASSUME LibAssumption ==
  /\ Default \in Lib /\ Number \in [Lib -> Nat] /\ States \subseteq State
  /\ Configs \subseteq Seq(Lib) \cup {NoFile, Misread}
  /\ {NoAlgo, Unset} \cap Algo = {} /\ NoAlgo # Unset

VARIABLES
  config, state,  \* what there is to load
  attributes,     \* and what the algorithms in it are
  pc,             \* "config", "load", "list", "ready", "scan", "unload", "done",
                  \* or "stray": memory beyond its own was used, anything may be
  cal_libs,       \* the names to load
  modules,        \* whether modules[i] is not NULL
  opened,         \* how often a library is open: dlopen() less dlclose()
  algo_count,
  algo_list,
  i,              \* place in the list pc is about
  tmp,            \* entries filled; or the compatible algorithm seen so far
  sensor,         \* what getCalAlgo() is asked for
  answer          \* its return value

world == <<config, state, attributes>>
manager == <<cal_libs, modules, opened, algo_count, algo_list>>
vars == <<world, manager, pc, i, tmp, sensor, answer>>

Init ==
  /\ config \in Configs /\ state \in [Lib -> States]
  /\ attributes \in [Algo -> Attributes]
  /\ pc = "config" /\ cal_libs = << >> /\ modules = << >>
  /\ opened = [l \in Lib |-> 0]
  /\ algo_count = 0 /\ algo_list = << >>
  /\ i = 1 /\ tmp = 0 /\ sensor \in Sensor /\ answer = NoAlgo

-----------------------------------------------------------------------------
(* loadCalLibs()                                                           *)

\* The names of the file; without a file, or with an empty one, the default.
\* The -1 of a failed read() is a large size_t, and the zero put behind what
\* was read lies outside buf then, as it does behind a full one.
ReadConfig ==
  /\ pc = "config"
  /\ IF config = Misread
       THEN pc' = "stray" /\ UNCHANGED cal_libs
       ELSE pc' = "load" /\ cal_libs' = IF config = NoFile THEN <<Default>> ELSE config
  /\ UNCHANGED <<world, modules, opened, algo_count, algo_list, i, tmp, sensor, answer>>

\* Mutant: they are counted before init() has succeeded.
Load_countFirst ==
  /\ pc = "load" /\ i <= Len(cal_libs)
  /\ LET l == cal_libs[i] IN
       /\ modules' = Append(modules, state[l] \in {"no list", "good"})
       /\ opened' = IF state[l] = "absent" THEN opened ELSE [opened EXCEPT ![l] = @ + 1]
       /\ algo_count' = algo_count +
            (IF state[l] \in {"no init", "no list", "good"} THEN Number[l] ELSE 0)
  /\ i' = i + 1
  /\ UNCHANGED <<world, pc, cal_libs, algo_list, tmp, sensor, answer>>

\* One library is loaded, and its algorithms are counted.
Load ==
  /\ pc = "load" /\ i <= Len(cal_libs)
  /\ LET l == cal_libs[i] IN
       /\ modules' = Append(modules, state[l] \in {"no list", "good"})
       /\ opened' = IF state[l] = "absent" THEN opened ELSE [opened EXCEPT ![l] = @ + 1]
       /\ algo_count' = algo_count +
            (IF state[l] \in {"no list", "good"} THEN Number[l] ELSE 0)
  /\ i' = i + 1
  /\ UNCHANGED <<world, pc, cal_libs, algo_list, tmp, sensor, answer>>

LoadDone ==
  /\ pc = "load" /\ i > Len(cal_libs)
  /\ algo_list' = [k \in 1 .. algo_count |-> Unset]
  /\ pc' = IF algo_count # 0 THEN "list" ELSE "ready"
  /\ i' = 1 /\ tmp' = 0
  /\ UNCHANGED <<world, cal_libs, modules, opened, algo_count, sensor, answer>>

\* The algorithms of one library are put behind those of the ones before.
List ==
  /\ pc = "list" /\ i <= Len(cal_libs)
  /\ LET l == cal_libs[i]
         n == IF modules[i] /\ state[l] = "good" THEN Number[l] ELSE 0
     IN  /\ algo_list' = [k \in 1 .. algo_count |->
              IF k \in (tmp + 1) .. (tmp + n) THEN <<l, k - tmp>> ELSE algo_list[k]]
         /\ tmp' = tmp + n
  /\ i' = i + 1
  /\ UNCHANGED <<world, pc, cal_libs, modules, opened, algo_count, sensor, answer>>

filled == pc = "list" /\ i > Len(cal_libs)

\* The constructor ends with dump(), which follows every entry of the list,
\* those nobody has written included.
ListDone ==
  /\ filled
  /\ pc' = IF Unset \in Range(algo_list) THEN "stray" ELSE "ready"
  /\ UNCHANGED <<world, manager, i, tmp, sensor, answer>>

-----------------------------------------------------------------------------
(* getCalAlgo(sensor)                                                      *)

Ask(s) ==
  /\ pc = "ready"
  /\ pc' = "scan" /\ sensor' = s /\ i' = 1 /\ tmp' = NoAlgo
  /\ UNCHANGED <<world, manager, answer>>

\* The type fits and check_algo() finds nothing missing.
considered(a) == attributes[a].type = sensor.type /\ attributes[a].valid
exactly(a) == sensor.name \in attributes[a].compatible
byType(a) == TypeName[sensor.type] \in attributes[a].compatible

\* Mutant: one for the type ends it as well.
Compare_firstFit ==
  /\ pc = "scan" /\ i <= algo_count
  /\ LET a == algo_list[i] IN
     IF considered(a) /\ (exactly(a) \/ byType(a))
       THEN pc' = "ready" /\ answer' = a /\ UNCHANGED <<i, tmp>>
       ELSE /\ i' = i + 1 /\ tmp' = tmp
            /\ UNCHANGED <<pc, answer>>
  /\ UNCHANGED <<world, manager, sensor>>

\* One algorithm is compared; one made for this very sensor ends the search.
Compare ==
  /\ pc = "scan" /\ i <= algo_count
  /\ LET a == algo_list[i] IN
     IF considered(a) /\ exactly(a)
       THEN pc' = "ready" /\ answer' = a /\ UNCHANGED <<i, tmp>>
       ELSE /\ i' = i + 1
            /\ tmp' = IF considered(a) /\ byType(a) THEN a ELSE tmp
            /\ UNCHANGED <<pc, answer>>
  /\ UNCHANGED <<world, manager, sensor>>

CompareDone ==
  /\ pc = "scan" /\ i > algo_count
  /\ pc' = "ready" /\ answer' = tmp
  /\ UNCHANGED <<world, manager, i, tmp, sensor>>

-----------------------------------------------------------------------------
(* ~CalibrationManager()                                                   *)

\* The library of entry k, found through the algorithm's own memory.
dso(k) == algo_list[k][1]

Destroy ==
  /\ pc = "ready"
  /\ pc' = IF algo_count # 0 THEN "unload" ELSE "done"
  /\ i' = 1
  /\ UNCHANGED <<world, manager, tmp, sensor, answer>>

\* Mutant: it is the other one that is closed.
Unload_other ==
  /\ pc = "unload" /\ i <= algo_count
  /\ opened' = IF i > 1 /\ dso(i) # dso(i - 1)
                 THEN [opened EXCEPT ![dso(i)] = @ - 1] ELSE opened
  /\ i' = i + 1
  /\ UNCHANGED <<world, pc, cal_libs, modules, algo_count, algo_list, tmp, sensor, answer>>

\* Mutant: every algorithm's library is closed.
Unload_eachTime ==
  /\ pc = "unload" /\ i <= algo_count
  /\ opened' = [opened EXCEPT ![dso(i)] = @ - 1]
  /\ i' = i + 1
  /\ UNCHANGED <<world, pc, cal_libs, modules, algo_count, algo_list, tmp, sensor, answer>>

\* Mutant: only the last library is closed, by UnloadLast.
Unload_never ==
  /\ pc = "unload" /\ i <= algo_count
  /\ i' = i + 1
  /\ UNCHANGED <<world, manager, pc, tmp, sensor, answer>>

\* A library is closed when the first algorithm of another one is met.
Unload ==
  /\ pc = "unload" /\ i <= algo_count
  /\ opened' = IF i > 1 /\ dso(i) # dso(i - 1)
                 THEN [opened EXCEPT ![dso(i - 1)] = @ - 1] ELSE opened
  /\ i' = i + 1
  /\ UNCHANGED <<world, pc, cal_libs, modules, algo_count, algo_list, tmp, sensor, answer>>

UnloadLast ==
  /\ pc = "unload" /\ i > algo_count
  /\ opened' = [opened EXCEPT ![dso(algo_count)] = @ - 1]
  /\ pc' = "done"
  /\ UNCHANGED <<world, cal_libs, modules, algo_count, algo_list, i, tmp, sensor, answer>>

Next ==
  \/ ReadConfig \/ Load \/ LoadDone \/ List \/ ListDone
  \/ \E s \in Sensor : Ask(s)
  \/ Compare \/ CompareDone
  \/ Destroy \/ Unload \/ UnloadLast

Spec == Init /\ [][Next]_vars

-----------------------------------------------------------------------------
TypeOK ==
  /\ pc \in {"config", "load", "list", "ready", "scan", "unload", "done", "stray"}
  /\ cal_libs \in Seq(Lib) /\ modules \in Seq(BOOLEAN)
  /\ opened \in [Lib -> Nat]
  /\ algo_count \in Nat
  /\ algo_list \in Seq(Algo \cup {Unset})
  /\ Len(algo_list) \in {0, algo_count}
  /\ i \in Nat \ {0}
  /\ IF pc = "scan" THEN tmp \in Algo \cup {NoAlgo} ELSE TRUE
  /\ sensor \in Sensor /\ answer \in Algo \cup {NoAlgo}

named(good) == {l \in Range(cal_libs) : state[l] \in good}
algosOf(libs) == {a \in Algo : a[1] \in libs}

\* The filled list has every algorithm of every library named that gives its
\* list, and of no other, whatever becomes of the others; no entry is left
\* unwritten unless get_algo_list() failed (lines 128-158).
GoodListed ==
  (filled \/ pc = "ready") =>
    /\ Range(algo_list) \ {Unset} = algosOf(named({"good"}))
    /\ named({"no list"}) = {} => Unset \notin Range(algo_list)

\* The algorithms as getCalAlgo() should see them.
fitting == {k \in 1 .. algo_count : considered(algo_list[k])}
exact == {k \in fitting : exactly(algo_list[k])}
compatible == {k \in fitting : byType(algo_list[k])}

\* A sensor gets an algorithm made for it if there is one, the first of the
\* list; otherwise the last one for its type; otherwise none (getCalAlgo).
BestMatch ==
  [][(pc = "scan" /\ pc' = "ready") =>
       answer' = IF exact # {} THEN algo_list[Min(exact)]
                 ELSE IF compatible # {} THEN algo_list[Max(compatible)]
                 ELSE NoAlgo]_vars

\* The destructor never closes a library more often than it was opened, nor
\* looks at an algorithm whose library is closed (lines 175-190).
ReadsOnlyOpen ==
  (pc = "unload" /\ i <= algo_count) => opened[dso(i)] > 0

\* In the end no library with algorithms is still open, if the configuration
\* names none twice.
AllClosed ==
  (pc = "done" /\ IsInjective(cal_libs)) =>
    \A k \in 1 .. algo_count : opened[dso(k)] = 0
=============================================================================
