-------------------------- MODULE CalibrationProofs --------------------------
(***************************************************************************)
(* The calibration libraries: how CalibrationManager loads, lists, chooses *)
(* and unloads them (CalLibs), for any libraries, configurations and       *)
(* failures; and what the common one, when it calibrates the magnetometer, *)
(* has in its buffers (CompassCal), for buffers of any size.               *)
(***************************************************************************)
EXTENDS CalLibs, CompassCal, SequenceTheorems, FiniteSetTheorems, TLAPS

-----------------------------------------------------------------------------
(* CalLibs.                                                                *)

loads(q) == state[cal_libs[q]] \in {"no list", "good"}
counted(q) == IF loads(q) THEN Number[cal_libs[q]] ELSE 0
good(q) == state[cal_libs[q]] = "good"

\* The places in the configuration at which library l was opened.
opens(l) == {q \in DOMAIN modules : cal_libs[q] = l /\ state[l] # "absent"}

\* A library is open as often as it was opened until the destructor runs.
Loaded ==
  /\ config \in Configs /\ state \in [Lib -> State]
  /\ pc = "config" => modules = << >> /\ cal_libs = << >> /\ i = 1
  /\ pc \in {"config", "load"} => algo_list = << >>
  /\ pc = "load" => i = Len(modules) + 1 /\ i <= Len(cal_libs) + 1
  /\ pc \notin {"config", "load"} => Len(modules) = Len(cal_libs)
  /\ \A q \in 1 .. Len(modules) : modules[q] = loads(q)
  /\ pc \notin {"unload", "done"} => \A l \in Lib : opened[l] = Cardinality(opens(l))

\* S[q] algorithms were counted in the first q libraries; as many or, when a
\* list was not to be had, fewer are entered.
Sums(S) ==
  /\ S[0] = 0 /\ S[Len(modules)] = algo_count
  /\ \A q \in 1 .. Len(modules) : S[q] = S[q - 1] + counted(q)
  /\ \A q \in 0 .. Len(modules) : S[q] <= algo_count

Sized ==
  \E S \in [0 .. Len(modules) -> Nat] :
    /\ Sums(S)
    /\ pc = "list" => /\ tmp <= S[i - 1]
                      /\ named({"no list"}) = {} => tmp = S[i - 1]

\* Entry k is of the library at place p[k], and the places do not fall.
Placed(p, n) ==
  /\ \A k \in 1 .. n : /\ algo_list[k] \in Algo
                       /\ cal_libs[p[k]] = dso(k) /\ good(p[k])
  /\ \A k, m \in 1 .. n : k <= m => p[k] <= p[m]

goodBefore(m) == {cal_libs[q] : q \in {r \in 1 .. (m - 1) : good(r)}}

Filling ==
  pc = "list" =>
    /\ i <= Len(cal_libs) + 1 /\ tmp \in 0 .. algo_count
    /\ Len(algo_list) = algo_count
    /\ \A k \in (tmp + 1) .. algo_count : algo_list[k] = Unset
    /\ {algo_list[k] : k \in 1 .. tmp} = algosOf(goodBefore(i))
    /\ \E p \in [1 .. tmp -> 1 .. (i - 1)] : Placed(p, tmp)

\* The entry whose library the destructor holds open.
prev == IF i = 1 THEN 1 ELSE i - 1

\* A library is open for every place that is still to come, and one that is
\* named once is closed as soon as its place has passed.
Closing(p) ==
  /\ \A l \in Lib : opened[l] >= Cardinality({q \in opens(l) : q >= p[prev]})
  /\ IsInjective(cal_libs) =>
       \A k \in 1 .. algo_count : opened[dso(k)] = IF p[k] < p[prev] THEN 0 ELSE 1

Filled ==
  pc \in {"ready", "scan", "unload"} =>
    /\ Len(algo_list) = algo_count
    /\ Range(algo_list) = algosOf(named({"good"}))
    /\ pc = "unload" => i <= algo_count + 1 /\ algo_count > 0
    /\ \E p \in [1 .. algo_count -> 1 .. Len(cal_libs)] :
         /\ Placed(p, algo_count)
         /\ pc = "unload" => Closing(p)

\* What getCalAlgo() has found in the entries before i.
Scanned ==
  pc = "scan" =>
    /\ i <= algo_count + 1
    /\ \A k \in exact : k >= i
    /\ \/ tmp = NoAlgo /\ \A k \in compatible : k >= i
       \/ \E k \in compatible :
            /\ k < i /\ tmp = algo_list[k]
            /\ \A m \in compatible : m < i => m <= k

LibInv == TypeOK /\ Loaded /\ Sized /\ Filling /\ Filled /\ Scanned /\ AllClosed

\* Algorithms are pairs of a library and a place in it.
LEMMA AlgoPairs ==
  /\ \A l \in Lib, j \in Nat : j \in 1 .. Number[l] <=> <<l, j>> \in Algo
  /\ \A a \in Algo : a[1] \in Lib /\ a[2] \in 1 .. Number[a[1]] /\ a = <<a[1], a[2]>>
  <1>1. \A l \in Lib, j \in Nat : j \in 1 .. Number[l] => <<l, j>> \in Algo
    BY DEF Algo
  <1>2. ASSUME NEW a \in Algo
        PROVE  a[1] \in Lib /\ a[2] \in 1 .. Number[a[1]] /\ a = <<a[1], a[2]>>
    <2>1. PICK l \in Lib : a \in {l} \X (1 .. Number[l])
      BY DEF Algo
    <2> QED BY <2>1
  <1>3. ASSUME NEW l \in Lib, NEW j \in Nat, <<l, j>> \in Algo PROVE j \in 1 .. Number[l]
    BY <1>2, <1>3
  <1> QED BY <1>1, <1>2, <1>3

\* The places at which a library was opened are finitely many.
LEMMA OpensFinite ==
  ASSUME modules \in Seq(BOOLEAN), NEW l, NEW T \in SUBSET opens(l)
  PROVE  IsFiniteSet(T) /\ Cardinality(T) \in Nat /\ T \subseteq Nat
  <1>1. T \in SUBSET (1 .. Len(modules)) /\ Len(modules) \in Nat
    BY DEF opens
  <1>2. IsFiniteSet(1 .. Len(modules))
    BY <1>1, FS_Interval
  <1>3. IsFiniteSet(T)
    BY <1>1, <1>2, FS_Subset
  <1> QED BY <1>1, <1>3, FS_CardinalityType

LEMMA LibInvInit == Init => LibInv
  <1> SUFFICES ASSUME Init PROVE LibInv
    OBVIOUS
  <1> USE LibAssumption DEF Init
  <1>1. TypeOK
    BY DEF TypeOK
  <1>2. Loaded
    <2>1. state \in [Lib -> State] /\ modules = << >> /\ Len(modules) = 0
      OBVIOUS
    <2>2. \A l \in Lib : opens(l) = {}
      BY <2>1 DEF opens
    <2>3. \A l \in Lib : opened[l] = Cardinality(opens(l))
      BY <2>2, FS_EmptySet
    <2> QED BY <2>1, <2>3 DEF Loaded
  <1>3. Sized
    <2> DEFINE S == [q \in 0 .. Len(modules) |-> 0]
    <2>1. Len(modules) = 0 /\ S \in [0 .. Len(modules) -> Nat] /\ Sums(S)
      BY DEF Sums
    <2> QED BY <2>1 DEF Sized
  <1> QED BY <1>1, <1>2, <1>3 DEF LibInv, Filling, Filled, Scanned, AllClosed

LEMMA ConfigStep == LibInv /\ ReadConfig => LibInv'
  <1> SUFFICES ASSUME TypeOK, Loaded, Sized, Filling, Filled, Scanned, AllClosed, ReadConfig
               PROVE  LibInv'
    BY DEF LibInv
  <1> USE DEF ReadConfig, world
  <1>0. /\ modules = << >> /\ cal_libs = << >> /\ Len(modules) = 0 /\ i = 1
        /\ config \in Configs
    BY DEF Loaded
  <1>1. cal_libs' \in Seq(Lib) /\ Len(cal_libs') \in Nat
    <2>1. CASE config = Misread
      <3>1. cal_libs' = cal_libs
        BY <2>1
      <3> QED BY <3>1 DEF TypeOK
    <2>2. CASE config # Misread /\ config = NoFile
      <3>1. cal_libs' = <<Default>> /\ Default \in Lib
        BY <2>2, LibAssumption
      <3> QED BY <3>1
    <2>3. CASE config \notin {NoFile, Misread}
      <3>1. cal_libs' = config
        BY <2>3
      <3>2. config \in Seq(Lib)
        BY <1>0, <2>3, LibAssumption
      <3> QED BY <3>1, <3>2
    <2> QED BY <2>1, <2>2, <2>3
  <1>2. TypeOK'
    BY <1>1 DEF TypeOK
  <1>3. Loaded'
    <2>1. \A l \in Lib : opens(l) = {} /\ opens(l)' = {}
      BY <1>0 DEF opens
    <2>2. \A l \in Lib : opened'[l] = Cardinality(opens(l)')
      BY <2>1 DEF Loaded
    <2>3. config' \in Configs /\ state' \in [Lib -> State]
      BY DEF Loaded
    <2>4. /\ pc' = "load" \/ (pc' = "stray" /\ Len(cal_libs') = 0)
          /\ i' = 1 /\ Len(modules') = 0
      BY <1>0
    <2>5. algo_list' = << >>
      BY DEF Loaded
    <2> QED BY <1>1, <2>2, <2>3, <2>4, <2>5 DEF Loaded
  <1>4. Sized'
    <2>1. PICK S \in [0 .. Len(modules) -> Nat] : Sums(S)
      BY DEF Sized
    <2>2. modules' = modules /\ pc' # "list"
      OBVIOUS
    <2>3. Sums(S)'
      BY <1>0, <2>1 DEF Sums
    <2> QED BY <2>2, <2>3 DEF Sized
  <1> QED BY <1>2, <1>3, <1>4 DEF LibInv, Filling, Filled, Scanned, AllClosed

LEMMA LoadStep == LibInv /\ Load => LibInv'
  <1> SUFFICES ASSUME TypeOK, Loaded, Sized, Filling, Filled, Scanned, AllClosed, Load
               PROVE  LibInv'
    BY DEF LibInv
  <1> DEFINE n == Len(modules)
             l == cal_libs[i]
  <1>0. /\ n \in Nat /\ i = n + 1 /\ i \in 1 .. Len(cal_libs) /\ l \in Lib
        /\ Number[l] \in Nat /\ state[l] \in State /\ state' = state /\ cal_libs' = cal_libs
        /\ i' = i + 1 /\ pc = "load" /\ pc' = "load" /\ algo_list' = algo_list
        /\ config' = config
    <2>1. n \in Nat /\ Len(cal_libs) \in Nat /\ cal_libs \in Seq(Lib)
      BY DEF TypeOK
    <2>2. pc = "load" /\ i = n + 1 /\ i <= Len(cal_libs)
      BY DEF Load, Loaded
    <2>3. i \in 1 .. Len(cal_libs) /\ l \in Lib
      BY <2>1, <2>2
    <2>4. Number[l] \in Nat /\ state[l] \in State
      BY <2>3, LibAssumption DEF Loaded
    <2> QED BY <2>1, <2>2, <2>3, <2>4 DEF Load, world
  <1>1. /\ modules' \in Seq(BOOLEAN) /\ Len(modules') = n + 1
        /\ \A q \in 1 .. n : modules'[q] = modules[q]
        /\ modules'[n + 1] = loads(i)
    <2>1. modules' = Append(modules, loads(i)) /\ modules \in Seq(BOOLEAN)
      BY DEF Load, loads, TypeOK
    <2>2. loads(i) \in BOOLEAN
      BY DEF loads
    <2> QED BY <2>1, <2>2, AppendProperties
  <1>2. algo_count' = algo_count + counted(i) /\ counted(i) \in Nat /\ algo_count \in Nat
    BY <1>0 DEF Load, counted, loads, TypeOK
  <1>3. opened' = IF state[l] = "absent" THEN opened ELSE [opened EXCEPT ![l] = @ + 1]
    BY DEF Load
  <1>4. TypeOK'
    <2>1. opened' \in [Lib -> Nat]
      BY <1>0, <1>3 DEF TypeOK
    <2>2. algo_list' = << >> /\ Len(algo_list') = 0 /\ algo_list' \in Seq(Algo \cup {Unset})
      BY <1>0 DEF Loaded
    <2>3. algo_count' \in Nat /\ i' \in Nat \ {0}
      BY <1>0, <1>2
    <2> QED BY <1>0, <1>1, <2>1, <2>2, <2>3 DEF Load, TypeOK
  <1>5. Loaded'
    <2>1. ASSUME NEW m \in Lib PROVE opened'[m] = Cardinality(opens(m)')
      <3>1. opened[m] = Cardinality(opens(m)) /\ opened \in [Lib -> Nat]
        BY <1>0 DEF Loaded, TypeOK
      <3>2. IsFiniteSet(opens(m)) /\ i \notin opens(m)
        <4>1. modules \in Seq(BOOLEAN) /\ opens(m) \in SUBSET opens(m)
          BY DEF TypeOK
        <4>2. opens(m) \subseteq 1 .. n
          BY <4>1 DEF opens
        <4> QED BY <1>0, <4>1, <4>2, OpensFinite
      <3>3. opens(m)' = IF m = l /\ state[l] # "absent" THEN opens(m) \cup {i} ELSE opens(m)
        <4>1. DOMAIN modules' = 1 .. (n + 1) /\ DOMAIN modules = 1 .. n
          BY <1>1 DEF TypeOK
        <4> QED BY <1>0, <4>1 DEF opens
      <3>4. CASE m = l /\ state[l] # "absent"
        <4>1. Cardinality(opens(m) \cup {i}) = Cardinality(opens(m)) + 1
          BY <3>2, FS_AddElement
        <4> QED BY <3>1, <3>3, <3>4, <4>1, <1>3
      <3>5. CASE ~(m = l /\ state[l] # "absent")
        BY <3>1, <3>3, <3>5, <1>3
      <3> QED BY <3>4, <3>5
    <2>2. \A q \in 1 .. Len(modules') : modules'[q] = loads(q)'
      <3>1. \A q : loads(q)' = loads(q)
        BY <1>0 DEF loads
      <3>2. \A q \in 1 .. n : modules'[q] = loads(q)
        BY <1>1 DEF Loaded
      <3>3. \A q \in 1 .. (n + 1) : q \in 1 .. n \/ q = n + 1
        BY <1>0
      <3> QED BY <1>0, <1>1, <3>1, <3>2, <3>3, Zenon
    <2>3. i' = Len(modules') + 1 /\ i' <= Len(cal_libs') + 1
      BY <1>0, <1>1
    <2>4. config' \in Configs /\ state' \in [Lib -> State] /\ algo_list' = << >>
      BY <1>0 DEF Loaded
    <2> QED BY <1>0, <2>1, <2>2, <2>3, <2>4 DEF Loaded
  <1>6. Sized'
    <2>1. PICK S \in [0 .. n -> Nat] : Sums(S)
      BY DEF Sized
    <2>2. PICK T \in [0 .. (n + 1) -> Nat] :
            T[0] = 0 /\ T[n + 1] = algo_count' /\ \A q \in 0 .. n : T[q] = S[q]
      <3> DEFINE U == [q \in 0 .. (n + 1) |-> IF q = n + 1 THEN algo_count' ELSE S[q]]
      <3>1. U \in [0 .. (n + 1) -> Nat]
        BY <1>0, <1>2
      <3>2. U[0] = 0 /\ U[n + 1] = algo_count' /\ \A q \in 0 .. n : U[q] = S[q]
        BY <1>0, <2>1 DEF Sums
      <3> QED BY <3>1, <3>2
    <2>3. T[0] = 0 /\ T[n + 1] = algo_count' /\ \A q \in 0 .. n : T[q] = S[q]
      BY <2>2
    <2>4. \A q \in 1 .. (n + 1) : T[q] = T[q - 1] + counted(q)
      <3>1. ASSUME NEW q \in 1 .. n PROVE T[q] = T[q - 1] + counted(q)
        BY <1>0, <2>1, <2>3 DEF Sums
      <3>2. T[n + 1] = T[n] + counted(n + 1)
        BY <1>0, <1>2, <2>1, <2>3 DEF Sums
      <3>3. \A q \in 1 .. (n + 1) : q \in 1 .. n \/ q = n + 1
        BY <1>0
      <3> QED BY <3>1, <3>2, <3>3
    <2>5. \A q \in 0 .. (n + 1) : T[q] <= algo_count'
      <3>1. ASSUME NEW q \in 0 .. n PROVE T[q] <= algo_count'
        <4>1. S[q] <= algo_count /\ S[q] \in Nat /\ T[q] = S[q]
          BY <2>1, <2>3 DEF Sums
        <4> QED BY <1>2, <4>1
      <3>2. \A q \in 0 .. (n + 1) : q \in 0 .. n \/ q = n + 1
        BY <1>0
      <3>3. algo_count' <= algo_count'
        BY <1>2
      <3> QED BY <2>3, <3>1, <3>2, <3>3
    <2>6. \A q \in 1 .. (n + 1) : counted(q)' = counted(q)
      BY <1>0 DEF counted, loads
    <2>7. Sums(T)'
      BY <1>0, <1>1, <2>3, <2>4, <2>5, <2>6 DEF Sums
    <2> QED BY <1>0, <1>1, <2>7 DEF Sized
  <1> QED BY <1>0, <1>4, <1>5, <1>6 DEF LibInv, Filling, Filled, Scanned, AllClosed

\* With nothing counted, no library has an algorithm to list.
LEMMA NothingCounted ==
  ASSUME TypeOK, Loaded, Sized, algo_count = 0, Len(modules) = Len(cal_libs)
  PROVE  algosOf(named({"good"})) = {}
  <1>1. PICK S \in [0 .. Len(modules) -> Nat] : Sums(S)
    BY DEF Sized
  <1>2. Len(modules) \in Nat /\ cal_libs \in Seq(Lib)
    BY DEF TypeOK
  <1>3. ASSUME NEW q \in 1 .. Len(modules) PROVE counted(q) = 0
    <2>1. /\ q \in 0 .. Len(modules) /\ q - 1 \in 0 .. Len(modules)
      BY <1>2
    <2>2. /\ S[q] = S[q - 1] + counted(q) /\ S[q] <= 0 /\ S[q - 1] <= 0
          /\ S[q] \in Nat /\ S[q - 1] \in Nat
      BY <1>1, <2>1 DEF Sums
    <2>3. counted(q) \in Nat
      <3>1. cal_libs[q] \in Lib
        BY <1>2
      <3> QED BY <3>1, LibAssumption DEF counted
    <2> QED BY <2>2, <2>3
  <1>4. SUFFICES ASSUME NEW a \in Algo, a[1] \in named({"good"}) PROVE FALSE
    BY DEF algosOf
  <1>5. PICK q \in 1 .. Len(cal_libs) : cal_libs[q] = a[1] /\ state[a[1]] = "good"
    BY <1>2, <1>4 DEF named, Range
  <1>6. Number[a[1]] = 0
    BY <1>3, <1>5 DEF counted, loads
  <1> QED BY <1>6, AlgoPairs

LEMMA LoadDoneStep == LibInv /\ LoadDone => LibInv'
  <1> SUFFICES ASSUME TypeOK, Loaded, Sized, Filling, Filled, Scanned, AllClosed, LoadDone
               PROVE  LibInv'
    BY DEF LibInv
  <1>0. /\ pc = "load" /\ i = Len(modules) + 1 /\ Len(modules) = Len(cal_libs)
        /\ Len(modules) \in Nat /\ algo_count \in Nat /\ cal_libs \in Seq(Lib)
    BY DEF LoadDone, Loaded, TypeOK
  <1>1. /\ UNCHANGED <<config, state, cal_libs, modules, opened, algo_count, sensor, answer>>
        /\ algo_list' = [k \in 1 .. algo_count |-> Unset]
        /\ pc' = (IF algo_count # 0 THEN "list" ELSE "ready") /\ i' = 1 /\ tmp' = 0
    BY DEF LoadDone, world
  <1>2. algo_list' \in Seq(Algo \cup {Unset}) /\ Len(algo_list') = algo_count
    BY <1>0, <1>1
  <1>3. TypeOK'
    BY <1>0, <1>1, <1>2 DEF TypeOK
  <1>4. Loaded'
    <2>1. \A q : loads(q)' = loads(q)
      BY <1>1 DEF loads
    <2>2. \A l \in Lib : opened'[l] = Cardinality(opens(l)')
      <3>1. \A l \in Lib : opens(l)' = opens(l)
        BY <1>1 DEF opens
      <3> QED BY <1>0, <1>1, <3>1 DEF Loaded
    <2> QED BY <1>0, <1>1, <2>1, <2>2 DEF Loaded
  <1>5. Sized'
    <2>1. PICK S \in [0 .. Len(modules) -> Nat] : Sums(S)
      BY DEF Sized
    <2>2. \A q : counted(q)' = counted(q)
      BY <1>1 DEF counted, loads
    <2>3. Sums(S)' /\ S[0] = 0
      BY <1>1, <2>1, <2>2 DEF Sums
    <2>4. S \in [0 .. Len(modules') -> Nat]
      BY <1>1, <2>1
    <2>5. tmp' = S[i' - 1] /\ tmp' <= S[i' - 1]
      <3>1. i' - 1 = 0
        BY <1>1
      <3> QED BY <1>1, <2>3, <3>1
    <2> QED BY <2>3, <2>4, <2>5 DEF Sized
  <1>6. Filling'
    <2>1. \A m : goodBefore(1) = {} /\ goodBefore(1)' = {}
      BY DEF goodBefore
    <2>2. {algo_list'[k] : k \in 1 .. 0} = {} /\ algosOf({}) = {} /\ algosOf({})' = {}
      BY DEF algosOf
    <2>3. algosOf(goodBefore(i))' = {}
      BY <1>1, <2>1 DEF algosOf
    <2>4. \E p \in [1 .. 0 -> 1 .. 0] : Placed(p, 0)'
      <3>1. [k \in 1 .. 0 |-> k] \in [1 .. 0 -> 1 .. 0]
        OBVIOUS
      <3>2. \A p : Placed(p, 0)'
        BY DEF Placed
      <3> QED BY <3>1, <3>2
    <2>5. \A k \in 1 .. algo_count : algo_list'[k] = Unset
      BY <1>1
    <2>6. i' <= Len(cal_libs') + 1 /\ tmp' \in 0 .. algo_count' /\ Len(algo_list') = algo_count'
      BY <1>0, <1>1, <1>2
    <2>7. \A k \in (tmp' + 1) .. algo_count' : algo_list'[k] = Unset
      BY <1>1, <2>5
    <2>8. {algo_list'[k] : k \in 1 .. tmp'} = algosOf(goodBefore(i))'
      BY <1>1, <2>2, <2>3
    <2>9. \E p \in [1 .. tmp' -> 1 .. (i' - 1)] : Placed(p, tmp)'
      <3>1. i' - 1 = 0 /\ tmp' = 0
        BY <1>1
      <3>2. \A p : Placed(p, tmp)'
        BY <3>1 DEF Placed
      <3> QED BY <2>4, <3>1, <3>2
    <2> QED BY <2>6, <2>7, <2>8, <2>9 DEF Filling
  <1>7. Filled'
    <2>1. CASE algo_count # 0
      BY <1>1, <2>1 DEF Filled
    <2>2. CASE algo_count = 0
      <3>1. algosOf(named({"good"}))' = {}
        <4>1. algosOf(named({"good"}))' = algosOf(named({"good"}))
          BY <1>1 DEF algosOf, named
        <4> QED BY <1>0, <2>2, <4>1, NothingCounted
      <3>2. Range(algo_list') = {}
        BY <1>2, <2>2 DEF Range
      <3>3. \E p \in [1 .. 0 -> 1 .. Len(cal_libs')] : Placed(p, 0)'
        <4>1. [k \in 1 .. 0 |-> k] \in [1 .. 0 -> 1 .. Len(cal_libs')]
          OBVIOUS
        <4>2. \A p : Placed(p, 0)'
          BY DEF Placed
        <4> QED BY <4>1, <4>2
      <3> QED BY <1>1, <1>2, <2>2, <3>1, <3>2, <3>3 DEF Filled
    <2> QED BY <2>1, <2>2
  <1> QED BY <1>1, <1>3, <1>4, <1>5, <1>6, <1>7 DEF LibInv, Scanned, AllClosed

LEMMA ListStep == LibInv /\ List => LibInv'
  <1> SUFFICES ASSUME TypeOK, Loaded, Sized, Filling, Filled, Scanned, AllClosed, List
               PROVE  LibInv'
    BY DEF LibInv
  <1> DEFINE l == cal_libs[i]
             n == IF good(i) THEN Number[l] ELSE 0
  <1>0. /\ pc = "list" /\ Len(modules) = Len(cal_libs) /\ cal_libs \in Seq(Lib)
        /\ Len(cal_libs) \in Nat /\ algo_count \in Nat /\ i \in 1 .. Len(cal_libs)
        /\ l \in Lib /\ n \in Nat /\ tmp \in 0 .. algo_count
        /\ Len(algo_list) = algo_count /\ algo_list \in Seq(Algo \cup {Unset})
    <2>1. pc = "list" /\ i \in 1 .. Len(cal_libs) /\ cal_libs \in Seq(Lib)
      BY DEF List, TypeOK
    <2>2. l \in Lib /\ Number[l] \in Nat
      BY <2>1, LibAssumption
    <2>3. tmp \in 0 .. algo_count /\ Len(algo_list) = algo_count
      BY <2>1 DEF Filling
    <2>4. Len(modules) = Len(cal_libs)
      BY <2>1 DEF Loaded
    <2> QED BY <2>1, <2>2, <2>3, <2>4 DEF TypeOK
  <1>1. /\ UNCHANGED <<config, state, pc, cal_libs, modules, opened, algo_count, sensor, answer>>
        /\ i' = i + 1 /\ tmp' = tmp + n
        /\ algo_list' = [k \in 1 .. algo_count |->
             IF k \in (tmp + 1) .. (tmp + n) THEN <<l, k - tmp>> ELSE algo_list[k]]
    <2>1. (modules[i] /\ state[l] = "good") <=> good(i)
      BY <1>0 DEF Loaded, loads, good
    <2> QED BY <2>1 DEF List, world
  <1> HIDE DEF n
  <1>2. PICK S \in [0 .. Len(modules) -> Nat] :
          /\ Sums(S) /\ tmp <= S[i - 1]
          /\ named({"no list"}) = {} => tmp = S[i - 1]
    BY <1>0 DEF Sized
  <1>3. /\ S[i - 1] \in Nat /\ S[i] \in Nat /\ S[i] = S[i - 1] + counted(i) /\ S[i] <= algo_count
        /\ n <= counted(i) /\ counted(i) \in Nat
        /\ named({"no list"}) = {} => n = counted(i)
    <2>1. i - 1 \in 0 .. Len(modules) /\ i \in 0 .. Len(modules) /\ i \in 1 .. Len(modules)
      BY <1>0
    <2>2. n <= counted(i) /\ counted(i) \in Nat
      <3>1. Number[l] \in Nat
        BY <1>0, LibAssumption
      <3>2. n = (IF good(i) THEN Number[l] ELSE 0) /\ (good(i) => loads(i))
        BY DEF n, good, loads
      <3>3. counted(i) = IF loads(i) THEN Number[l] ELSE 0
        BY DEF counted
      <3> QED BY <3>1, <3>2, <3>3
    <2>3. ASSUME named({"no list"}) = {} PROVE n = counted(i)
      <3>1. state[l] # "no list"
        <4>1. l \in Range(cal_libs)
          BY <1>0 DEF Range
        <4> QED BY <2>3, <4>1 DEF named
      <3> QED BY <3>1 DEF n, counted, loads, good
    <2> QED BY <1>2, <2>1, <2>2, <2>3 DEF Sums
  <1>4. /\ tmp + n <= algo_count /\ tmp' \in 0 .. algo_count
        /\ tmp + n <= S[i]
        /\ named({"no list"}) = {} => tmp + n = S[i]
    <2>1. PICK x \in Nat, y \in Nat, c \in Nat : x = S[i - 1] /\ y = S[i] /\ c = counted(i)
      BY <1>3
    <2>2. y = x + c /\ y <= algo_count /\ n <= c /\ tmp <= x
      BY <1>2, <1>3, <2>1
    <2>3. named({"no list"}) = {} => n = c /\ tmp = x
      BY <1>2, <1>3, <2>1
    <2>4. tmp \in Nat /\ n \in Nat /\ algo_count \in Nat
      BY <1>0
    <2>5. tmp + n <= y /\ (n = c /\ tmp = x => tmp + n = y)
      BY <2>2, <2>4
    <2>6. tmp + n \in 0 .. algo_count
      BY <2>2, <2>4
    <2>7. tmp' \in 0 .. algo_count /\ tmp + n <= algo_count
      BY <1>1, <2>2, <2>4, <2>6
    <2> QED BY <2>1, <2>3, <2>5, <2>7, Zenon
  <1>5. /\ algo_list' \in Seq(Algo \cup {Unset}) /\ Len(algo_list') = algo_count
        /\ \A k \in 1 .. tmp : algo_list'[k] = algo_list[k]
        /\ \A k \in (tmp + 1) .. (tmp + n) : algo_list'[k] = <<l, k - tmp>> /\ <<l, k - tmp>> \in Algo
        /\ \A k \in (tmp + n + 1) .. algo_count : algo_list'[k] = Unset
    <2>1. ASSUME NEW k \in (tmp + 1) .. (tmp + n)
          PROVE  <<l, k - tmp>> \in Algo
      <3>1. k - tmp \in 1 .. n /\ n = Number[l]
        BY <1>0, <2>1 DEF n
      <3> QED BY <1>0, <3>1, AlgoPairs
    <2>2. \A k \in 1 .. algo_count : algo_list[k] \in Algo \cup {Unset}
      BY <1>0
    <2>3. \A k \in 1 .. algo_count : algo_list'[k] \in Algo \cup {Unset}
      BY <1>1, <2>1, <2>2
    <2>4. algo_list' \in Seq(Algo \cup {Unset}) /\ Len(algo_list') = algo_count
      <3>1. DOMAIN algo_list' = 1 .. algo_count
        BY <1>1
      <3>2. algo_list' \in [1 .. algo_count -> Algo \cup {Unset}]
        BY <1>1, <2>3
      <3> QED BY <1>0, <3>2
    <2>5. \A k \in 1 .. tmp : algo_list'[k] = algo_list[k]
      BY <1>0, <1>1
    <2>6. \A k \in (tmp + 1) .. (tmp + n) : algo_list'[k] = <<l, k - tmp>>
      <3>1. tmp + n <= algo_count
        BY <1>4, Zenon
      <3>2. (tmp + 1) .. (tmp + n) \subseteq 1 .. algo_count
        BY <1>0, <3>1
      <3> QED BY <1>1, <3>2
    <2>7. \A k \in (tmp + n + 1) .. algo_count : algo_list'[k] = Unset
      <3>1. \A k \in (tmp + 1) .. algo_count : algo_list[k] = Unset
        BY <1>0 DEF Filling
      <3> QED BY <1>0, <1>1, <3>1
    <2> QED BY <2>1, <2>4, <2>5, <2>6, <2>7
  <1>6. TypeOK'
    <2>1. algo_list' \in Seq(Algo \cup {Unset}) /\ Len(algo_list') \in {0, algo_count}
      BY <1>5
    <2>2. i' \in Nat \ {0} /\ pc' # "scan"
      BY <1>0, <1>1
    <2>3. algo_count' = algo_count
      BY <1>1
    <2> QED BY <1>1, <2>1, <2>2, <2>3, Zenon DEF TypeOK
  <1>7. Loaded'
    <2>1. \A q : loads(q)' = loads(q)
      BY <1>1 DEF loads
    <2>2. \A m \in Lib : opened'[m] = Cardinality(opens(m)')
      <3>1. \A m \in Lib : opens(m)' = opens(m)
        BY <1>1 DEF opens
      <3> QED BY <1>0, <1>1, <3>1 DEF Loaded
    <2> QED BY <1>0, <1>1, <2>1, <2>2 DEF Loaded
  <1>8. Sized'
    <2>1. Sums(S)'
      <3>1. \A q : counted(q)' = counted(q)
        BY <1>1 DEF counted, loads
      <3> QED BY <1>1, <1>2, <3>1 DEF Sums
    <2>2. named({"no list"})' = named({"no list"})
      BY <1>1 DEF named
    <2>3. tmp' <= S[i' - 1] /\ (named({"no list"}) = {} => tmp' = S[i' - 1])
      <3>1. i' - 1 = i
        BY <1>0, <1>1
      <3> QED BY <1>1, <1>4, <3>1
    <2> QED BY <1>1, <2>1, <2>2, <2>3 DEF Sized
  <1>9. Filling'
    <2>1. {algo_list'[k] : k \in 1 .. (tmp + n)} = algosOf(goodBefore(i + 1))
      <3>1. goodBefore(i + 1) = IF good(i) THEN goodBefore(i) \cup {l} ELSE goodBefore(i)
        BY <1>0 DEF goodBefore
      <3>2. {algo_list[k] : k \in 1 .. tmp} = algosOf(goodBefore(i))
        BY <1>0 DEF Filling
      <3>3. {algo_list'[k] : k \in 1 .. tmp} = algosOf(goodBefore(i))
        BY <1>5, <3>2
      <3>4. {algo_list'[k] : k \in (tmp + 1) .. (tmp + n)} = IF good(i) THEN algosOf({l}) ELSE {}
        <4>1. CASE ~good(i)
          BY <1>0, <4>1 DEF n
        <4>2. CASE good(i)
          <5>1. n = Number[l]
            BY <4>2 DEF n
          <5>2. ASSUME NEW k \in (tmp + 1) .. (tmp + n) PROVE algo_list'[k] \in algosOf({l})
            <6>1. algo_list'[k] = <<l, k - tmp>> /\ <<l, k - tmp>> \in Algo
              BY <1>5
            <6>2. <<l, k - tmp>>[1] = l
              OBVIOUS
            <6> QED BY <6>1, <6>2 DEF algosOf
          <5>3. ASSUME NEW a \in algosOf({l})
                PROVE  \E k \in (tmp + 1) .. (tmp + n) : algo_list'[k] = a
            <6>1. a \in Algo /\ a[1] = l
              BY DEF algosOf
            <6>2. a = <<l, a[2]>> /\ a[2] \in 1 .. n
              BY <5>1, <6>1, AlgoPairs
            <6>3. tmp + a[2] \in (tmp + 1) .. (tmp + n) /\ (tmp + a[2]) - tmp = a[2]
              BY <1>0, <6>2
            <6> QED BY <1>5, <6>2, <6>3
          <5> QED BY <4>2, <5>2, <5>3
        <4> QED BY <4>1, <4>2
      <3>5. \A k \in 1 .. (tmp + n) : k \in 1 .. tmp \/ k \in (tmp + 1) .. (tmp + n)
        BY <1>0
      <3>6. 1 .. tmp \subseteq 1 .. (tmp + n) /\ (tmp + 1) .. (tmp + n) \subseteq 1 .. (tmp + n)
        BY <1>0
      <3>7. {algo_list'[k] : k \in 1 .. (tmp + n)}
              = {algo_list'[k] : k \in 1 .. tmp} \cup {algo_list'[k] : k \in (tmp + 1) .. (tmp + n)}
        BY <3>5, <3>6
      <3>8. algosOf(goodBefore(i) \cup {l}) = algosOf(goodBefore(i)) \cup algosOf({l})
        BY DEF algosOf
      <3> QED BY <3>1, <3>3, <3>4, <3>7, <3>8
    <2>2. algosOf(goodBefore(i))' = algosOf(goodBefore(i + 1))
      BY <1>1 DEF algosOf, goodBefore, good
    <2>3. \E p \in [1 .. (tmp + n) -> 1 .. i] : Placed(p, tmp)'
      <3>1. PICK p \in [1 .. tmp -> 1 .. (i - 1)] : Placed(p, tmp)
        BY <1>0 DEF Filling
      <3>0. PICK r \in [1 .. (tmp + n) -> 1 .. i] :
              /\ \A k \in 1 .. tmp : r[k] = p[k] /\ p[k] \in 1 .. (i - 1)
              /\ \A k \in (tmp + 1) .. (tmp + n) : r[k] = i
        <4> DEFINE x == [k \in 1 .. (tmp + n) |-> IF k <= tmp THEN p[k] ELSE i]
        <4>1. x \in [1 .. (tmp + n) -> 1 .. i]
          BY <1>0
        <4>2. \A k \in 1 .. tmp : x[k] = p[k] /\ p[k] \in 1 .. (i - 1)
          BY <1>0
        <4>3. \A k \in (tmp + 1) .. (tmp + n) : x[k] = i
          BY <1>0
        <4> HIDE DEF x
        <4> QED BY <4>1, <4>2, <4>3
      <3>2. r \in [1 .. (tmp + n) -> 1 .. i]
        OBVIOUS
      <3>3. \A k \in 1 .. tmp : r[k] = p[k] /\ p[k] \in 1 .. (i - 1)
        BY <3>0
      <3>4. \A k \in (tmp + 1) .. (tmp + n) : r[k] = i
        BY <3>0
      <3>5. \A k \in 1 .. (tmp + n) : k \in 1 .. tmp \/ k \in (tmp + 1) .. (tmp + n)
        BY <1>0
      <3>6. ASSUME NEW k \in 1 .. (tmp + n)
            PROVE  /\ algo_list'[k] \in Algo
                   /\ cal_libs[r[k]] = algo_list'[k][1] /\ good(r[k])
        <4>1. CASE k \in 1 .. tmp
          BY <1>5, <3>1, <3>3, <4>1 DEF Placed, dso
        <4>2. CASE k \in (tmp + 1) .. (tmp + n)
          <5>1. good(i)
            BY <1>0, <4>2 DEF n
          <5>2. algo_list'[k] = <<l, k - tmp>> /\ <<l, k - tmp>> \in Algo /\ r[k] = i
            BY <1>5, <3>4, <4>2
          <5> QED BY <5>1, <5>2
        <4> QED BY <3>5, <4>1, <4>2
      <3>7. ASSUME NEW k \in 1 .. (tmp + n), NEW m \in 1 .. (tmp + n), k <= m
            PROVE  r[k] <= r[m]
        <4>1. CASE m \in 1 .. tmp
          <5>1. k \in 1 .. tmp
            BY <1>0, <3>7, <4>1
          <5> QED BY <3>1, <3>3, <3>7, <4>1, <5>1 DEF Placed
        <4>2. CASE m \in (tmp + 1) .. (tmp + n)
          BY <1>0, <3>2, <3>4, <4>2
        <4> QED BY <3>5, <4>1, <4>2
      <3>8. Placed(r, tmp)'
        <4>1. \A q : good(q)' = good(q)
          BY <1>1 DEF good
        <4>2. cal_libs' = cal_libs /\ tmp' = tmp + n
          BY <1>1
        <4> QED BY <3>6, <3>7, <4>1, <4>2 DEF Placed, dso
      <3> QED BY <3>2, <3>8
    <2>4. i' <= Len(cal_libs') + 1 /\ tmp' \in 0 .. algo_count' /\ Len(algo_list') = algo_count'
      <3>1. tmp' \in 0 .. algo_count
        BY <1>4, Zenon
      <3> QED BY <1>0, <1>1, <1>5, <3>1
    <2>5. \A k \in (tmp' + 1) .. algo_count' : algo_list'[k] = Unset
      BY <1>1, <1>5
    <2>6. {algo_list'[k] : k \in 1 .. tmp'} = algosOf(goodBefore(i))'
      BY <1>1, <2>1, <2>2
    <2>7. \E p \in [1 .. tmp' -> 1 .. (i' - 1)] : Placed(p, tmp)'
      <3>1. i' - 1 = i /\ tmp' = tmp + n
        BY <1>0, <1>1
      <3> QED BY <2>3, <3>1
    <2> QED BY <2>4, <2>5, <2>6, <2>7 DEF Filling
  <1> QED BY <1>0, <1>1, <1>6, <1>7, <1>8, <1>9 DEF LibInv, Filled, Scanned, AllClosed

\* When every library has been asked for its list.
LEMMA ListFilled ==
  ASSUME TypeOK, Loaded, Sized, Filling, filled
  PROVE  /\ i = Len(cal_libs) + 1 /\ Len(algo_list) = algo_count /\ tmp \in 0 .. algo_count
         /\ Range(algo_list) \ {Unset} = algosOf(named({"good"}))
         /\ Unset \notin Range(algo_list) <=> tmp = algo_count
         /\ named({"no list"}) = {} => tmp = algo_count
  <1>1. /\ pc = "list" /\ i = Len(cal_libs) + 1 /\ Len(algo_list) = algo_count
        /\ tmp \in 0 .. algo_count /\ algo_count \in Nat /\ Len(cal_libs) \in Nat
        /\ Len(modules) = Len(cal_libs) /\ cal_libs \in Seq(Lib) /\ i \in Nat
        /\ algo_list \in Seq(Algo \cup {Unset})
    BY DEF filled, Filling, TypeOK, Loaded
  <1>2. goodBefore(i) = named({"good"})
    BY <1>1 DEF goodBefore, named, good, Range
  <1>3. /\ \A k \in (tmp + 1) .. algo_count : algo_list[k] = Unset
        /\ {algo_list[k] : k \in 1 .. tmp} = algosOf(named({"good"}))
    BY <1>1, <1>2 DEF Filling
  <1>4. Unset \notin algosOf(named({"good"}))
    BY LibAssumption DEF algosOf
  <1>5. /\ \A k \in 1 .. tmp : algo_list[k] # Unset
        /\ \A k \in 1 .. algo_count : k \in 1 .. tmp \/ k \in (tmp + 1) .. algo_count
        /\ \A k \in 1 .. tmp : k \in 1 .. algo_count
        /\ \A k \in (tmp + 1) .. algo_count : k \in 1 .. algo_count
    BY <1>1, <1>3, <1>4
  <1>6. Range(algo_list) = {algo_list[k] : k \in 1 .. algo_count}
    BY <1>1 DEF Range
  <1>7. Range(algo_list) \ {Unset} = algosOf(named({"good"}))
    BY <1>3, <1>4, <1>5, <1>6
  <1>8. Unset \notin Range(algo_list) <=> tmp = algo_count
    <2>1. CASE tmp = algo_count
      BY <1>5, <1>6, <2>1
    <2>2. CASE tmp # algo_count
      <3>1. algo_count \in (tmp + 1) .. algo_count /\ algo_count \in 1 .. algo_count
        BY <1>1, <2>2
      <3> QED BY <1>3, <1>6, <2>2, <3>1
    <2> QED BY <2>1, <2>2
  <1>9. ASSUME named({"no list"}) = {} PROVE tmp = algo_count
    <2>1. PICK S \in [0 .. Len(modules) -> Nat] : Sums(S) /\ tmp = S[i - 1]
      BY <1>1, <1>9 DEF Sized
    <2>2. i - 1 = Len(modules)
      BY <1>1
    <2> QED BY <2>1, <2>2 DEF Sums
  <1> QED BY <1>1, <1>7, <1>8, <1>9

\* What the libraries and the list are no longer changes once it is made.
LEMMA Kept ==
  ASSUME TypeOK, Loaded, Sized,
         UNCHANGED <<config, state, cal_libs, modules, algo_count, algo_list>>,
         pc \notin {"config", "load"}, pc' \notin {"config", "load", "list"},
         pc' \notin {"unload", "done"} => opened' = opened /\ pc \notin {"unload", "done"}
  PROVE  /\ Loaded' /\ Sized' /\ Filling'
         /\ \A l : opens(l)' = opens(l)
         /\ \A k : dso(k)' = dso(k)
         /\ \A p, n : Placed(p, n)' <=> Placed(p, n)
         /\ Range(algo_list)' = Range(algo_list)
         /\ algosOf(named({"good"}))' = algosOf(named({"good"}))
  <1>1. \A q : loads(q)' = loads(q) /\ counted(q)' = counted(q) /\ good(q)' = good(q)
    BY DEF loads, counted, good
  <1>2. (\A l : opens(l)' = opens(l)) /\ (\A k : dso(k)' = dso(k))
    BY DEF opens, dso
  <1>3. Loaded'
    BY <1>1, <1>2 DEF Loaded
  <1>4. Sized'
    <2>1. PICK S \in [0 .. Len(modules) -> Nat] : Sums(S)
      BY DEF Sized
    <2>2. Sums(S)'
      BY <1>1, <2>1 DEF Sums
    <2> QED BY <2>2 DEF Sized
  <1>5. \A p, n : Placed(p, n)' <=> Placed(p, n)
    BY <1>1, <1>2 DEF Placed
  <1>6. algosOf(named({"good"}))' = algosOf(named({"good"}))
    BY DEF algosOf, named
  <1> QED BY <1>2, <1>3, <1>4, <1>5, <1>6 DEF Filling

LEMMA ListDoneStep == LibInv /\ ListDone => LibInv'
  <1> SUFFICES ASSUME TypeOK, Loaded, Sized, Filling, Filled, Scanned, AllClosed, ListDone
               PROVE  LibInv'
    BY DEF LibInv
  <1>1. /\ filled /\ pc = "list"
        /\ pc' = IF Unset \in Range(algo_list) THEN "stray" ELSE "ready"
        /\ UNCHANGED <<config, state, cal_libs, modules, opened, algo_count, algo_list,
                       i, tmp, sensor, answer>>
    BY DEF ListDone, filled, world, manager
  <1>2. TypeOK'
    BY <1>1 DEF TypeOK
  <1>3. /\ Loaded' /\ Sized' /\ Filling'
        /\ \A p, n : Placed(p, n)' <=> Placed(p, n)
        /\ algosOf(named({"good"}))' = algosOf(named({"good"}))
    BY <1>1, Kept
  <1>4. Filled'
    <2>1. SUFFICES ASSUME pc' = "ready" PROVE Filled'
      BY <1>1 DEF Filled
    <2>2. /\ Len(algo_list) = algo_count /\ tmp = algo_count /\ i = Len(cal_libs) + 1
          /\ Range(algo_list) = algosOf(named({"good"})) /\ Len(cal_libs) \in Nat
      <3>1. Unset \notin Range(algo_list)
        BY <1>1, <2>1
      <3>2. Len(cal_libs) \in Nat
        BY DEF TypeOK
      <3>3. Range(algo_list) \ {Unset} = Range(algo_list)
        BY <3>1
      <3> QED BY <1>1, <3>1, <3>2, <3>3, ListFilled
    <2>3. i - 1 = Len(cal_libs)
      BY <2>2
    <2>4. \E p \in [1 .. algo_count -> 1 .. Len(cal_libs)] : Placed(p, algo_count)
      BY <1>1, <2>2, <2>3 DEF Filling
    <2>5. \E p \in [1 .. algo_count -> 1 .. Len(cal_libs)] : Placed(p, algo_count)'
      BY <1>1, <1>3, <2>4
    <2> QED BY <1>1, <1>3, <2>1, <2>2, <2>5 DEF Filled
  <1> QED BY <1>1, <1>2, <1>3, <1>4 DEF LibInv, Scanned, AllClosed

LEMMA AskStep == LibInv /\ (\E s \in Sensor : Ask(s)) => LibInv'
  <1> SUFFICES ASSUME TypeOK, Loaded, Sized, Filling, Filled, Scanned, AllClosed,
                      NEW s \in Sensor, Ask(s)
               PROVE  LibInv'
    BY DEF LibInv
  <1>1. /\ pc = "ready" /\ pc' = "scan" /\ sensor' = s /\ i' = 1 /\ tmp' = NoAlgo
        /\ UNCHANGED <<config, state, attributes, cal_libs, modules, opened, algo_count,
                       algo_list, answer>>
    BY DEF Ask, world, manager
  <1>2. TypeOK'
    BY <1>1 DEF TypeOK
  <1>3. /\ Loaded' /\ Sized' /\ Filling'
        /\ \A p, n : Placed(p, n)' <=> Placed(p, n)
        /\ Range(algo_list)' = Range(algo_list)
        /\ algosOf(named({"good"}))' = algosOf(named({"good"}))
    BY <1>1, Kept
  <1>4. Filled'
    BY <1>1, <1>3 DEF Filled
  <1>5. Scanned'
    <2>1. algo_count \in Nat
      BY DEF TypeOK
    <2>2. fitting' \subseteq 1 .. algo_count
      BY <1>1 DEF fitting
    <2>3. exact' \subseteq fitting' /\ compatible' \subseteq fitting'
      BY DEF exact, compatible
    <2>4. (\A k \in exact' : k >= 1) /\ (\A k \in compatible' : k >= 1)
      BY <2>1, <2>2, <2>3
    <2> QED BY <1>1, <2>1, <2>4 DEF Scanned
  <1> QED BY <1>1, <1>2, <1>3, <1>4, <1>5 DEF LibInv, AllClosed

\* The entries that fit, by their places in the list.
LEMMA Fitting ==
  /\ exact \subseteq 1 .. algo_count /\ compatible \subseteq 1 .. algo_count
  /\ \A k \in 1 .. algo_count :
       /\ k \in exact <=> considered(algo_list[k]) /\ exactly(algo_list[k])
       /\ k \in compatible <=> considered(algo_list[k]) /\ byType(algo_list[k])
  BY DEF exact, compatible, fitting

\* The list is complete while an algorithm is looked for.
LEMMA Listed ==
  ASSUME TypeOK, Filled, pc \in {"ready", "scan", "unload"}
  PROVE  \A k \in 1 .. algo_count : algo_list[k] \in Algo
  BY DEF Filled, Placed

LEMMA CompareStep == LibInv /\ Compare => LibInv'
  <1> SUFFICES ASSUME TypeOK, Loaded, Sized, Filling, Filled, Scanned, AllClosed, Compare
               PROVE  LibInv'
    BY DEF LibInv
  <1> DEFINE a == algo_list[i]
  <1>1. /\ pc = "scan" /\ i \in 1 .. algo_count /\ i \in Nat /\ algo_count \in Nat /\ a \in Algo
        /\ UNCHANGED <<config, state, attributes, cal_libs, modules, opened, algo_count,
                       algo_list, sensor>>
    <2>1. pc = "scan" /\ i \in 1 .. algo_count
      BY DEF Compare, TypeOK
    <2> QED BY <2>1, Listed DEF Compare, world, manager, TypeOK
  <1>2. CASE considered(a) /\ exactly(a)
    <2>1. pc' = "ready" /\ answer' = a /\ i' = i /\ tmp' = tmp
      BY <1>2 DEF Compare
    <2>2. TypeOK'
      BY <1>1, <2>1 DEF TypeOK
    <2>3. /\ Loaded' /\ Sized' /\ Filling'
          /\ \A p, n : Placed(p, n)' <=> Placed(p, n)
          /\ Range(algo_list)' = Range(algo_list)
          /\ algosOf(named({"good"}))' = algosOf(named({"good"}))
      BY <1>1, <2>1, Kept
    <2>4. Filled'
      BY <1>1, <2>1, <2>3 DEF Filled
    <2> QED BY <2>1, <2>2, <2>3, <2>4 DEF LibInv, AllClosed, Scanned
  <1>3. CASE ~(considered(a) /\ exactly(a))
    <2>1. /\ pc' = pc /\ answer' = answer /\ i' = i + 1
          /\ tmp' = IF considered(a) /\ byType(a) THEN a ELSE tmp
      BY <1>3 DEF Compare
    <2>2. TypeOK'
      BY <1>1, <2>1 DEF TypeOK
    <2>3. /\ Loaded' /\ Sized' /\ Filling'
          /\ \A p, n : Placed(p, n)' <=> Placed(p, n)
          /\ Range(algo_list)' = Range(algo_list)
          /\ algosOf(named({"good"}))' = algosOf(named({"good"}))
      BY <1>1, <2>1, Kept
    <2>4. Filled'
      BY <1>1, <2>1, <2>3 DEF Filled
    <2>5. Scanned'
      <3>1. exact' = exact /\ compatible' = compatible
        BY <1>1 DEF exact, compatible, fitting, considered, exactly, byType
      <3>2. \A k \in exact : k >= i + 1
        <4>1. i \notin exact /\ exact \subseteq 1 .. algo_count
          BY <1>1, <1>3, Fitting
        <4>2. \A k \in exact : k >= i
          BY <1>1 DEF Scanned
        <4> QED BY <1>1, <4>1, <4>2
      <3>3. compatible \subseteq 1 .. algo_count
        BY Fitting
      <3>4. CASE considered(a) /\ byType(a)
        <4>1. i \in compatible /\ tmp' = algo_list[i] /\ i < i + 1
          BY <1>1, <2>1, <3>4, Fitting
        <4>2. \A m \in compatible : m < i + 1 => m <= i
          BY <1>1, <3>3
        <4> QED BY <1>1, <2>1, <3>1, <3>2, <4>1, <4>2 DEF Scanned
      <3>5. CASE ~(considered(a) /\ byType(a))
        <4>1. i \notin compatible /\ tmp' = tmp
          BY <1>1, <2>1, <3>5, Fitting
        <4>2. CASE tmp = NoAlgo /\ \A k \in compatible : k >= i
          <5>1. \A k \in compatible : k >= i + 1
            BY <1>1, <3>3, <4>1, <4>2
          <5> QED BY <1>1, <2>1, <3>1, <3>2, <4>1, <4>2, <5>1 DEF Scanned
        <4>3. CASE \E k \in compatible : /\ k < i /\ tmp = algo_list[k]
                                         /\ \A m \in compatible : m < i => m <= k
          <5>1. PICK k \in compatible : /\ k < i /\ tmp = algo_list[k]
                                        /\ \A m \in compatible : m < i => m <= k
            BY <4>3
          <5>2. k < i + 1 /\ \A m \in compatible : m < i + 1 => m <= k
            BY <1>1, <3>3, <4>1, <5>1
          <5> QED BY <1>1, <2>1, <3>1, <3>2, <4>1, <5>1, <5>2 DEF Scanned
        <4> QED BY <1>1, <4>2, <4>3 DEF Scanned
      <3> QED BY <3>4, <3>5
    <2> QED BY <1>1, <2>1, <2>2, <2>3, <2>4, <2>5 DEF LibInv, AllClosed
  <1> QED BY <1>2, <1>3

LEMMA CompareDoneStep == LibInv /\ CompareDone => LibInv'
  <1> SUFFICES ASSUME TypeOK, Loaded, Sized, Filling, Filled, Scanned, AllClosed, CompareDone
               PROVE  LibInv'
    BY DEF LibInv
  <1>1. /\ pc = "scan" /\ pc' = "ready" /\ answer' = tmp
        /\ UNCHANGED <<config, state, cal_libs, modules, opened, algo_count,
                       algo_list, i, tmp, sensor>>
    BY DEF CompareDone, world, manager
  <1>2. TypeOK'
    BY <1>1 DEF TypeOK
  <1>3. /\ Loaded' /\ Sized' /\ Filling'
        /\ \A p, n : Placed(p, n)' <=> Placed(p, n)
        /\ Range(algo_list)' = Range(algo_list)
        /\ algosOf(named({"good"}))' = algosOf(named({"good"}))
    BY <1>1, Kept
  <1>4. Filled'
    BY <1>1, <1>3 DEF Filled
  <1> QED BY <1>1, <1>2, <1>3, <1>4 DEF LibInv, Scanned, AllClosed

\* The library of an entry not yet passed is open.
LEMMA StillOpen ==
  ASSUME TypeOK, Loaded, Len(modules) = Len(cal_libs),
         NEW p \in [1 .. algo_count -> 1 .. Len(cal_libs)], Placed(p, algo_count), Closing(p),
         NEW k \in 1 .. algo_count, prev \in 1 .. algo_count, prev <= k
  PROVE  /\ p[k] \in opens(dso(k)) /\ p[k] >= p[prev]
         /\ dso(k) \in Lib /\ opened[dso(k)] > 0
  <1>1. /\ algo_list[k] \in Algo /\ cal_libs[p[k]] = dso(k) /\ good(p[k])
        /\ p[k] >= p[prev]
    BY DEF Placed
  <1>2. dso(k) \in Lib
    BY <1>1, AlgoPairs DEF dso
  <1>3. p[k] \in opens(dso(k))
    <2>1. DOMAIN modules = 1 .. Len(cal_libs)
      BY DEF TypeOK
    <2> QED BY <1>1, <2>1 DEF opens, good
  <1> DEFINE T == {q \in opens(dso(k)) : q >= p[prev]}
  <1>4. p[k] \in T /\ T \in SUBSET opens(dso(k))
    BY <1>1, <1>3
  <1>5. IsFiniteSet(T) /\ Cardinality(T) \in Nat
    BY <1>4, OpensFinite DEF TypeOK
  <1>6. Cardinality(T) # 0
    BY <1>4, <1>5, FS_EmptySet
  <1>7. opened[dso(k)] >= Cardinality(T) /\ opened[dso(k)] \in Nat
    BY <1>2 DEF Closing, TypeOK
  <1> QED BY <1>1, <1>2, <1>3, <1>5, <1>6, <1>7

LEMMA DestroyStep == LibInv /\ Destroy => LibInv'
  <1> SUFFICES ASSUME TypeOK, Loaded, Sized, Filling, Filled, Scanned, AllClosed, Destroy
               PROVE  LibInv'
    BY DEF LibInv
  <1>1. /\ pc = "ready" /\ i' = 1 /\ algo_count \in Nat /\ Len(modules) = Len(cal_libs)
        /\ pc' = (IF algo_count # 0 THEN "unload" ELSE "done")
        /\ UNCHANGED <<config, state, cal_libs, modules, opened, algo_count,
                       algo_list, tmp, sensor, answer>>
    BY DEF Destroy, world, manager, TypeOK, Loaded
  <1>2. TypeOK'
    BY <1>1 DEF TypeOK
  <1>3. /\ Loaded' /\ Sized' /\ Filling'
        /\ \A l : opens(l)' = opens(l)
        /\ \A k : dso(k)' = dso(k)
        /\ \A p, n : Placed(p, n)' <=> Placed(p, n)
        /\ Range(algo_list)' = Range(algo_list)
        /\ algosOf(named({"good"}))' = algosOf(named({"good"}))
    BY <1>1, Kept
  <1>4. Filled'
    <2>1. SUFFICES ASSUME algo_count # 0 PROVE Filled'
      BY <1>1 DEF Filled
    <2>2. PICK p \in [1 .. algo_count -> 1 .. Len(cal_libs)] : Placed(p, algo_count)
      BY <1>1 DEF Filled
    <2>3. prev' = 1 /\ 1 \in 1 .. algo_count
      BY <1>1, <2>1 DEF prev
    <2>4. ASSUME NEW l \in Lib
          PROVE  opened[l] >= Cardinality({q \in opens(l) : q >= p[1]})
      <3> DEFINE T == {q \in opens(l) : q >= p[1]}
      <3>1. opens(l) \in SUBSET opens(l) /\ T \in SUBSET opens(l)
        OBVIOUS
      <3>2. IsFiniteSet(opens(l)) /\ Cardinality(opens(l)) \in Nat /\ Cardinality(T) \in Nat
        BY <3>1, OpensFinite DEF TypeOK
      <3>3. Cardinality(T) <= Cardinality(opens(l))
        BY <3>1, <3>2, FS_Subset
      <3>4. opened[l] = Cardinality(opens(l))
        BY <1>1 DEF Loaded
      <3> QED BY <3>2, <3>3, <3>4
    <2>5. ASSUME IsInjective(cal_libs), NEW k \in 1 .. algo_count
          PROVE  opened[dso(k)] = 1 /\ ~(p[k] < p[1])
      <3>1. /\ algo_list[k] \in Algo /\ cal_libs[p[k]] = dso(k) /\ good(p[k])
            /\ p[1] <= p[k]
        BY <2>2, <2>3 DEF Placed
      <3>2. DOMAIN modules = 1 .. Len(cal_libs) /\ DOMAIN cal_libs = 1 .. Len(cal_libs)
        BY <1>1 DEF TypeOK
      <3>3. opens(dso(k)) = {p[k]}
        BY <2>5, <3>1, <3>2 DEF opens, good, IsInjective
      <3>4. Cardinality({p[k]}) = 1
        BY FS_Singleton
      <3>5. dso(k) \in Lib
        BY <3>1, AlgoPairs DEF dso
      <3>6. opened[dso(k)] = 1
        BY <1>1, <3>3, <3>4, <3>5 DEF Loaded
      <3>7. p[1] \in Int /\ p[k] \in Int
        BY <2>3
      <3> QED BY <3>1, <3>6, <3>7
    <2>6. Closing(p)'
      BY <1>1, <1>3, <2>3, <2>4, <2>5 DEF Closing
    <2>7. Placed(p, algo_count)'
      BY <1>1, <1>3, <2>2
    <2>8. p \in [1 .. algo_count' -> 1 .. Len(cal_libs')] /\ pc = "ready"
      BY <1>1
    <2>9. i' <= algo_count' + 1 /\ algo_count' > 0
      BY <1>1, <2>1
    <2> QED BY <1>1, <1>3, <2>6, <2>7, <2>8, <2>9 DEF Filled
  <1>5. AllClosed'
    BY <1>1 DEF AllClosed
  <1> QED BY <1>1, <1>2, <1>3, <1>4, <1>5 DEF LibInv, Scanned

LEMMA UnloadStep == LibInv /\ Unload => LibInv'
  <1> SUFFICES ASSUME TypeOK, Loaded, Sized, Filling, Filled, Scanned, AllClosed, Unload
               PROVE  LibInv'
    BY DEF LibInv
  <1>1. /\ pc = "unload" /\ pc' = "unload" /\ i \in 1 .. algo_count /\ i' = i + 1
        /\ algo_count \in Nat /\ Len(modules) = Len(cal_libs)
        /\ opened' = IF i > 1 /\ dso(i) # dso(i - 1)
                       THEN [opened EXCEPT ![dso(i - 1)] = @ - 1] ELSE opened
        /\ UNCHANGED <<config, state, cal_libs, modules, algo_count,
                       algo_list, tmp, sensor, answer>>
    BY DEF Unload, world, TypeOK, Loaded
  <1>2. PICK p \in [1 .. algo_count -> 1 .. Len(cal_libs)] :
          Placed(p, algo_count) /\ Closing(p)
    BY <1>1 DEF Filled
  <1>3. /\ \A k \in 1 .. algo_count : /\ cal_libs[p[k]] = dso(k) /\ dso(k) \in Lib
                                      /\ p[k] \in 1 .. Len(cal_libs) /\ p[k] \in Nat
        /\ \A k, m \in 1 .. algo_count : k <= m => p[k] <= p[m]
    BY <1>2, AlgoPairs DEF Placed, dso
  <1>4. prev \in 1 .. algo_count /\ prev <= i /\ prev' = i
    BY <1>1 DEF prev
  <1>5. /\ Loaded' /\ Sized' /\ Filling'
        /\ \A l : opens(l)' = opens(l)
        /\ \A k : dso(k)' = dso(k)
        /\ \A r, n : Placed(r, n)' <=> Placed(r, n)
        /\ Range(algo_list)' = Range(algo_list)
        /\ algosOf(named({"good"}))' = algosOf(named({"good"}))
    BY <1>1, Kept
  <1>6. \A l \in Lib : /\ Cardinality({q \in opens(l) : q >= p[i]}) \in Nat
                       /\ Cardinality({q \in opens(l) : q >= p[prev]}) \in Nat
                       /\ Cardinality({q \in opens(l) : q >= p[i]})
                            <= Cardinality({q \in opens(l) : q >= p[prev]})
    <2> TAKE l \in Lib
    <2> DEFINE T == {q \in opens(l) : q >= p[i]}
               U == {q \in opens(l) : q >= p[prev]}
    <2>1. T \in SUBSET opens(l) /\ U \in SUBSET opens(l)
      OBVIOUS
    <2>2. opens(l) \subseteq Nat
      BY OpensFinite DEF TypeOK
    <2>3. p[prev] <= p[i] /\ p[prev] \in Nat /\ p[i] \in Nat
      BY <1>1, <1>3, <1>4
    <2>4. T \in SUBSET U
      BY <2>2, <2>3
    <2>5. IsFiniteSet(U) /\ Cardinality(U) \in Nat /\ Cardinality(T) \in Nat
      BY <2>1, OpensFinite DEF TypeOK
    <2> QED BY <2>4, <2>5, FS_Subset
  <1>7. \A l \in Lib : opened[l] \in Nat /\ opened[l] >= Cardinality({q \in opens(l) : q >= p[i]})
    <2> TAKE l \in Lib
    <2>1. opened[l] >= Cardinality({q \in opens(l) : q >= p[prev]}) /\ opened[l] \in Nat
      BY <1>2 DEF Closing, TypeOK
    <2> DEFINE x == Cardinality({q \in opens(l) : q >= p[prev]})
               y == Cardinality({q \in opens(l) : q >= p[i]})
    <2>2. x \in Nat /\ y \in Nat /\ y <= x
      BY <1>6
    <2>3. opened[l] \in Nat /\ opened[l] >= x
      BY <2>1
    <2> HIDE DEF x, y
    <2>4. opened[l] >= y
      BY <2>2, <2>3
    <2> QED BY <2>3, <2>4 DEF y
  <1>8. opened' \in [Lib -> Nat] /\ Closing(p)'
    <2>1. CASE i > 1 /\ dso(i) # dso(i - 1)
      <3> DEFINE d == dso(i - 1)
      <3>1. /\ i - 1 \in 1 .. algo_count /\ prev = i - 1 /\ d \in Lib /\ d # dso(i)
            /\ opened' = [opened EXCEPT ![d] = @ - 1]
        BY <1>1, <1>3, <2>1 DEF prev
      <3>2. p[i - 1] < p[i]
        BY <1>1, <1>3, <2>1, <3>1
      <3>3. p[i - 1] \in opens(d) /\ opened[d] > 0 /\ opened[d] \in Nat
        <4>1. prev <= i - 1 /\ i - 1 \in 1 .. algo_count /\ prev \in 1 .. algo_count
          BY <1>1, <1>4, <3>1
        <4>2. p[i - 1] \in opens(d) /\ opened[d] > 0
          BY <1>1, <1>2, <4>1, StillOpen
        <4> QED BY <1>7, <3>1, <4>2
      <3>4. opened' \in [Lib -> Nat]
        <4>1. opened[d] - 1 \in Nat
          BY <3>3
        <4> QED BY <3>1, <4>1 DEF TypeOK
      <3>5. ASSUME NEW l \in Lib
            PROVE  opened'[l] >= Cardinality({q \in opens(l) : q >= p[i]})
        <4>1. CASE l # d
          BY <1>7, <3>1, <4>1 DEF TypeOK
        <4>2. CASE l = d
          <5> DEFINE T == {q \in opens(d) : q >= p[i]}
                     U == {q \in opens(d) : q >= p[prev]}
          <5>1. U \in SUBSET opens(d) /\ p[prev] \in U /\ T \in SUBSET (U \ {p[prev]})
            <6>1. opens(d) \subseteq Nat
              BY OpensFinite DEF TypeOK
            <6>2. p[prev] \in Nat /\ p[i] \in Nat /\ p[prev] < p[i]
              BY <1>1, <1>3, <3>1, <3>2
            <6> QED BY <3>1, <3>3, <6>1, <6>2
          <5>2. IsFiniteSet(U) /\ IsFiniteSet(U \ {p[prev]}) /\ Cardinality(U) \in Nat
                /\ Cardinality(T) \in Nat
            <6>1. U \ {p[prev]} \in SUBSET opens(d) /\ T \in SUBSET opens(d)
              BY <5>1
            <6> QED BY <5>1, <6>1, OpensFinite DEF TypeOK
          <5>3. Cardinality(U \ {p[prev]}) = Cardinality(U) - 1
            BY <5>1, <5>2, FS_RemoveElement
          <5>4. Cardinality(T) <= Cardinality(U \ {p[prev]})
            BY <5>1, <5>2, FS_Subset
          <5>5. opened[d] >= Cardinality(U)
            BY <1>2, <3>1 DEF Closing
          <5>6. opened'[d] = opened[d] - 1
            BY <3>1 DEF TypeOK
          <5> HIDE DEF T, U
          <5>7. opened'[d] >= Cardinality(T)
            BY <3>3, <5>2, <5>3, <5>4, <5>5, <5>6
          <5> QED BY <4>2, <5>7 DEF T
        <4> QED BY <4>1, <4>2
      <3>6. ASSUME IsInjective(cal_libs), NEW k \in 1 .. algo_count
            PROVE  opened'[dso(k)] = IF p[k] < p[i] THEN 0 ELSE 1
        <4>1. opened[dso(k)] = IF p[k] < p[i - 1] THEN 0 ELSE 1
          BY <1>2, <3>1, <3>6 DEF Closing
        <4>2. dso(k) = d <=> p[k] = p[i - 1]
          <5>1. DOMAIN cal_libs = 1 .. Len(cal_libs)
            BY DEF TypeOK
          <5> QED BY <1>3, <3>1, <3>6, <5>1 DEF IsInjective
        <4>3. p[k] <= p[i - 1] \/ p[k] >= p[i]
          <5>1. k <= i - 1 \/ i <= k
            BY <1>1
          <5> QED BY <1>1, <1>3, <3>1, <5>1
        <4>4. p[k] \in Nat /\ p[i - 1] \in Nat /\ p[i] \in Nat
          BY <1>1, <1>3, <3>1
        <4>5. opened'[dso(k)] = IF dso(k) = d THEN opened[d] - 1 ELSE opened[dso(k)]
          BY <1>3, <3>1 DEF TypeOK
        <4> QED BY <3>2, <4>1, <4>2, <4>3, <4>4, <4>5
      <3> QED BY <1>1, <1>4, <1>5, <3>4, <3>5, <3>6 DEF Closing
    <2>2. CASE ~(i > 1 /\ dso(i) # dso(i - 1))
      <3>1. opened' = opened
        BY <1>1, <2>2
      <3>2. ASSUME IsInjective(cal_libs) PROVE p[prev] = p[i]
        <4>1. DOMAIN cal_libs = 1 .. Len(cal_libs)
          BY DEF TypeOK
        <4>2. CASE i = 1
          BY <4>2 DEF prev
        <4>3. CASE i # 1
          <5>1. prev = i - 1 /\ dso(i) = dso(i - 1)
            BY <1>1, <2>2, <4>3 DEF prev
          <5> QED BY <1>1, <1>3, <1>4, <3>2, <4>1, <5>1 DEF IsInjective
        <4> QED BY <4>2, <4>3
      <3>3. ASSUME IsInjective(cal_libs), NEW k \in 1 .. algo_count
            PROVE  opened[dso(k)] = IF p[k] < p[i] THEN 0 ELSE 1
        BY <1>2, <3>2, <3>3 DEF Closing
      <3> QED BY <1>1, <1>4, <1>5, <1>7, <3>1, <3>3 DEF Closing, TypeOK
    <2> QED BY <2>1, <2>2
  <1>9. TypeOK'
    <2>1. i' \in Nat \ {0} /\ opened' \in [Lib -> Nat]
      BY <1>1, <1>8
    <2> QED BY <1>1, <2>1 DEF TypeOK
  <1>10. Filled'
    <2>1. Placed(p, algo_count)' /\ p \in [1 .. algo_count' -> 1 .. Len(cal_libs')]
      BY <1>1, <1>2, <1>5
    <2>2. i' <= algo_count' + 1 /\ algo_count' > 0
      BY <1>1
    <2>3. Len(algo_list') = algo_count' /\ Range(algo_list) = algosOf(named({"good"}))
      BY <1>1 DEF Filled
    <2> QED BY <1>1, <1>5, <1>8, <2>1, <2>2, <2>3 DEF Filled
  <1> QED BY <1>1, <1>5, <1>9, <1>10 DEF LibInv, Scanned, AllClosed

LEMMA UnloadLastStep == LibInv /\ UnloadLast => LibInv'
  <1> SUFFICES ASSUME TypeOK, Loaded, Sized, Filling, Filled, Scanned, AllClosed, UnloadLast
               PROVE  LibInv'
    BY DEF LibInv
  <1> DEFINE d == dso(algo_count)
  <1>1. /\ pc = "unload" /\ pc' = "done" /\ algo_count \in 1 .. algo_count /\ algo_count \in Nat
        /\ i = algo_count + 1 /\ Len(modules) = Len(cal_libs)
        /\ opened' = [opened EXCEPT ![d] = @ - 1]
        /\ UNCHANGED <<config, state, cal_libs, modules, algo_count,
                       algo_list, i, tmp, sensor, answer>>
    BY DEF UnloadLast, world, TypeOK, Loaded, Filled
  <1>2. PICK p \in [1 .. algo_count -> 1 .. Len(cal_libs)] :
          Placed(p, algo_count) /\ Closing(p)
    BY <1>1 DEF Filled
  <1>3. prev = algo_count
    BY <1>1 DEF prev
  <1>4. d \in Lib /\ opened[d] > 0 /\ opened[d] \in Nat
    <2>1. prev \in 1 .. algo_count /\ prev <= algo_count
      BY <1>1, <1>3
    <2>2. d \in Lib /\ opened[d] > 0
      BY <1>1, <1>2, <2>1, StillOpen
    <2> QED BY <2>2 DEF TypeOK
  <1>5. opened' \in [Lib -> Nat]
    BY <1>1, <1>4 DEF TypeOK
  <1>6. TypeOK'
    BY <1>1, <1>5 DEF TypeOK
  <1>7. Loaded' /\ Sized' /\ Filling' /\ \A k : dso(k)' = dso(k)
    BY <1>1, Kept
  <1>8. ASSUME IsInjective(cal_libs), NEW k \in 1 .. algo_count
        PROVE  opened'[dso(k)] = 0
    <2>1. /\ opened[dso(k)] = IF p[k] < p[algo_count] THEN 0 ELSE 1
          /\ opened[d] = IF p[algo_count] < p[algo_count] THEN 0 ELSE 1
      BY <1>1, <1>2, <1>3, <1>8 DEF Closing
    <2>2. p[k] <= p[algo_count] /\ p[k] \in Nat /\ p[algo_count] \in Nat
      BY <1>1, <1>2 DEF Placed
    <2>3. dso(k) = d <=> p[k] = p[algo_count]
      <3>1. DOMAIN cal_libs = 1 .. Len(cal_libs)
        BY DEF TypeOK
      <3> QED BY <1>1, <1>2, <1>8, <3>1 DEF Placed, IsInjective
    <2>4. dso(k) \in Lib
      BY <1>2, AlgoPairs DEF Placed, dso
    <2>5. opened'[dso(k)] = IF dso(k) = d THEN opened[d] - 1 ELSE opened[dso(k)]
      BY <1>1, <2>4 DEF TypeOK
    <2> QED BY <2>1, <2>2, <2>3, <2>5
  <1>9. AllClosed'
    BY <1>1, <1>7, <1>8 DEF AllClosed
  <1> QED BY <1>1, <1>6, <1>7, <1>9 DEF LibInv, Filled, Scanned

LEMMA LibStutter == LibInv /\ UNCHANGED vars => LibInv'
  <1> SUFFICES ASSUME LibInv, UNCHANGED vars PROVE LibInv'
    OBVIOUS
  <1> USE DEF vars, world, manager
  <1>1. /\ \A q : loads(q)' = loads(q) /\ counted(q)' = counted(q) /\ good(q)' = good(q)
        /\ \A l : opens(l)' = opens(l)
        /\ \A k : dso(k)' = dso(k)
    BY DEF loads, counted, good, opens, dso
  <1>2. (TypeOK /\ Loaded)'
    BY <1>1 DEF LibInv, TypeOK, Loaded
  <1>3. Sized'
    <2>1. \A S : Sums(S)' <=> Sums(S)
      BY <1>1 DEF Sums
    <2>2. named({"no list"})' = named({"no list"})
      BY DEF named
    <2> QED BY <2>1, <2>2 DEF LibInv, Sized
  <1>4. \A p, n : Placed(p, n)' <=> Placed(p, n)
    BY <1>1 DEF Placed
  <1>5. Filling'
    <2>1. algosOf(goodBefore(i))' = algosOf(goodBefore(i))
      BY <1>1 DEF algosOf, goodBefore
    <2> QED BY <1>4, <2>1 DEF LibInv, Filling
  <1>6. Filled'
    <2>1. \A p : Closing(p)' <=> Closing(p)
      BY <1>1 DEF Closing, prev
    <2>2. algosOf(named({"good"}))' = algosOf(named({"good"}))
      BY DEF algosOf, named
    <2> QED BY <1>4, <2>1, <2>2 DEF LibInv, Filled
  <1>7. Scanned'
    <2>1. exact' = exact /\ compatible' = compatible
      BY DEF exact, compatible, fitting, considered, exactly, byType
    <2> QED BY <2>1 DEF LibInv, Scanned
  <1>8. AllClosed'
    BY <1>1 DEF LibInv, AllClosed
  <1> QED BY <1>2, <1>3, <1>5, <1>6, <1>7, <1>8 DEF LibInv

LEMMA LibInvariance == Spec => []LibInv
  <1>1. LibInv /\ [Next]_vars => LibInv'
    <2> SUFFICES ASSUME LibInv, [Next]_vars PROVE LibInv'
      OBVIOUS
    <2>1. CASE ReadConfig
      BY <2>1, ConfigStep
    <2>2. CASE Load
      BY <2>2, LoadStep
    <2>3. CASE LoadDone
      BY <2>3, LoadDoneStep
    <2>4. CASE List
      BY <2>4, ListStep
    <2>5. CASE ListDone
      BY <2>5, ListDoneStep
    <2>6. CASE \E s \in Sensor : Ask(s)
      BY <2>6, AskStep
    <2>7. CASE Compare
      BY <2>7, CompareStep
    <2>8. CASE CompareDone
      BY <2>8, CompareDoneStep
    <2>9. CASE Destroy
      BY <2>9, DestroyStep
    <2>10. CASE Unload
      BY <2>10, UnloadStep
    <2>11. CASE UnloadLast
      BY <2>11, UnloadLastStep
    <2>12. CASE UNCHANGED vars
      BY <2>12, LibStutter
    <2> QED BY <2>1, <2>2, <2>3, <2>4, <2>5, <2>6, <2>7, <2>8, <2>9, <2>10, <2>11, <2>12
            DEF Next
  <1> QED BY <1>1, LibInvInit, PTL DEF Spec

\* The variables stay in their types: no count is negative, and the list has
\* as many entries as were counted.
THEOREM TypeCorrect == Spec => []TypeOK
  BY LibInvariance, PTL DEF LibInv

\* Whatever libraries fail in whatever way, the list has the algorithms of
\* those that gave theirs and of no other, and an entry is left unwritten only
\* if get_algo_list() failed.
THEOREM ListCorrect == Spec => []GoodListed
  <1>1. LibInv => GoodListed
    <2> SUFFICES ASSUME LibInv, filled \/ pc = "ready"
                 PROVE  /\ Range(algo_list) \ {Unset} = algosOf(named({"good"}))
                        /\ named({"no list"}) = {} => Unset \notin Range(algo_list)
      BY DEF GoodListed
    <2>1. CASE filled
      BY <2>1, ListFilled DEF LibInv
    <2>2. CASE pc = "ready"
      <3>1. Range(algo_list) = algosOf(named({"good"}))
        BY <2>2 DEF LibInv, Filled
      <3>2. Unset \notin algosOf(named({"good"}))
        BY LibAssumption DEF algosOf
      <3> QED BY <3>1, <3>2
    <2> QED BY <2>1, <2>2
  <1> QED BY <1>1, LibInvariance, PTL

\* The destructor reads an algorithm, and closes a library, only while the
\* library is open; also where the configuration names a library twice.
THEOREM ReadsCorrect == Spec => []ReadsOnlyOpen
  <1>1. LibInv => ReadsOnlyOpen
    <2> SUFFICES ASSUME LibInv, pc = "unload", i <= algo_count PROVE opened[dso(i)] > 0
      BY DEF ReadsOnlyOpen
    <2>1. TypeOK /\ Loaded /\ Len(modules) = Len(cal_libs) /\ i \in 1 .. algo_count
      BY DEF LibInv, TypeOK, Loaded
    <2>2. PICK p \in [1 .. algo_count -> 1 .. Len(cal_libs)] :
            Placed(p, algo_count) /\ Closing(p)
      BY DEF LibInv, Filled
    <2>3. prev \in 1 .. algo_count /\ prev <= i
      <3>1. i \in Nat /\ algo_count \in Nat
        BY <2>1 DEF TypeOK
      <3> QED BY <2>1, <3>1 DEF prev
    <2> QED BY <2>1, <2>2, <2>3, StillOpen
  <1> QED BY <1>1, LibInvariance, PTL

\* Once the destructor is through, no library whose algorithms were listed is
\* open, if none is named twice.
THEOREM ClosedCorrect == Spec => []AllClosed
  BY LibInvariance, PTL DEF LibInv

\* getCalAlgo() answers with the first algorithm made for the sensor, without
\* one with the last made for its type, and otherwise with none.
THEOREM MatchCorrect == Spec => BestMatch
  <1>1. ASSUME LibInv, Next, pc = "scan", pc' = "ready"
        PROVE  answer' = IF exact # {} THEN algo_list[Min(exact)]
                         ELSE IF compatible # {} THEN algo_list[Max(compatible)]
                         ELSE NoAlgo
    <2>1. Compare \/ CompareDone
      BY <1>1 DEF Next, ReadConfig, Load, LoadDone, List, ListDone, Ask, Destroy,
                  Unload, UnloadLast, filled
    <2>2. /\ TypeOK /\ Scanned /\ i \in Nat /\ algo_count \in Nat
          /\ exact \subseteq 1 .. algo_count /\ compatible \subseteq 1 .. algo_count
      BY <1>1, Fitting DEF LibInv, TypeOK
    <2>3. CASE Compare
      <3>1. /\ i <= algo_count /\ considered(algo_list[i]) /\ exactly(algo_list[i])
            /\ answer' = algo_list[i]
        BY <1>1, <2>3 DEF Compare
      <3>2. i \in exact /\ \A k \in exact : k >= i
        BY <1>1, <2>2, <3>1, Fitting DEF Scanned, TypeOK
      <3>3. Min(exact) = i
        <4>1. \A x \in exact : (\A y \in exact : x <= y) <=> x = i
          BY <2>2, <3>2
        <4> QED BY <3>2, <4>1, Zenon DEF Min
      <3> QED BY <3>1, <3>2, <3>3
    <2>4. CASE CompareDone
      <3>1. i > algo_count /\ answer' = tmp
        BY <2>4 DEF CompareDone
      <3>2. exact = {}
        BY <1>1, <2>2, <3>1 DEF Scanned
      <3>3. CASE compatible = {}
        BY <1>1, <2>2, <3>1, <3>2, <3>3 DEF Scanned
      <3>4. CASE compatible # {}
        <4>1. PICK k \in compatible : /\ tmp = algo_list[k]
                                      /\ \A m \in compatible : m < i => m <= k
          <5>1. ~(\A k \in compatible : k >= i)
            <6>1. PICK k \in compatible : k \in 1 .. algo_count
              BY <2>2, <3>4
            <6>2. ~(k >= i)
              BY <2>2, <3>1, <6>1
            <6> QED BY <6>2
          <5> QED BY <1>1, <2>2, <5>1 DEF Scanned
        <4>2. \A m \in compatible : m <= k
          BY <2>2, <3>1, <4>1
        <4>3. Max(compatible) = k
          <5>1. \A x \in compatible : (\A y \in compatible : x >= y) <=> x = k
            BY <2>2, <4>2
          <5> QED BY <5>1, Zenon DEF Max
        <4> QED BY <3>1, <3>2, <3>4, <4>1, <4>3
      <3> QED BY <3>3, <3>4
    <2> QED BY <2>1, <2>3, <2>4
  <1>2. LibInv /\ [Next]_vars =>
          [(pc = "scan" /\ pc' = "ready") =>
             answer' = IF exact # {} THEN algo_list[Min(exact)]
                       ELSE IF compatible # {} THEN algo_list[Max(compatible)]
                       ELSE NoAlgo]_vars
    BY <1>1
  <1> QED BY <1>2, LibInvariance, PTL DEF Spec, BestMatch

-----------------------------------------------------------------------------
(* CompassCal.  The inductive invariant counts: a sample at place k needs  *)
(* k samples, a centre at place k needs k + 3 of them, and an offset all   *)
(* of the centres.                                                         *)

Counted ==
  /\ \A k \in 1 .. HBufSize : hbuf[k] # "none" => samples >= k
  /\ \A k \in 1 .. HOBufSize : hobuf[k] # "none" => samples >= k + 3
  /\ ho = "offset" => samples >= HOBufSize + 3 /\ hvbuf[1] = "offset"
  /\ hstatus = 3 => ho = "offset"

CalInv == BuffersOK /\ NoInitialUsed /\ Counted

LEMMA CalInvInit == ASSUME CalInit PROVE CalInv
  <1> USE SizeAssumption DEF CalInit
  <1>1. BuffersOK
    BY DEF BuffersOK
  <1>2. NoInitialUsed
    BY DEF NoInitialUsed
  <1>3. Counted
    BY DEF Counted
  <1> QED BY <1>1, <1>2, <1>3 DEF CalInv

\* A fit needs four samples.
LEMMA FitNeedsFour ==
  ASSUME NEW buf, num(buf) # 0
  PROVE  \E k \in 4 .. HBufSize : buf[k] = "sample"
  BY DEF num

\* What AKFS_AOC() leaves in its buffers.
LEMMA Buffers ==
  ASSUME CalInv, NEW fits \in BOOLEAN, NEW agree \in BOOLEAN,
         NEW success \in BOOLEAN, AOC(fits, agree, success),
         samples' = samples + 1
  PROVE  /\ hbuf' \in [1 .. HBufSize -> {"none", "sample"}]
         /\ \A k \in 1 .. HBufSize : hbuf'[k] # "none" => samples' >= k
         /\ \A k \in 2 .. HBufSize : hbuf'[k] # "none" => hbuf'[k - 1] # "none"
         /\ hobuf' \in [1 .. HOBufSize -> {"none", "centre"}]
         /\ \A k \in 1 .. HOBufSize : hobuf'[k] # "none" => samples' >= k + 3
         /\ \A k \in 2 .. HOBufSize : hobuf'[k] # "none" => hobuf'[k - 1] # "none"
         /\ success => samples' >= HOBufSize + 3
  <1> USE SizeAssumption
  <1> DEFINE buf == shifted(hbuf, "sample")
             fitted == num(buf) # 0 /\ fits
             old == shifted(hobuf, "centre")
  <1>0. /\ HBufSize \in Nat \ {0} /\ HOBufSize \in Nat \ {0}
        /\ hbuf \in [1 .. HBufSize -> {"none", "sample"}]
        /\ hobuf \in [1 .. HOBufSize -> {"none", "centre"}]
        /\ "sample" \in {"none", "sample"} /\ "centre" \in {"none", "centre"}
    BY DEF CalInv, BuffersOK
  <1>1. /\ buf \in [1 .. HBufSize -> {"none", "sample"}]
        /\ buf[1] = "sample"
        /\ \A k \in 2 .. HBufSize : buf[k] = hbuf[k - 1]
    BY <1>0 DEF shifted
  <1>2. /\ old \in [1 .. HOBufSize -> {"none", "centre"}]
        /\ old[1] = "centre"
        /\ \A k \in 2 .. HOBufSize : old[k] = hobuf[k - 1]
    BY <1>0 DEF shifted
  <1>3. fitted => \E k \in 4 .. HBufSize : buf[k] = "sample"
    BY FitNeedsFour
  <1>4. hbuf' = (IF fitted THEN dropped(buf) ELSE buf)
    BY DEF AOC
  <1>5. hobuf' = (IF fitted THEN old ELSE hobuf)
    BY DEF AOC
  <1>6. success => fitted /\ hobuf'[HOBufSize] = "centre"
    BY DEF AOC
  <1> HIDE DEF buf, fitted, old
  <1>7. samples \in Nat
    BY DEF CalInv, BuffersOK
  <1>8. \A k \in 1 .. HBufSize : buf[k] # "none" => samples + 1 >= k
    BY <1>1, <1>7 DEF CalInv, Counted
  <1>9. \A k \in 2 .. HBufSize : buf[k] # "none" => buf[k - 1] # "none"
    <2>1. SUFFICES ASSUME NEW k \in 2 .. HBufSize, buf[k] # "none", k # 2
                   PROVE  buf[k - 1] # "none"
      BY <1>1
    <2>2. k - 1 \in 2 .. HBufSize /\ buf[k - 1] = hbuf[k - 1 - 1] /\ buf[k] = hbuf[k - 1]
      BY <1>1, <2>1
    <2> QED BY <2>1, <2>2 DEF CalInv, NoInitialUsed
  <1>10. \A k \in 2 .. HOBufSize : old[k] # "none" => old[k - 1] # "none"
    <2>1. SUFFICES ASSUME NEW k \in 2 .. HOBufSize, old[k] # "none", k # 2
                   PROVE  old[k - 1] # "none"
      BY <1>2
    <2>2. k - 1 \in 2 .. HOBufSize /\ old[k - 1] = hobuf[k - 1 - 1] /\ old[k] = hobuf[k - 1]
      BY <1>2, <2>1
    <2> QED BY <2>1, <2>2 DEF CalInv, NoInitialUsed
  <1>11. fitted => samples + 1 >= 4
    BY <1>3, <1>7, <1>8
  <1>12. fitted => \A k \in 1 .. HOBufSize : old[k] # "none" => samples + 1 >= k + 3
    BY <1>2, <1>7, <1>11 DEF CalInv, Counted
  <1>13. /\ hbuf' \in [1 .. HBufSize -> {"none", "sample"}]
         /\ \A k \in 1 .. HBufSize : hbuf'[k] # "none" => samples' >= k
         /\ \A k \in 2 .. HBufSize : hbuf'[k] # "none" => hbuf'[k - 1] # "none"
    BY <1>1, <1>4, <1>8, <1>9 DEF dropped
  <1>14. /\ hobuf' \in [1 .. HOBufSize -> {"none", "centre"}]
         /\ \A k \in 2 .. HOBufSize : hobuf'[k] # "none" => hobuf'[k - 1] # "none"
    BY <1>2, <1>5, <1>10 DEF CalInv, BuffersOK, NoInitialUsed
  <1>15. \A k \in 1 .. HOBufSize : hobuf'[k] # "none" => samples' >= k + 3
    BY <1>5, <1>7, <1>12 DEF CalInv, Counted
  <1> QED BY <1>6, <1>13, <1>14, <1>15

LEMMA CalInvNext == ASSUME CalInv, [CalNext]_calVars PROVE CalInv'
  <1> USE SizeAssumption
  <1>1. CASE UNCHANGED calVars
    BY <1>1 DEF calVars, CalInv, BuffersOK, NoInitialUsed, Counted
  <1>2. CASE Convert
    <2>1. PICK fits, agree, strong, success \in BOOLEAN :
            /\ AOC(fits, agree, success)
            /\ ho' = IF success THEN "offset" ELSE ho
            /\ hstatus' = status(strong, success)
      BY <1>2 DEF Convert
    <2>2. samples' = samples + 1 /\ samples' \in 0 .. MaxSamples
      BY <1>2 DEF Convert, CalInv, BuffersOK
    <2>3. ho' \in {"zero", "offset"} /\ hstatus' \in {0, 3}
          /\ (hstatus' = 3 => ho' = "offset")
      BY <2>1 DEF status, CalInv, BuffersOK, Counted
    <2>4. /\ hvbuf' \in [1 .. HNave -> {"none", "zero", "offset"}]
          /\ hvbuf'[1] = ho'
          /\ \A k \in 2 .. HNave : hvbuf'[k] = hvbuf[k - 1]
      <3>1. /\ HNave \in Nat \ {0}
            /\ hvbuf \in [1 .. HNave -> {"none", "zero", "offset"}]
            /\ ho' \in {"none", "zero", "offset"}
        BY <2>3 DEF CalInv, BuffersOK
      <3>2. hvbuf' = shifted(hvbuf, ho')
        BY <1>2 DEF Convert
      <3> QED BY <3>1, <3>2 DEF shifted
    <2>5. \A k \in 2 .. HNave : hvbuf'[k] # "none" => hvbuf'[k - 1] # "none"
      <3>1. SUFFICES ASSUME NEW k \in 2 .. HNave, hvbuf'[k] # "none", k # 2
                     PROVE  hvbuf'[k - 1] # "none"
        BY <2>3, <2>4
      <3>2. k - 1 \in 2 .. HNave /\ hvbuf'[k - 1] = hvbuf[k - 1 - 1] /\ hvbuf'[k] = hvbuf[k - 1]
        BY <2>4, <3>1
      <3> QED BY <3>1, <3>2 DEF CalInv, NoInitialUsed
    <2>6. ho' = "offset" => samples' >= HOBufSize + 3
      BY <2>1, <2>2, Buffers DEF CalInv, BuffersOK, Counted
    <2> QED BY <2>1, <2>2, <2>3, <2>4, <2>5, <2>6, Buffers
            DEF CalInv, BuffersOK, NoInitialUsed, Counted
  <1> QED BY <1>1, <1>2 DEF CalNext

LEMMA CalInvariance == CalSpec => []CalInv
  BY CalInvInit, CalInvNext, PTL DEF CalSpec

-----------------------------------------------------------------------------
\* Every buffer keeps its size and its kind of values, whatever the samples.
THEOREM BuffersCorrect == CalSpec => []BuffersOK
  BY CalInvariance, PTL DEF CalInv

\* For buffers of any size, no initial value is ever fitted or averaged
\* (AKFS_AOC.c:252-264, AKFS_VNorm.c:101-106).
THEOREM OnlySamples == CalSpec => []NoInitialUsed
  BY CalInvariance, PTL DEF CalInv

\* The highest accuracy always means an offset that enough samples agree on
\* (common_wrapper.c:178-184).
THEOREM HighCorrect == CalSpec => []HighIsCalibrated
  <1>1. CalInv => HighIsCalibrated
    BY DEF CalInv, Counted, HighIsCalibrated
  <1> QED BY <1>1, CalInvariance, PTL
=============================================================================
