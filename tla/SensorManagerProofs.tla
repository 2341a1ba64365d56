------------------------ MODULE SensorManagerProofs ------------------------
(***************************************************************************)
(* The sensor manager shares the hardware by use counting and keeps every  *)
(* listener's rate, and its commands are those of PollLoop, for any set of *)
(* contexts, any dependency lists, any mix of drivers and any combination  *)
(* of failing driver accesses.                                             *)
(***************************************************************************)
EXTENDS ManagerCommands, SequenceTheorems, WellFoundedInduction, TLAPS

USE DEF Sensor

-----------------------------------------------------------------------------
(* The operators on a listener list and on a set of periods.               *)

\* Registration adds the sensor, and adds it at most once.
LEMMA RegisterProperties ==
  ASSUME NEW list \in Seq(Sensor), IsInjective(list), NEW s \in Sensor
  PROVE  /\ registerListener(list, s) \in Seq(Sensor)
         /\ registerListener(list, s) # << >>
         /\ IsInjective(registerListener(list, s))
         /\ Range(registerListener(list, s)) = Range(list) \cup {s}
  <1>1. CASE s \in Range(list)
    <2>1. list # << >>
      BY <1>1 DEF Range
    <2> QED BY <1>1, <2>1 DEF registerListener
  <1>2. CASE s \notin Range(list)
    <2> DEFINE new == Append(list, s)
    <2>1. registerListener(list, s) = new
      BY <1>2 DEF registerListener
    <2>2. /\ new \in Seq(Sensor) /\ Len(new) = Len(list) + 1
          /\ \A i \in 1 .. Len(list) : new[i] = list[i]
          /\ new[Len(list) + 1] = s
      OBVIOUS
    <2>3. /\ DOMAIN new = 1 .. (Len(list) + 1)
          /\ DOMAIN list = 1 .. Len(list) /\ Len(list) \in Nat
      BY <2>2
    <2> HIDE DEF new
    <2>4. \A i \in 1 .. Len(list) : list[i] # s
      BY <1>2, <2>3 DEF Range
    <2>5. IsInjective(new)
      BY <2>2, <2>3, <2>4 DEF IsInjective
    <2>6. Range(new) = Range(list) \cup {s}
      BY <2>2, <2>3 DEF Range
    <2>7. new # << >>
      BY <2>2
    <2> QED BY <2>1, <2>2, <2>5, <2>6, <2>7
  <1> QED BY <1>1, <1>2

\* Taking the only entry of a sensor off a list leaves all the others.
LEMMA UnregisterProperties ==
  ASSUME NEW list \in Seq(Sensor), IsInjective(list), NEW s \in Sensor
  PROVE  /\ unregisterListener(list, s) \in Seq(Sensor)
         /\ IsInjective(unregisterListener(list, s))
         /\ Range(unregisterListener(list, s)) = Range(list) \ {s}
  <1>1. CASE s \notin Range(list)
    BY <1>1 DEF unregisterListener
  <1>2. CASE s \in Range(list)
    <2> DEFINE k == CHOOSE k \in DOMAIN list :
                      list[k] = s /\ \A j \in 1 .. (k - 1) : list[j] # s
    <2>1. /\ DOMAIN list = 1 .. Len(list) /\ Len(list) \in Nat
          /\ \A i \in 1 .. Len(list) : list[i] \in Sensor
      OBVIOUS
    <2>2. PICK p \in DOMAIN list : list[p] = s
      BY <1>2 DEF Range
    <2>3. \A j \in 1 .. (p - 1) : list[j] # s
      BY <2>1, <2>2 DEF IsInjective
    <2>4. k \in 1 .. Len(list) /\ list[k] = s
      BY <2>1, <2>2, <2>3
    <2>5. unregisterListener(list, s) = dropAt(list, k)
      BY <1>2 DEF unregisterListener
    <2> HIDE DEF k
    <2> DEFINE rest == dropAt(list, k)
    <2>6. rest = [i \in 1 .. (Len(list) - 1) |-> IF i < k THEN list[i] ELSE list[i + 1]]
      BY DEF dropAt
    <2>7. /\ rest \in Seq(Sensor)
          /\ DOMAIN rest = 1 .. (Len(list) - 1)
      <3>1. \A i \in 1 .. (Len(list) - 1) :
               (IF i < k THEN list[i] ELSE list[i + 1]) \in Sensor
        BY <2>1, <2>4
      <3>2. Len(list) - 1 \in Nat
        BY <2>1, <2>4
      <3> QED BY <2>6, <3>1, <3>2
    <2> HIDE DEF rest
    <2>8. IsInjective(rest)
      <3> SUFFICES ASSUME NEW a \in DOMAIN rest, NEW b \in DOMAIN rest,
                          rest[a] = rest[b]
                   PROVE  a = b
        BY DEF IsInjective
      <3> DEFINE at(i) == IF i < k THEN i ELSE i + 1
      <3>1. \A i \in DOMAIN rest : at(i) \in 1 .. Len(list) /\ rest[i] = list[at(i)]
        BY <2>1, <2>4, <2>6, <2>7
      <3>2. at(a) = at(b)
        BY <2>1, <3>1 DEF IsInjective
      <3> QED BY <2>1, <2>4, <2>7, <3>2
    <2>9. \A i \in DOMAIN rest : rest[i] \in Range(list) \ {s}
      BY <2>1, <2>4, <2>6, <2>7 DEF Range, IsInjective
    <2>10. ASSUME NEW x \in Range(list) \ {s} PROVE x \in Range(rest)
      <3>1. PICK i \in 1 .. Len(list) : list[i] = x
        BY <2>1 DEF Range
      <3>2. CASE i < k
        <4>1. i \in DOMAIN rest /\ rest[i] = x
          BY <2>1, <2>4, <2>6, <2>7, <3>1, <3>2
        <4> QED BY <4>1 DEF Range
      <3>3. CASE ~(i < k)
        <4>1. i # k
          BY <2>4, <3>1
        <4>2. i - 1 \in DOMAIN rest /\ rest[i - 1] = list[(i - 1) + 1]
          BY <2>1, <2>4, <2>6, <2>7, <3>3, <4>1
        <4>3. rest[i - 1] = x
          BY <2>1, <3>1, <4>2
        <4> QED BY <4>2, <4>3 DEF Range
      <3> QED BY <3>2, <3>3
    <2>11. Range(rest) = Range(list) \ {s}
      BY <2>9, <2>10 DEF Range
    <2> QED BY <2>5, <2>7, <2>8, <2>11 DEF rest
  <1> QED BY <1>1, <1>2

\* A non-empty set of periods has a least element, and Least is it.
LEMMA LeastProperties ==
  ASSUME NEW S, S \subseteq Nat, S # {}
  PROVE  Least(S) \in S /\ \A x \in S : Least(S) <= x
  <1> DEFINE R == {ss \in Nat \X Nat : ss[1] < ss[2]}
  <1>1. R = OpToRel(<, Nat)
    BY DEF OpToRel
  <1>2. IsWellFoundedOn(R, Nat)
    BY <1>1, NatLessThanWellFounded, Zenon
  <1>3. \A x, y \in Nat : x < y => <<x, y>> \in R
    OBVIOUS
  <1> HIDE DEF R
  <1>4. PICK m \in S : \A x \in S : ~(<<x, m>> \in R)
    BY <1>2, WFMin
  <1>5. ASSUME NEW x \in S PROVE m <= x
    <2>1. x \in Nat /\ m \in Nat
      OBVIOUS
    <2>2. ~(x < m)
      BY <2>1, <1>3, <1>4, Zenon
    <2> QED BY <2>1, <2>2
  <1> QED BY <1>5 DEF Least
-----------------------------------------------------------------------------
(* The inductive invariant.                                                *)

\* A sensor is only ever registered with its own background sensors.
ListensToDeps ==
  \A h \in Hw : \A s \in Range(listener[h]) : h \in Range(Dep[s])

\* A driver is enabled while anybody is registered with its context ...
ListenedEnabled == \A h \in Hw : listener[h] # << >> => mEnabled[h]

\* ... and a driver that waits for its device does not believe it is on
\* when it is off.
BeliefSound == \A h \in Hw \ Optimistic : mEnabled[h] => power[h] # "off"

\* Whoever is registered is enabled or is just being enabled.
ListenersWanted ==
  \A h \in Hw : \A s \in Range(listener[h]) :
    enable[s] \/ (op = "enable" /\ target = s)

\* A disable under way has left the background sensors it has been through.
LeftBehind ==
  op = "disable" =>
    \A k \in 1 .. (next - 1) : target \notin Range(listener[Dep[target][k]])

IInv ==
  /\ TypeOK
  /\ NoDuplicateListener
  /\ ListensToDeps
  /\ ListenedEnabled
  /\ BeliefSound
  /\ ListenersWanted
  /\ LeftBehind

LEMMA DepType ==
  ASSUME NEW s \in Sensor
  PROVE  /\ Len(Dep[s]) \in Nat
         /\ \A k \in 1 .. Len(Dep[s]) : Dep[s][k] \in Hw
         /\ Range(Dep[s]) = {Dep[s][k] : k \in 1 .. Len(Dep[s])}
  <1>1. Dep[s] \in Seq(Hw)
    BY DepAssumption
  <1> QED BY <1>1 DEF Range

\* The background sensor a loop has reached is one of its context's.
LEMMA ItemType ==
  ASSUME TypeOK, more
  PROVE  Item \in Hw /\ Item \in Range(Dep[target]) /\ Item \in Sensor
         /\ next \in 1 .. Len(Dep[target]) /\ Len(Dep[target]) \in Nat
  <1>1. target \in Sensor
    BY DEF TypeOK
  <1>2. next \in 1 .. Len(Dep[target])
    BY <1>1, DepType DEF TypeOK, more
  <1> QED BY <1>1, <1>2, DepType DEF Item

\* A driver call changes its own device only, and leaves it consistent.
LEMMA DriverEnableEffect ==
  ASSUME TypeOK, BeliefSound, NEW h \in Hw, NEW on \in BOOLEAN, NEW rc,
         DriverEnable(h, on, rc)
  PROVE  /\ mEnabled' \in [Hw -> BOOLEAN]
         /\ power' \in [Hw -> {"on", "off", "unknown"}]
         /\ \A g \in Hw \ {h} : mEnabled'[g] = mEnabled[g] /\ power'[g] = power[g]
         /\ BeliefSound'
         /\ rc = 0 => mEnabled' = [mEnabled EXCEPT ![h] = on]
         /\ \/ mEnabled' = mEnabled
            \/ mEnabled' = [mEnabled EXCEPT ![h] = on]
  <1>1. \A p \in written(h, on) : p \in {"on", "off", "unknown"} /\ (on => p # "off")
    BY DEF written, fails
  <1>2. CASE EnableNoop(h, on, rc)
    BY <1>2 DEF EnableNoop, TypeOK, BeliefSound
  <1>3. CASE EnableStrict(h, on, rc)
    <2>1. CASE UNCHANGED <<mEnabled, power>> /\ rc = -1
      BY <2>1 DEF TypeOK, BeliefSound
    <2>2. CASE /\ rc = 0
               /\ mEnabled' = [mEnabled EXCEPT ![h] = on]
               /\ \E p \in written(h, on) : power' = [power EXCEPT ![h] = p]
      BY <1>1, <2>2 DEF TypeOK, BeliefSound
    <2> QED BY <1>3, <2>1, <2>2 DEF EnableStrict
  <1>4. CASE EnableOptimistic(h, on, rc)
    <2>1. h \in Optimistic /\ mEnabled' = [mEnabled EXCEPT ![h] = on]
      BY <1>4 DEF EnableOptimistic
    <2>2. \/ power' = power
          \/ \E p \in written(h, on) : power' = [power EXCEPT ![h] = p]
      BY <1>4 DEF EnableOptimistic
    <2>3. power' \in [Hw -> {"on", "off", "unknown"}]
          /\ \A g \in Hw \ {h} : power'[g] = power[g]
      BY <1>1, <2>2 DEF TypeOK
    <2> QED BY <2>1, <2>3 DEF TypeOK, BeliefSound
  <1> QED BY <1>2, <1>3, <1>4 DEF DriverEnable

\* The periods syncDelay() takes the minimum of are periods, and there is one.
LEMMA PeriodsType ==
  ASSUME TypeOK, NEW h \in Hw, NEW list \in Seq(Sensor), NEW en
  PROVE  /\ fixedDelay(list) \in [Sensor -> Nat]
         /\ periodsOf(h, list, en) \subseteq Nat
         /\ periodsOf(h, list, en) # {}
         /\ \A s \in Range(list) : fixedDelay(list)[s] \in periodsOf(h, list, en)
  <1>1. fixedDelay(list) \in [Sensor -> Nat]
    BY DelayAssumption DEF fixedDelay, TypeOK
  <1>2. h \in Sensor /\ Range(list) \subseteq Sensor
    BY DEF Range
  <1>3. list # << >> => list[1] \in Sensor
    OBVIOUS
  <1>4. list = << >> => Range(list) = {}
    BY DEF Range
  <1>5. delay \in [Sensor -> Nat]
    BY DEF TypeOK
  <1> HIDE DEF Sensor
  <1> QED BY <1>1, <1>2, <1>3, <1>4, <1>5 DEF periodsOf

LEMMA SyncDelayEffect ==
  ASSUME TypeOK, NEW h \in Hw, NEW list \in Seq(Sensor), NEW en,
         SyncDelay(h, list, en)
  PROVE  /\ delay' \in [Sensor -> Nat]
         /\ pollDelay' \in [Hw -> Nat \cup {Unset}]
         /\ \A g \in Hw \ {h} : pollDelay'[g] = pollDelay[g]
         /\ \/ pollDelay'[h] = pollDelay[h]
            \/ /\ pollDelay'[h] \in Nat
               /\ \A s \in Range(list) : pollDelay'[h] * NsPerMs <= delay'[s]
  <1> DEFINE m == Least(periodsOf(h, list, en))
  <1>1. m \in Nat /\ \A s \in Range(list) : m <= fixedDelay(list)[s]
    BY PeriodsType, LeastProperties
  <1>2. delay' = fixedDelay(list) /\ delay' \in [Sensor -> Nat]
    BY PeriodsType DEF SyncDelay
  <1>3. NsPerMs \in Nat \ {0}
    BY DelayAssumption
  <1>4. \/ pollDelay' = [pollDelay EXCEPT ![h] = m \div NsPerMs]
        \/ pollDelay' = pollDelay
    BY DEF SyncDelay, DriverSetDelay
  <1>5. pollDelay \in [Hw -> Nat \cup {Unset}]
    BY DEF TypeOK
  <1> HIDE DEF m
  <1>6. m \div NsPerMs \in Nat /\ (m \div NsPerMs) * NsPerMs <= m
    BY <1>1, <1>3
  <1>7. \A s \in Range(list) : (m \div NsPerMs) * NsPerMs <= delay'[s]
    <2> TAKE s \in Range(list)
    <2>1. s \in Sensor
      BY DEF Range
    <2>2. delay'[s] \in Nat /\ m <= delay'[s]
      BY <1>1, <1>2, <2>1
    <2>3. (m \div NsPerMs) * NsPerMs \in Nat
      BY <1>3, <1>6
    <2> QED BY <1>1, <1>6, <2>2, <2>3
  <1> QED BY <1>2, <1>4, <1>5, <1>6, <1>7
-----------------------------------------------------------------------------
(* The invariant is inductive.                                             *)

LEMMA InvInit == Init => IInv
  <1> SUFFICES ASSUME Init PROVE IInv
    OBVIOUS
  <1>1. \A h \in Hw : listener[h] = << >> /\ Range(listener[h]) = {}
    BY DEF Init, Range
  <1>2. BeliefSound
    <2> SUFFICES ASSUME NEW h \in Hw \ Optimistic, mEnabled[h]
                 PROVE  power[h] # "off"
      BY DEF BeliefSound
    <2>1. \A p \in written(h, TRUE) : p # "off"
      BY DEF written, fails
    <2>2. <<mEnabled[h], power[h]>> \in Booted(h)
      BY DEF Init
    <2> QED BY <2>1, <2>2 DEF Booted
  <1>3. TypeOK
    <2>1. target \in Sensor /\ next = 1
      BY DEF Init
    <2>2. next \in 1 .. (Len(Dep[target]) + 1)
      BY <2>1, DepType
    <2> QED BY <2>2 DEF Init, TypeOK
  <1>4. NoDuplicateListener
    BY <1>1 DEF NoDuplicateListener, IsInjective
  <1>5. ListensToDeps /\ ListenedEnabled /\ ListenersWanted /\ LeftBehind
    BY <1>1 DEF Init, ListensToDeps, ListenedEnabled, ListenersWanted, LeftBehind
  <1> QED BY <1>2, <1>3, <1>4, <1>5 DEF IInv

\* A command is entered while no other is under way.
LEMMA InvBegin ==
  ASSUME IInv, op = "idle", UNCHANGED <<listener, enable, device>>,
         delay' \in [Sensor -> Nat],
         op' \in {"enable", "disable", "sync"},
         target' \in Sensor, next' = 1, err' = 0
  PROVE  IInv'
  <1>1. TypeOK'
    BY DepType DEF IInv, TypeOK, device
  <1>2. LeftBehind'
    BY DEF LeftBehind
  <1> QED BY <1>1, <1>2 DEF IInv, device, NoDuplicateListener, ListensToDeps,
             ListenedEnabled, BeliefSound, ListenersWanted

LEMMA InvEnableItem == IInv /\ EnableItem => IInv'
  <1> SUFFICES ASSUME IInv, EnableItem PROVE IInv'
    OBVIOUS
  <1> DEFINE h == Item
  <1>1. op = "enable" /\ more /\ TypeOK /\ BeliefSound
    BY DEF EnableItem, IInv
  <1>2. h \in Hw /\ h \in Range(Dep[target]) /\ target \in Sensor
        /\ next' \in 1 .. (Len(Dep[target]) + 1)
    BY <1>1, ItemType DEF EnableItem, TypeOK
  <1>3. UNCHANGED <<enable, delay, pollDelay, op, target>>
    BY DEF EnableItem
  <1>4. PICK rc \in {0, -1} :
          /\ DriverEnable(h, TRUE, rc)
          /\ err' = rc
          /\ listener' = IF rc = 0
               THEN [listener EXCEPT ![h] = registerListener(@, target)]
               ELSE listener
    BY DEF EnableItem
  <1> HIDE DEF h
  <1>5. /\ mEnabled' \in [Hw -> BOOLEAN]
        /\ power' \in [Hw -> {"on", "off", "unknown"}]
        /\ BeliefSound'
        /\ rc = 0 => mEnabled' = [mEnabled EXCEPT ![h] = TRUE]
        /\ \/ mEnabled' = mEnabled
           \/ mEnabled' = [mEnabled EXCEPT ![h] = TRUE]
    BY <1>1, <1>2, <1>4, DriverEnableEffect
  <1>6. listener \in [Hw -> Seq(Sensor)] /\ mEnabled \in [Hw -> BOOLEAN]
    BY <1>1 DEF TypeOK
  <1>7. CASE rc = 0
    <2>1. /\ listener[h] \in Seq(Sensor) /\ IsInjective(listener[h])
      BY <1>2, <1>6 DEF IInv, NoDuplicateListener
    <2> DEFINE new == registerListener(listener[h], target)
    <2>2. /\ new \in Seq(Sensor) /\ new # << >> /\ IsInjective(new)
          /\ Range(new) = Range(listener[h]) \cup {target}
      BY <1>2, <2>1, RegisterProperties
    <2>3. listener' = [listener EXCEPT ![h] = new]
      BY <1>4, <1>7
    <2> HIDE DEF new
    <2>4. TypeOK'
      BY <1>1, <1>2, <1>3, <1>4, <1>5, <1>6, <2>2, <2>3 DEF TypeOK
    <2>5. NoDuplicateListener'
      BY <1>6, <2>2, <2>3 DEF IInv, NoDuplicateListener
    <2>6. ListensToDeps'
      BY <1>2, <1>6, <2>2, <2>3 DEF IInv, ListensToDeps
    <2>7. ListenedEnabled'
      BY <1>5, <1>6, <1>7, <2>3 DEF IInv, ListenedEnabled
    <2>8. ListenersWanted'
      BY <1>1, <1>3, <1>6, <2>2, <2>3 DEF IInv, ListenersWanted
    <2>9. LeftBehind'
      BY <1>1, <1>3 DEF LeftBehind
    <2> QED BY <1>5, <2>4, <2>5, <2>6, <2>7, <2>8, <2>9 DEF IInv
  <1>8. CASE rc = -1
    <2>1. listener' = listener
      BY <1>4, <1>8
    <2>2. TypeOK'
      BY <1>1, <1>2, <1>3, <1>4, <1>5, <1>6, <2>1 DEF TypeOK
    <2>3. ListenedEnabled'
      BY <1>2, <1>5, <1>6, <2>1 DEF IInv, ListenedEnabled
    <2> QED BY <1>1, <1>3, <1>5, <2>1, <2>2, <2>3 DEF IInv, NoDuplicateListener,
               ListensToDeps, ListenersWanted, LeftBehind
  <1> QED BY <1>7, <1>8

\* The listener lists after one turn of the disabling loop.
LEMMA DisableItemLists ==
  ASSUME IInv, DisableItem
  PROVE  LET rest == unregisterListener(listener[Item], target)
         IN  /\ listener' = [listener EXCEPT ![Item] = rest]
             /\ rest \in Seq(Sensor) /\ IsInjective(rest)
             /\ Range(rest) = Range(listener[Item]) \ {target}
  <1> DEFINE h == Item
             rest == unregisterListener(listener[h], target)
  <1>1. TypeOK /\ more
    BY DEF IInv, DisableItem
  <1>2. h \in Hw /\ target \in Sensor /\ listener \in [Hw -> Seq(Sensor)]
    BY <1>1, ItemType DEF TypeOK
  <1>3. /\ rest \in Seq(Sensor) /\ IsInjective(rest)
        /\ Range(rest) = Range(listener[h]) \ {target}
    BY <1>2, UnregisterProperties DEF IInv, NoDuplicateListener
  <1>4. CASE listener[h] # << >>
    BY <1>3, <1>4 DEF DisableItem
  <1>5. CASE listener[h] = << >>
    <2>1. Range(listener[h]) = {}
      BY <1>5 DEF Range
    <2>2. rest = listener[h]
      BY <2>1 DEF unregisterListener
    <2>3. listener' = listener
      BY <1>5 DEF DisableItem
    <2> QED BY <1>2, <1>3, <2>2, <2>3
  <1> QED BY <1>4, <1>5

\* The driver after that turn: disabled at most when nobody is left.
LEMMA DisableItemDriver ==
  ASSUME IInv, DisableItem
  PROVE  /\ mEnabled' \in [Hw -> BOOLEAN]
         /\ power' \in [Hw -> {"on", "off", "unknown"}]
         /\ BeliefSound'
         /\ \/ mEnabled' = mEnabled
            \/ /\ unregisterListener(listener[Item], target) = << >>
               /\ mEnabled' = [mEnabled EXCEPT ![Item] = FALSE]
  <1>1. TypeOK /\ BeliefSound /\ Item \in Hw
    BY ItemType DEF IInv, DisableItem
  <1>2. CASE unregisterListener(listener[Item], target) = << >>
    <2>1. PICK rc \in {0, -1} : DriverEnable(Item, FALSE, rc)
      BY <1>2 DEF DisableItem
    <2> QED BY <1>1, <1>2, <2>1, DriverEnableEffect
  <1>3. CASE unregisterListener(listener[Item], target) # << >>
    BY <1>1, <1>3 DEF DisableItem, TypeOK, BeliefSound
  <1> QED BY <1>2, <1>3

\* Enable flags and periods after that turn.
LEMMA DisableItemContext ==
  ASSUME IInv, DisableItem
  PROVE  /\ enable' \in [Sensor -> BOOLEAN]
         /\ \A s \in Sensor : s # target => enable'[s] = enable[s]
         /\ \/ enable' = enable
            \/ Item = target
         /\ delay' \in [Sensor -> Nat]
         /\ pollDelay' \in [Hw -> Nat \cup {Unset}]
  <1> DEFINE rest == unregisterListener(listener[Item], target)
  <1>1. TypeOK /\ Item \in Hw
    BY ItemType DEF IInv, DisableItem
  <1>2. rest \in Seq(Sensor)
    BY DisableItemLists
  <1>3. CASE listener[Item] # << >>
    <2>1. enable' = IF Item = target THEN [enable EXCEPT ![Item] = FALSE] ELSE enable
      BY <1>3 DEF DisableItem
    <2>2. SyncDelay(Item, rest, enable')
      BY <1>3 DEF DisableItem
    <2>3. delay' \in [Sensor -> Nat] /\ pollDelay' \in [Hw -> Nat \cup {Unset}]
      BY <1>1, <1>2, <2>2, SyncDelayEffect
    <2> QED BY <1>1, <2>1, <2>3 DEF TypeOK
  <1>4. CASE listener[Item] = << >>
    BY <1>1, <1>4 DEF DisableItem, TypeOK
  <1> QED BY <1>3, <1>4

LEMMA InvDisableItem == IInv /\ DisableItem => IInv'
  <1> SUFFICES ASSUME IInv, DisableItem PROVE IInv'
    OBVIOUS
  <1> DEFINE h == Item
             rest == unregisterListener(listener[h], target)
  <1>1. op = "disable" /\ more /\ next' = next + 1 /\ UNCHANGED <<op, target, err>>
    BY DEF DisableItem
  <1>2. TypeOK /\ target \in Sensor /\ listener \in [Hw -> Seq(Sensor)]
        /\ mEnabled \in [Hw -> BOOLEAN]
    BY DEF IInv, TypeOK
  <1>3. h \in Hw /\ h \in Range(Dep[target]) /\ h = Dep[target][next]
        /\ next \in 1 .. Len(Dep[target]) /\ Len(Dep[target]) \in Nat
    BY <1>1, <1>2, ItemType DEF Item
  <1>4. /\ listener' = [listener EXCEPT ![h] = rest]
        /\ rest \in Seq(Sensor) /\ IsInjective(rest)
        /\ Range(rest) = Range(listener[h]) \ {target}
    BY DisableItemLists
  <1>5. /\ mEnabled' \in [Hw -> BOOLEAN]
        /\ power' \in [Hw -> {"on", "off", "unknown"}]
        /\ BeliefSound'
        /\ \/ mEnabled' = mEnabled
           \/ rest = << >> /\ mEnabled' = [mEnabled EXCEPT ![h] = FALSE]
    BY DisableItemDriver
  <1>6. /\ enable' \in [Sensor -> BOOLEAN]
        /\ \A s \in Sensor : s # target => enable'[s] = enable[s]
        /\ enable' = enable \/ h = target
        /\ delay' \in [Sensor -> Nat]
        /\ pollDelay' \in [Hw -> Nat \cup {Unset}]
    BY DisableItemContext
  <1> HIDE DEF h, rest
  <1>7. TypeOK'
    <2>1. listener' \in [Hw -> Seq(Sensor)]
      BY <1>2, <1>3, <1>4
    <2>2. next' \in 1 .. (Len(Dep[target']) + 1)
      BY <1>1, <1>3
    <2> QED BY <1>1, <1>2, <1>5, <1>6, <2>1, <2>2 DEF TypeOK
  <1>8. NoDuplicateListener'
    BY <1>2, <1>4 DEF IInv, NoDuplicateListener
  <1>9. ListensToDeps'
    BY <1>2, <1>4 DEF IInv, ListensToDeps
  <1>10. ListenedEnabled'
    <2> SUFFICES ASSUME NEW g \in Hw, listener'[g] # << >> PROVE mEnabled'[g]
      BY DEF ListenedEnabled
    <2>1. CASE g = h
      <3>1. rest # << >>
        BY <1>2, <1>4, <2>1
      <3>2. listener[h] # << >>
        <4>1. Range(rest) # {}
          BY <1>4, <3>1 DEF Range
        <4>2. Range(listener[h]) # {}
          BY <1>4, <4>1
        <4> QED BY <4>2 DEF Range
      <3> QED BY <1>3, <1>5, <2>1, <3>1, <3>2 DEF IInv, ListenedEnabled
    <2>2. CASE g # h
      BY <1>2, <1>4, <1>5, <2>2 DEF IInv, ListenedEnabled
    <2> QED BY <2>1, <2>2
  <1>11. ListenersWanted'
    <2> SUFFICES ASSUME NEW g \in Hw, NEW s \in Range(listener'[g]) PROVE enable'[s]
      BY DEF ListenersWanted
    <2>1. s \in Range(listener[g]) /\ s \in Sensor
      <3>1. s \in Range(listener[g])
        BY <1>2, <1>4
      <3>2. listener[g] \in Seq(Sensor)
        BY <1>2
      <3> QED BY <3>1, <3>2, RangeOfSeq
    <2>2. enable[s]
      BY <1>1, <2>1 DEF IInv, ListenersWanted
    <2>3. CASE s # target
      BY <1>6, <2>1, <2>2, <2>3
    <2>4. CASE s = target /\ h = target
      <3>1. Dep[target] = <<target>>
        BY <1>3, <2>4, DepAssumption
      <3>2. g = target
        BY <2>1, <2>4, <3>1 DEF IInv, ListensToDeps, Range
      <3>3. s \notin Range(listener'[g])
        BY <1>2, <1>3, <1>4, <2>4, <3>2
      <3> QED BY <3>3
    <2>5. CASE s = target /\ h # target
      BY <1>6, <2>2, <2>5
    <2> QED BY <2>3, <2>4, <2>5
  <1>12. LeftBehind'
    <2> SUFFICES ASSUME NEW k \in 1 .. next
                 PROVE  target \notin Range(listener'[Dep[target][k]])
      BY <1>1, <1>3 DEF LeftBehind
    <2>1. Dep[target][k] \in Hw
      BY <1>2, <1>3, DepType
    <2>2. CASE Dep[target][k] = h
      BY <1>2, <1>4, <2>1, <2>2
    <2>3. CASE Dep[target][k] # h
      <3>1. k \in 1 .. (next - 1)
        BY <1>3, <2>3
      <3> QED BY <1>1, <1>2, <1>4, <2>1, <2>3, <3>1 DEF IInv, LeftBehind
    <2> QED BY <2>2, <2>3
  <1> QED BY <1>5, <1>7, <1>8, <1>9, <1>10, <1>11, <1>12 DEF IInv

LEMMA InvActivateReturn == IInv /\ ActivateReturn => IInv'
  <1> SUFFICES ASSUME IInv, ActivateReturn PROVE IInv'
    OBVIOUS
  <1>1. /\ op \in {"enable", "disable"} /\ ~more /\ op' = "idle"
        /\ enable' = [enable EXCEPT ![target] = (op = "enable")]
        /\ UNCHANGED <<listener, delay, device, target, next, err>>
    BY DEF ActivateReturn
  <1>2. target \in Sensor /\ enable \in [Sensor -> BOOLEAN]
        /\ listener \in [Hw -> Seq(Sensor)]
    BY DEF IInv, TypeOK
  <1>3. TypeOK'
    BY <1>1 DEF IInv, TypeOK, device
  <1>4. ListenersWanted'
    <2> SUFFICES ASSUME NEW h \in Hw, NEW s \in Range(listener[h]) PROVE enable'[s]
      BY <1>1 DEF ListenersWanted
    <2>1. s \in Sensor /\ h \in Range(Dep[s])
      <3>1. listener[h] \in Seq(Sensor)
        BY <1>2
      <3>2. s \in Sensor
        BY <3>1, RangeOfSeq
      <3> QED BY <3>2 DEF IInv, ListensToDeps
    <2>2. CASE s # target
      BY <1>1, <1>2, <2>1, <2>2 DEF IInv, ListenersWanted
    <2>3. CASE s = target /\ op = "enable"
      BY <1>1, <1>2, <2>3
    <2>4. CASE s = target /\ op = "disable"
      <3>1. next - 1 = Len(Dep[target])
        BY <1>1, <1>2, DepType DEF IInv, TypeOK, more
      <3>2. PICK k \in 1 .. (next - 1) : h = Dep[target][k]
        <4>1. Range(Dep[target]) = {Dep[target][k] : k \in 1 .. Len(Dep[target])}
          BY <1>2, DepType
        <4>2. h \in Range(Dep[target])
          BY <2>1, <2>4
        <4> QED BY <3>1, <4>1, <4>2
      <3> QED BY <2>4, <3>2 DEF IInv, LeftBehind
    <2> QED BY <1>1, <2>2, <2>3, <2>4
  <1>5. LeftBehind'
    BY <1>1 DEF LeftBehind
  <1> QED BY <1>1, <1>3, <1>4, <1>5 DEF IInv, device, NoDuplicateListener,
             ListensToDeps, ListenedEnabled, BeliefSound

LEMMA InvSyncItem == IInv /\ SyncItem => IInv'
  <1> SUFFICES ASSUME IInv, SyncItem PROVE IInv'
    OBVIOUS
  <1>1. /\ op = "sync" /\ more /\ next' = next + 1
        /\ SyncDelay(Item, listener[Item], enable)
        /\ UNCHANGED <<listener, enable, mEnabled, power, op, target, err>>
    BY DEF SyncItem
  <1>2. TypeOK /\ Item \in Hw /\ target \in Sensor
        /\ next' \in 1 .. (Len(Dep[target]) + 1)
    BY <1>1, ItemType DEF IInv, TypeOK
  <1>3. listener[Item] \in Seq(Sensor)
    BY <1>2 DEF TypeOK
  <1>4. delay' \in [Sensor -> Nat] /\ pollDelay' \in [Hw -> Nat \cup {Unset}]
    BY <1>1, <1>2, <1>3, SyncDelayEffect
  <1>5. TypeOK'
    BY <1>1, <1>2, <1>4 DEF TypeOK
  <1>6. LeftBehind'
    BY <1>1 DEF LeftBehind
  <1> QED BY <1>1, <1>5, <1>6 DEF IInv, NoDuplicateListener, ListensToDeps,
             ListenedEnabled, BeliefSound, ListenersWanted

LEMMA InvNext == IInv /\ [Next]_vars => IInv'
  <1> SUFFICES ASSUME IInv, [Next]_vars PROVE IInv'
    OBVIOUS
  <1>1. CASE UNCHANGED vars
    BY <1>1 DEF IInv, vars, context, device, command, TypeOK, NoDuplicateListener,
       ListensToDeps, ListenedEnabled, BeliefSound, ListenersWanted, LeftBehind
  <1>2. ASSUME NEW s \in Sensor, NEW on \in BOOLEAN, Activate(s, on) PROVE IInv'
    <2>1. delay' \in [Sensor -> Nat] /\ op' \in {"enable", "disable"}
      BY <1>2 DEF Activate, context, IInv, TypeOK
    <2> QED BY <1>2, <2>1, InvBegin DEF Activate, context
  <1>3. ASSUME NEW s \in Sensor, NEW ns \in Periods, SetDelay(s, ns) PROVE IInv'
    <2>1. clamped(s, ns) \in Nat
      <3>1. MinDelay[s] \in Nat /\ NsPerUs \in Nat /\ NsPerMs \in Nat /\ ns \in Nat
        BY DelayAssumption
      <3>2. MinDelay[s] * NsPerUs \in Nat
        BY <3>1
      <3> QED BY <3>1, <3>2 DEF clamped
    <2>2. delay' \in [Sensor -> Nat]
      BY <1>3, <2>1 DEF SetDelay, IInv, TypeOK
    <2> QED BY <1>3, <2>2, InvBegin DEF SetDelay
  <1>4. CASE EnableItem
    BY <1>4, InvEnableItem
  <1>5. CASE DisableItem
    BY <1>5, InvDisableItem
  <1>6. CASE ActivateReturn
    BY <1>6, InvActivateReturn
  <1>7. CASE SyncItem
    BY <1>7, InvSyncItem
  <1>8. CASE SetDelayReturn
    BY <1>8 DEF SetDelayReturn, IInv, context, device, TypeOK, NoDuplicateListener,
       ListensToDeps, ListenedEnabled, BeliefSound, ListenersWanted, LeftBehind
  <1> QED BY <1>1, <1>2, <1>3, <1>4, <1>5, <1>6, <1>7, <1>8 DEF Next

\* The inductive invariant holds in every reachable state.
LEMMA Invariance == Spec => []IInv
  BY InvInit, InvNext, PTL DEF Spec

\* Every reachable state is well typed.
THEOREM TypeCorrect == Spec => []TypeOK
  <1>1. IInv => TypeOK
    BY DEF IInv
  <1> QED BY <1>1, Invariance, PTL

\* No sensor is ever registered twice with the same hardware sensor.
THEOREM NeverTwiceRegistered == Spec => []NoDuplicateListener
  <1>1. IInv => NoDuplicateListener
    BY DEF IInv
  <1> QED BY <1>1, Invariance, PTL

\* Between commands only enabled sensors are registered, whatever failed.
THEOREM RegistrationCorrect == Spec => []OnlyEnabledListen
  <1>1. IInv => OnlyEnabledListen
    BY DEF IInv, ListenersWanted, OnlyEnabledListen
  <1> QED BY <1>1, Invariance, PTL

\* A device with listeners is on, if its driver waits for the device and no
\* write was lost.
THEOREM PowerCorrect == Spec => []ListenersPowered
  <1>1. IInv => ListenersPowered
    BY DEF IInv, ListenedEnabled, BeliefSound, ListenersPowered
  <1> QED BY <1>1, Invariance, PTL
-----------------------------------------------------------------------------
(* Use counting: every step of the manager is one of SensorPower.          *)

\* The users SensorPower sees: the listeners of each hardware context.
usersOf == [h \in Hw |-> Range(listener[h])]

LEMMA PowerInit == Init => Power!Init
  BY DEF Init, Power!Init, Range

LEMMA PowerNext == IInv /\ [Next]_vars => [Power!Next]_(Power!vars)
  <1> SUFFICES ASSUME IInv, [Next]_vars PROVE [Power!Next]_(Power!vars)
    OBVIOUS
  <1> USE DEF Power!vars
  <1>1. ASSUME UNCHANGED <<listener, mEnabled>> PROVE UNCHANGED Power!vars
    BY <1>1
  <1>2. CASE EnableItem
    <2> DEFINE h == Item
    <2>1. h \in Hw /\ target \in Sensor /\ TypeOK /\ BeliefSound
          /\ listener \in [Hw -> Seq(Sensor)] /\ mEnabled \in [Hw -> BOOLEAN]
      BY <1>2, ItemType DEF IInv, TypeOK, EnableItem
    <2>2. PICK rc \in {0, -1} :
            /\ DriverEnable(h, TRUE, rc)
            /\ listener' = IF rc = 0
                 THEN [listener EXCEPT ![h] = registerListener(@, target)]
                 ELSE listener
      BY <1>2 DEF EnableItem
    <2> HIDE DEF h
    <2>3. /\ rc = 0 => mEnabled' = [mEnabled EXCEPT ![h] = TRUE]
          /\ \/ mEnabled' = mEnabled
             \/ mEnabled' = [mEnabled EXCEPT ![h] = TRUE]
      BY <2>1, <2>2, DriverEnableEffect
    <2>4. CASE rc = 0
      <3> DEFINE new == registerListener(listener[h], target)
      <3>1. Range(new) = Range(listener[h]) \cup {target}
        BY <2>1, RegisterProperties DEF IInv, NoDuplicateListener
      <3>2. listener' = [listener EXCEPT ![h] = new]
        BY <2>2, <2>4
      <3> HIDE DEF new
      <3>3. usersOf' = [usersOf EXCEPT ![h] = @ \cup {target}]
        BY <2>1, <3>1, <3>2 DEF usersOf
      <3>4. Power!Acquire(h, target)
        BY <2>3, <2>4, <3>3 DEF Power!Acquire, usersOf
      <3> QED BY <2>1, <3>4 DEF Power!Next
    <2>5. CASE rc = -1
      <3>1. listener' = listener
        BY <2>2, <2>5
      <3>2. CASE mEnabled' = mEnabled
        BY <1>1, <3>1, <3>2
      <3>3. CASE mEnabled' = [mEnabled EXCEPT ![h] = TRUE]
        <4>1. Power!SwitchOn(h)
          BY <3>1, <3>3 DEF Power!SwitchOn
        <4> QED BY <2>1, <4>1 DEF Power!Next
      <3> QED BY <2>3, <3>2, <3>3
    <2> QED BY <2>4, <2>5
  <1>3. CASE DisableItem
    <2> DEFINE h == Item
               rest == unregisterListener(listener[h], target)
    <2>1. h \in Hw /\ target \in Sensor /\ listener \in [Hw -> Seq(Sensor)]
      BY <1>3, ItemType DEF IInv, TypeOK, DisableItem
    <2>2. /\ listener' = [listener EXCEPT ![h] = rest]
          /\ Range(rest) = Range(listener[h]) \ {target}
      BY <1>3, DisableItemLists
    <2>3. \/ mEnabled' = mEnabled
          \/ rest = << >> /\ mEnabled' = [mEnabled EXCEPT ![h] = FALSE]
      BY <1>3, DisableItemDriver
    <2> HIDE DEF h, rest
    <2>4. usersOf' = [usersOf EXCEPT ![h] = @ \ {target}]
      BY <2>1, <2>2 DEF usersOf
    <2>5. rest = << >> => usersOf[h] \subseteq {target}
      <3>1. Range(<< >>) = {}
        BY DEF Range
      <3> QED BY <2>1, <2>2, <3>1 DEF usersOf
    <2>6. Power!Release(h, target)
      BY <2>3, <2>4, <2>5 DEF Power!Release, usersOf
    <2> QED BY <2>1, <2>6 DEF Power!Next
  <1>4. CASE UNCHANGED vars
    BY <1>1, <1>4 DEF vars, context, device
  <1>5. ASSUME NEW s \in Sensor, NEW on \in BOOLEAN, Activate(s, on)
        PROVE  UNCHANGED Power!vars
    BY <1>1, <1>5 DEF Activate, context, device
  <1>6. ASSUME NEW s \in Sensor, NEW ns \in Periods, SetDelay(s, ns)
        PROVE  UNCHANGED Power!vars
    BY <1>1, <1>6 DEF SetDelay, device
  <1>7. CASE ActivateReturn \/ SyncItem \/ SetDelayReturn
    BY <1>1, <1>7 DEF ActivateReturn, SyncItem, SetDelayReturn, context, device
  <1> QED BY <1>2, <1>3, <1>4, <1>5, <1>6, <1>7 DEF Next

\* The manager implements use counting: no driver is disabled while a sensor
\* is registered with its context, whatever the interleaving of commands.
THEOREM PowerRefinement == Spec => PowerSpec
  BY Invariance, PowerInit, PowerNext, PTL DEF Spec, PowerSpec, Power!Spec

-----------------------------------------------------------------------------
(* Rates.                                                                  *)

LEMMA RateStep ==
  ASSUME IInv, [Next]_vars,
         NEW h \in Hw, NEW s \in Range(listener[h]) \cap Range(listener'[h]),
         Serves(h, s), delay'[s] = delay[s]
  PROVE  Serves(h, s)'
  <1>1. ASSUME pollDelay'[h] = pollDelay[h] PROVE Serves(h, s)'
    BY <1>1 DEF Serves
  <1>2. ASSUME pollDelay'[h] \in Nat, pollDelay'[h] * NsPerMs <= delay'[s]
        PROVE  Serves(h, s)'
    BY <1>2 DEF Serves, Unset
  <1>3. CASE DisableItem
    <2>1. TypeOK /\ Item \in Hw /\ listener \in [Hw -> Seq(Sensor)]
          /\ pollDelay \in [Hw -> Nat \cup {Unset}]
      BY <1>3, ItemType DEF IInv, DisableItem, TypeOK
    <2> DEFINE rest == unregisterListener(listener[Item], target)
    <2>2. listener' = [listener EXCEPT ![Item] = rest] /\ rest \in Seq(Sensor)
      BY <1>3, DisableItemLists
    <2>3. CASE listener[Item] = << >>
      BY <1>1, <1>3, <2>3 DEF DisableItem
    <2>4. CASE listener[Item] # << >>
      <3>1. SyncDelay(Item, rest, enable')
        BY <1>3, <2>4 DEF DisableItem
      <3> HIDE DEF rest
      <3>2. CASE h = Item
        <4>1. s \in Range(rest)
          BY <2>1, <2>2, <3>2
        <4> QED BY <1>1, <1>2, <2>1, <2>2, <3>1, <3>2, <4>1, SyncDelayEffect
      <3>3. CASE h # Item
        BY <1>1, <2>1, <2>2, <3>1, <3>3, SyncDelayEffect
      <3> QED BY <3>2, <3>3
    <2> QED BY <2>3, <2>4
  <1>4. CASE SyncItem
    <2>1. TypeOK /\ Item \in Hw /\ listener[Item] \in Seq(Sensor)
          /\ SyncDelay(Item, listener[Item], enable)
      BY <1>4, ItemType DEF IInv, SyncItem, TypeOK
    <2>2. CASE h = Item
      BY <1>1, <1>2, <2>1, <2>2, SyncDelayEffect
    <2>3. CASE h # Item
      BY <1>1, <2>1, <2>3, SyncDelayEffect
    <2> QED BY <2>2, <2>3
  <1>5. CASE UNCHANGED vars
    BY <1>1, <1>5 DEF vars, device
  <1>6. ASSUME NEW t \in Sensor, NEW on \in BOOLEAN, Activate(t, on)
        PROVE  Serves(h, s)'
    BY <1>1, <1>6 DEF Activate, device
  <1>7. ASSUME NEW t \in Sensor, NEW ns \in Periods, SetDelay(t, ns)
        PROVE  Serves(h, s)'
    BY <1>1, <1>7 DEF SetDelay, device
  <1>8. CASE EnableItem \/ ActivateReturn \/ SetDelayReturn
    BY <1>1, <1>8 DEF EnableItem, ActivateReturn, SetDelayReturn, device
  <1> QED BY <1>3, <1>4, <1>5, <1>6, <1>7, <1>8 DEF Next

\* No command takes away the rate another, unchanged listener is getting.
THEOREM RatesKept == Spec => RateKept
  <1>1. IInv /\ [Next]_vars =>
          [\A h \in Hw : \A s \in Range(listener[h]) \cap Range(listener'[h]) :
             (Serves(h, s) /\ delay'[s] = delay[s]) => Serves(h, s)']_vars
    BY RateStep
  <1> QED BY <1>1, Invariance, PTL DEF Spec, RateKept

\* The background sensors setDelay() has been through are fast enough for the
\* target, which has a period of its own.
SyncedSoFar ==
  op = "sync" =>
    /\ delay[target] # 0
    /\ \A k \in 1 .. (next - 1) :
         (~fails(Dep[target][k], "delay") /\ target \in Range(listener[Dep[target][k]]))
           => Serves(Dep[target][k], target)

\* A write that cannot fail serves every listener.
LEMMA SyncServes ==
  ASSUME IInv, SyncItem, NEW h, h = Item, NEW s, s = target,
         ~fails(h, "delay"), s \in Range(listener[h])
  PROVE  Serves(h, s)'
  <1> DEFINE m == Least(periodsOf(h, listener[h], enable))
  <1>1. TypeOK /\ h \in Hw /\ listener[h] \in Seq(Sensor) /\ s \in Sensor
    BY ItemType DEF IInv, SyncItem, TypeOK
  <1>2. m \in Nat /\ m <= fixedDelay(listener[h])[s]
    BY <1>1, PeriodsType, LeastProperties
  <1>3. delay'[s] \in Nat /\ m <= delay'[s]
    BY <1>1, <1>2, PeriodsType DEF SyncItem, SyncDelay
  <1>4. pollDelay' = [pollDelay EXCEPT ![h] = m \div NsPerMs]
    BY DEF SyncItem, SyncDelay, DriverSetDelay
  <1> HIDE DEF m
  <1>5. m \div NsPerMs \in Nat /\ (m \div NsPerMs) * NsPerMs <= m
    BY <1>2, DelayAssumption
  <1>6. (m \div NsPerMs) * NsPerMs <= delay'[s]
    <2>1. (m \div NsPerMs) * NsPerMs \in Nat
      BY <1>5, DelayAssumption
    <2> QED BY <1>2, <1>3, <1>5, <2>1
  <1>7. pollDelay'[h] = m \div NsPerMs
    BY <1>1, <1>4 DEF TypeOK
  <1> QED BY <1>5, <1>6, <1>7 DEF Unset, Serves

LEMMA SyncedNext ==
  ASSUME IInv, SyncedSoFar, [Next]_vars
  PROVE  SyncedSoFar'
  <1>1. CASE SyncItem
    <2>1. /\ op = "sync" /\ op' = op /\ target' = target /\ next' = next + 1
          /\ listener' = listener /\ next \in Nat /\ TypeOK
      BY <1>1 DEF SyncItem, IInv, TypeOK
    <2>2. delay'[target] = delay[target]
      BY <1>1, <2>1 DEF SyncItem, SyncDelay, fixedDelay, SyncedSoFar, TypeOK
    <2> SUFFICES ASSUME NEW k \in 1 .. next, NEW h, h = Dep[target][k],
                        NEW s, s = target,
                        ~fails(h, "delay"), s \in Range(listener[h])
                 PROVE  Serves(h, s)'
      BY <2>1, <2>2 DEF SyncedSoFar, fails, Serves
    <2>3. CASE k = next
      BY <1>1, <2>3, SyncServes DEF Item
    <2>4. CASE k # next
      <3>1. k \in 1 .. (next - 1)
        BY <2>1, <2>4
      <3>2. Serves(h, s)
        BY <2>1, <3>1 DEF SyncedSoFar
      <3>3. h \in Hw
        BY <2>1, <3>1, DepType DEF TypeOK
      <3> QED BY <2>1, <2>2, <3>2, <3>3, RateStep
    <2> QED BY <2>3, <2>4
  <1>2. ASSUME NEW s \in Sensor, NEW ns \in Periods, SetDelay(s, ns)
        PROVE  SyncedSoFar'
    <2>1. clamped(s, ns) # 0
      BY DelayAssumption DEF clamped
    <2>2. delay'[s] = clamped(s, ns) /\ target' = s /\ next' = 1
      BY <1>2 DEF SetDelay, IInv, TypeOK
    <2> QED BY <2>1, <2>2 DEF SyncedSoFar
  <1>3. CASE UNCHANGED vars
    BY <1>3 DEF vars, context, device, command, SyncedSoFar, Serves, fails
  <1>4. ASSUME NEW s \in Sensor, NEW on \in BOOLEAN, Activate(s, on)
        PROVE  SyncedSoFar'
    BY <1>4 DEF Activate, SyncedSoFar
  <1>5. CASE EnableItem \/ DisableItem \/ ActivateReturn \/ SetDelayReturn
    BY <1>5 DEF EnableItem, DisableItem, ActivateReturn, SetDelayReturn, SyncedSoFar
  <1> QED BY <1>1, <1>2, <1>3, <1>4, <1>5 DEF Next

\* When setDelay() has been through dep_list, every background sensor that
\* lists the sensor runs as fast as it asked (NativeSensorManager.cpp:723-755).
\* It says nothing of what an enabling activate() leaves, which syncs nothing.
THEOREM DelaysApplied == Spec => []DelayApplied
  <1>1. Init => SyncedSoFar
    BY DEF Init, SyncedSoFar
  <1>2. Spec => []SyncedSoFar
    BY <1>1, SyncedNext, Invariance, PTL DEF Spec
  <1>3. IInv /\ SyncedSoFar => DelayApplied
    <2> SUFFICES ASSUME IInv, SyncedSoFar, op = "sync", ~more,
                        NEW h \in Range(Dep[target]),
                        ~fails(h, "delay"), target \in Range(listener[h])
                 PROVE  Serves(h, target)
      BY DEF DelayApplied
    <2>1. PICK k \in DOMAIN Dep[target] : h = Dep[target][k]
      BY DEF Range
    <2>2. next \in 1 .. (Len(Dep[target]) + 1) /\ target \in Sensor
      BY DEF IInv, TypeOK
    <2>3. Len(Dep[target]) \in Nat /\ DOMAIN Dep[target] = 1 .. Len(Dep[target])
      BY <2>2, DepType, DepAssumption
    <2>4. k \in 1 .. (next - 1)
      BY <2>2, <2>3 DEF more
    <2> QED BY <2>1, <2>4 DEF SyncedSoFar
  <1> QED BY <1>2, <1>3, Invariance, PTL

-----------------------------------------------------------------------------
(* Commands, from entry to return, are those PollLoop carries out.          *)

\* Who is registered with h.
users(h) == Range(listener[h])

\* The background sensors the walk over dep_list has been through.
passed == {Dep[target][k] : k \in 1 .. (next - 1)}

-----------------------------------------------------------------------------
(* What a command under way has made, so far, of what it found.            *)

BeforeType ==
  before \in [enable : [Sensor -> BOOLEAN], mEnabled : [Hw -> BOOLEAN],
              listeners : [Hw -> SUBSET Sensor]]

NothingSoFar == op \in {"idle", "sync"} => before = summary

\* The target is registered where the driver did not fail, and nobody has
\* been taken off; an error means the last driver asked is one that failed.
EnabledSoFar ==
  op = "enable" =>
    /\ enable = before.enable
    /\ \A h \in Hw : users(h) = before.listeners[h]
                     \/ (h \in passed /\ users(h) = before.listeners[h] \cup {target})
    /\ \A h \in Hw : mEnabled[h] = before.mEnabled[h] \/ (h \in passed /\ mEnabled[h])
    /\ \A h \in passed : target \in users(h) \/ h \in Fallible
    /\ err = -1 => \E h \in passed : target \notin users(h)

\* The target is off the lists passed, and drivers without anybody are off.
DisabledSoFar ==
  op = "disable" =>
    /\ \A s \in Sensor : s # target => enable[s] = before.enable[s]
    /\ \A h \in Hw : users(h) = before.listeners[h] \ (IF h \in passed THEN {target} ELSE {})
    /\ \A h \in Hw : mEnabled[h] = before.mEnabled[h]
                     \/ (h \in passed /\ ~mEnabled[h] /\ users(h) = {})
    /\ \A h \in passed \ Fallible : users(h) = {} => ~mEnabled[h]

NoErrorSoFar == op \in {"disable", "sync"} => err = 0

CInv == IInv /\ BeforeType /\ NothingSoFar /\ EnabledSoFar /\ DisabledSoFar /\ NoErrorSoFar
-----------------------------------------------------------------------------
LEMMA SummaryType ==
  ASSUME TypeOK
  PROVE  summary \in [enable : [Sensor -> BOOLEAN], mEnabled : [Hw -> BOOLEAN],
                      listeners : [Hw -> SUBSET Sensor]]
  <1>1. \A h \in Hw : listener[h] \in Seq(Sensor)
    BY DEF TypeOK
  <1>2. \A h \in Hw : Range(listener[h]) \in SUBSET Sensor
    BY <1>1, RangeOfSeq
  <1> QED BY <1>2 DEF summary, TypeOK

\* One more background sensor has been passed after a turn of the loop.
LEMMA PassedGrows ==
  ASSUME TypeOK, more, next' = next + 1, target' = target
  PROVE  passed' = passed \cup {Item} /\ passed \subseteq Hw
  <1>1. next \in 1 .. Len(Dep[target]) /\ Len(Dep[target]) \in Nat /\ target \in Sensor
    BY ItemType DEF TypeOK
  <1>2. 1 .. (next' - 1) = 1 .. (next - 1) \cup {next}
    BY <1>1
  <1>3. \A k \in 1 .. (next - 1) : Dep[target][k] \in Hw
    BY <1>1, DepType
  <1> QED BY <1>2, <1>3 DEF passed, Item

\* A driver call that cannot fail succeeds.
LEMMA SureEnable ==
  ASSUME TypeOK, NEW h \in Hw, NEW on \in BOOLEAN, NEW rc,
         DriverEnable(h, on, rc), h \notin Fallible
  PROVE  rc = 0 /\ mEnabled'[h] = on
  <1>1. \A f : ~fails(h, f)
    BY DEF fails, Fallible
  <1>2. mEnabled \in [Hw -> BOOLEAN]
    BY DEF TypeOK
  <1> QED BY <1>1, <1>2 DEF DriverEnable, EnableNoop, EnableStrict, EnableOptimistic

\* A driver call that fails found its driver off.
LEMMA FailedEnable ==
  ASSUME NEW h \in Hw, NEW rc, DriverEnable(h, TRUE, rc), rc # 0
  PROVE  mEnabled[h] # TRUE
  BY DEF DriverEnable, EnableNoop, EnableStrict, EnableOptimistic
-----------------------------------------------------------------------------
LEMMA CommandEntry ==
  ASSUME CInv, op = "idle", UNCHANGED <<listener, enable, device, before>>,
         op' \in {"enable", "disable", "sync"},
         target' \in Sensor, next' = 1, err' = 0, IInv'
  PROVE  CInv'
  <1>1. before = summary /\ summary' = summary
    BY DEF CInv, NothingSoFar, summary, device
  <1>2. passed' = {}
    <2>1. 1 .. (next' - 1) = {}
      OBVIOUS
    <2> QED BY <2>1 DEF passed
  <1>3. \A h \in Hw : users(h)' = before'.listeners[h]
    BY <1>1 DEF users, summary
  <1>4. enable' = before'.enable /\ mEnabled' = before'.mEnabled
    BY <1>1 DEF summary, device
  <1> QED BY <1>1, <1>2, <1>3, <1>4
       DEF CInv, BeforeType, NothingSoFar, EnabledSoFar, DisabledSoFar, NoErrorSoFar

LEMMA EnableItemSoFar ==
  ASSUME CInv, EnableItem, before' = before, IInv'
  PROVE  CInv'
  <1> DEFINE h == Item
  <1>1. /\ op = "enable" /\ more /\ TypeOK /\ BeliefSound /\ NoDuplicateListener
        /\ UNCHANGED <<enable, op, target>> /\ next' = next + 1
    BY DEF EnableItem, CInv, IInv
  <1>2. h \in Hw /\ target \in Sensor
    BY <1>1, ItemType DEF TypeOK
  <1>3. PICK rc \in {0, -1} :
          /\ DriverEnable(h, TRUE, rc)
          /\ err' = rc
          /\ listener' = IF rc = 0
               THEN [listener EXCEPT ![h] = registerListener(@, target)]
               ELSE listener
    BY DEF EnableItem
  <1>4. passed' = passed \cup {h} /\ passed \subseteq Hw
    BY <1>1, PassedGrows
  <1> HIDE DEF h
  <1>5. /\ mEnabled' = mEnabled \/ mEnabled' = [mEnabled EXCEPT ![h] = TRUE]
        /\ mEnabled \in [Hw -> BOOLEAN]
    BY <1>1, <1>2, <1>3, DriverEnableEffect DEF TypeOK
  <1>6. listener \in [Hw -> Seq(Sensor)] /\ IsInjective(listener[h])
    BY <1>1, <1>2 DEF TypeOK, NoDuplicateListener
  <1>7. Range(registerListener(listener[h], target)) = users(h) \cup {target}
    BY <1>2, <1>6, RegisterProperties DEF users
  <1>8. \A g \in Hw : users(g)' = IF g = h /\ rc = 0 THEN users(g) \cup {target}
                                                      ELSE users(g)
    BY <1>2, <1>3, <1>6, <1>7 DEF users
  <1>9. rc = -1 => h \in Fallible /\ target \notin users(h)
    <2> SUFFICES ASSUME rc = -1 PROVE h \in Fallible /\ target \notin users(h)
      OBVIOUS
    <2>1. h \in Fallible
      <3>1. h \notin Fallible => rc = 0
        BY <1>1, <1>2, <1>3, SureEnable
      <3> QED BY <3>1
    <2>2. mEnabled[h] # TRUE
      <3>1. rc # 0
        OBVIOUS
      <3> QED BY <1>2, <1>3, <3>1, FailedEnable, Zenon
    <2>3. listener[h] = << >>
      BY <1>2, <1>5, <2>2 DEF CInv, IInv, ListenedEnabled
    <2> QED BY <2>1, <2>3 DEF users, Range
  <1>10. EnabledSoFar
    BY DEF CInv
  <1>11. EnabledSoFar'
    <2>1. enable' = before'.enable
      BY <1>1, <1>10 DEF EnabledSoFar
    <2>2. ASSUME NEW g \in Hw
          PROVE  users(g)' = before.listeners[g]
                 \/ (g \in passed' /\ users(g)' = before.listeners[g] \cup {target})
      BY <1>1, <1>4, <1>8, <1>10 DEF EnabledSoFar
    <2>3. ASSUME NEW g \in Hw
          PROVE  mEnabled'[g] = before.mEnabled[g] \/ (g \in passed' /\ mEnabled'[g])
      <3>1. CASE g = h
        BY <1>1, <1>4, <1>5, <1>10, <3>1 DEF EnabledSoFar
      <3>2. CASE g # h
        <4>1. mEnabled'[g] = mEnabled[g]
          BY <1>5, <3>2
        <4> QED BY <1>1, <1>4, <1>10, <4>1 DEF EnabledSoFar
      <3> QED BY <3>1, <3>2
    <2>4. ASSUME NEW g \in passed' PROVE target \in users(g)' \/ g \in Fallible
      BY <1>1, <1>2, <1>3, <1>4, <1>8, <1>9, <1>10 DEF EnabledSoFar
    <2>5. err' = -1 => \E g \in passed' : target \notin users(g)'
      BY <1>2, <1>3, <1>4, <1>8, <1>9
    <2> QED BY <1>1, <2>1, <2>2, <2>3, <2>4, <2>5 DEF EnabledSoFar
  <1> QED BY <1>1, <1>11 DEF CInv, BeforeType, NothingSoFar, DisabledSoFar, NoErrorSoFar

LEMMA DisableItemSoFar ==
  ASSUME CInv, DisableItem, before' = before, IInv'
  PROVE  CInv'
  <1> DEFINE h == Item
             rest == unregisterListener(listener[h], target)
  <1>1. /\ op = "disable" /\ more /\ TypeOK
        /\ UNCHANGED <<op, target, err>> /\ next' = next + 1
    BY DEF DisableItem, CInv, IInv
  <1>2. h \in Hw /\ target \in Sensor
    BY <1>1, ItemType DEF TypeOK
  <1>3. /\ listener' = [listener EXCEPT ![h] = rest]
        /\ Range(rest) = users(h) \ {target}
        /\ rest \in Seq(Sensor)
    BY DisableItemLists DEF CInv, users
  <1>4. \/ mEnabled' = mEnabled
        \/ rest = << >> /\ mEnabled' = [mEnabled EXCEPT ![h] = FALSE]
    BY DisableItemDriver DEF CInv
  <1>5. rest = << >> /\ h \notin Fallible => ~mEnabled'[h]
    <2> SUFFICES ASSUME rest = << >>, h \notin Fallible PROVE ~mEnabled'[h]
      OBVIOUS
    <2>1. PICK rc \in {0, -1} : DriverEnable(h, FALSE, rc)
      BY DEF DisableItem
    <2> QED BY <1>1, <1>2, <2>1, SureEnable
  <1>6. \A s \in Sensor : s # target => enable'[s] = enable[s]
    BY DisableItemContext DEF CInv
  <1>7. passed' = passed \cup {h} /\ passed \subseteq Hw
    BY <1>1, PassedGrows
  <1> HIDE DEF h, rest
  <1>8. listener \in [Hw -> Seq(Sensor)] /\ mEnabled \in [Hw -> BOOLEAN]
    BY <1>1 DEF TypeOK
  <1>9. \A g \in Hw : users(g)' = IF g = h THEN users(g) \ {target} ELSE users(g)
    BY <1>2, <1>3, <1>8 DEF users
  <1>10. rest = << >> <=> Range(rest) = {}
    BY <1>3 DEF Range
  <1>11. DisabledSoFar
    BY DEF CInv
  <1>12. DisabledSoFar'
    <2>1. \A s \in Sensor : s # target => enable'[s] = before.enable[s]
      BY <1>1, <1>6, <1>11 DEF DisabledSoFar
    <2>2. ASSUME NEW g \in Hw
          PROVE  users(g)' = before.listeners[g] \ (IF g \in passed' THEN {target} ELSE {})
      <3>1. users(g) = before.listeners[g] \ (IF g \in passed THEN {target} ELSE {})
        BY <1>1, <1>11 DEF DisabledSoFar
      <3> QED BY <1>7, <1>9, <3>1
    <2>3. ASSUME NEW g \in Hw
          PROVE  mEnabled'[g] = before.mEnabled[g]
                 \/ (g \in passed' /\ ~mEnabled'[g] /\ users(g)' = {})
      <3>1. mEnabled[g] = before.mEnabled[g] \/ (g \in passed /\ ~mEnabled[g] /\ users(g) = {})
        BY <1>1, <1>11 DEF DisabledSoFar
      <3>2. CASE mEnabled'[g] = mEnabled[g]
        BY <1>7, <1>9, <3>1, <3>2
      <3>3. CASE mEnabled'[g] # mEnabled[g]
        <4>1. g = h /\ rest = << >> /\ ~mEnabled'[g]
          BY <1>2, <1>4, <1>8, <3>3
        <4> QED BY <1>3, <1>7, <1>9, <1>10, <4>1
      <3> QED BY <3>2, <3>3
    <2>4. ASSUME NEW g \in passed' \ Fallible, users(g)' = {}
          PROVE  ~mEnabled'[g]
      <3>1. CASE g = h
        BY <1>2, <1>3, <1>5, <1>9, <1>10, <2>4, <3>1
      <3>2. CASE g # h
        <4>1. g \in passed \ Fallible /\ users(g) = {}
          BY <1>7, <1>9, <2>4, <3>2
        <4>2. ~mEnabled[g]
          BY <1>1, <1>11, <4>1 DEF DisabledSoFar
        <4> QED BY <1>4, <1>7, <1>8, <3>2, <4>1, <4>2
      <3> QED BY <3>1, <3>2
    <2> QED BY <1>1, <2>1, <2>2, <2>3, <2>4 DEF DisabledSoFar
  <1> QED BY <1>1, <1>12 DEF CInv, BeforeType, NothingSoFar, EnabledSoFar, NoErrorSoFar

LEMMA SyncSoFar ==
  ASSUME CInv, SyncItem, before' = before, IInv'
  PROVE  CInv'
  <1>1. /\ op = "sync" /\ op' = "sync"
        /\ UNCHANGED <<listener, enable, mEnabled, err>>
    BY DEF SyncItem
  <1>2. summary' = summary
    BY <1>1 DEF summary
  <1> QED BY <1>1, <1>2
       DEF CInv, BeforeType, NothingSoFar, EnabledSoFar, DisabledSoFar, NoErrorSoFar

\* A return: what was found is forgotten.
LEMMA CommandExit ==
  ASSUME CInv, op' = "idle", before' = summary', IInv'
  PROVE  CInv'
  <1>1. BeforeType'
    <2>1. TypeOK'
      BY DEF IInv
    <2>2. summary' \in [enable : [Sensor -> BOOLEAN], mEnabled : [Hw -> BOOLEAN],
                        listeners : [Hw -> SUBSET Sensor]]
      <3>1. \A h \in Hw : listener'[h] \in Seq(Sensor)
        BY <2>1 DEF TypeOK
      <3>2. \A h \in Hw : Range(listener'[h]) \in SUBSET Sensor
        BY <3>1, RangeOfSeq
      <3> QED BY <2>1, <3>2 DEF summary, TypeOK
    <2> QED BY <2>2 DEF BeforeType
  <1> QED BY <1>1
       DEF CInv, NothingSoFar, EnabledSoFar, DisabledSoFar, NoErrorSoFar

LEMMA CInvNext == CInv /\ [CommandNext]_<<vars, before>> => CInv'
  <1> SUFFICES ASSUME CInv, [CommandNext]_<<vars, before>> PROVE CInv'
    OBVIOUS
  <1>1. IInv'
    <2>1. [Next]_vars
      BY DEF CommandNext
    <2> QED BY <2>1, InvNext DEF CInv
  <1>2. CASE UNCHANGED <<vars, before>>
    BY <1>1, <1>2 DEF vars, context, device, command, CInv, BeforeType, NothingSoFar,
       EnabledSoFar, DisabledSoFar, NoErrorSoFar, summary, users, passed
  <1>3. CASE Next /\ op' = "idle" /\ before' = summary'
    BY <1>1, <1>3, CommandExit
  <1>4. CASE Next /\ op' # "idle" /\ before' = before
    <2>1. ASSUME NEW s \in Sensor, NEW on \in BOOLEAN, Activate(s, on) PROVE CInv'
      BY <1>1, <1>4, <2>1, CommandEntry DEF Activate, context
    <2>2. ASSUME NEW s \in Sensor, NEW ns \in Periods, SetDelay(s, ns) PROVE CInv'
      BY <1>1, <1>4, <2>2, CommandEntry DEF SetDelay
    <2>3. CASE EnableItem
      BY <1>1, <1>4, <2>3, EnableItemSoFar
    <2>4. CASE DisableItem
      BY <1>1, <1>4, <2>4, DisableItemSoFar
    <2>5. CASE SyncItem
      BY <1>1, <1>4, <2>5, SyncSoFar
    <2>6. CASE ActivateReturn \/ SetDelayReturn
      BY <1>4, <2>6 DEF ActivateReturn, SetDelayReturn
    <2> QED BY <1>4, <2>1, <2>2, <2>3, <2>4, <2>5, <2>6 DEF Next
  <1> QED BY <1>2, <1>3, <1>4 DEF CommandNext

LEMMA CommandsInvariance == ManagerSpec => []CInv
  <1>1. CommandInit => CInv
    <2> SUFFICES ASSUME CommandInit PROVE CInv
      OBVIOUS
    <2>1. IInv /\ op = "idle" /\ before = summary
      BY InvInit DEF CommandInit, Init
    <2>2. TypeOK
      BY <2>1 DEF IInv
    <2> QED BY <2>1, <2>2, SummaryType DEF CInv, BeforeType, NothingSoFar,
           EnabledSoFar, DisabledSoFar, NoErrorSoFar
  <1> QED BY <1>1, CInvNext, PTL DEF ManagerSpec
-----------------------------------------------------------------------------
(* The return of a command.                                                *)

\* The walk has been through the whole of dep_list.
LEMMA AllPassed ==
  ASSUME TypeOK, ~more
  PROVE  passed = Range(Dep[target]) /\ passed \subseteq Hw
  <1>1. target \in Sensor /\ next - 1 = Len(Dep[target])
    BY DepType DEF TypeOK, more
  <1> QED BY <1>1, DepType DEF passed

LEMMA EnabledReturn ==
  ASSUME CInv, ActivateReturn, op = "enable", before' = summary'
  PROVE  Commands!Enabled(target, err)
  <1> DEFINE D == Range(Dep[target])
             ok == {h \in D : target \in users(h)}
             noted == {h \in D \cap Fallible : mEnabled[h]}
  <1>1. /\ TypeOK /\ ~more /\ target \in Sensor /\ err \in {0, -1}
        /\ mEnabled \in [Hw -> BOOLEAN] /\ listener \in [Hw -> Seq(Sensor)]
        /\ enable' = [enable EXCEPT ![target] = TRUE]
        /\ UNCHANGED <<listener, mEnabled>>
    BY DEF CInv, IInv, TypeOK, ActivateReturn, device
  <1>2. passed = D /\ D \subseteq Hw
    BY <1>1, AllPassed
  <1>3. /\ enable = before.enable
        /\ \A h \in Hw : users(h) = before.listeners[h]
                         \/ (h \in D /\ users(h) = before.listeners[h] \cup {target})
        /\ \A h \in Hw : mEnabled[h] = before.mEnabled[h] \/ (h \in D /\ mEnabled[h])
        /\ \A h \in D : target \in users(h) \/ h \in Fallible
        /\ err = -1 => \E h \in D : target \notin users(h)
    BY <1>2 DEF CInv, EnabledSoFar
  <1>4. \A h \in Hw : target \in users(h) => mEnabled[h]
    BY DEF CInv, IInv, ListenedEnabled, users, Range
  <1>5. /\ before'.enable = enable' /\ before'.mEnabled = mEnabled
        /\ before'.listeners = [h \in Hw |-> users(h)]
    BY <1>1 DEF summary, users
  <1>6. /\ before.mEnabled \in [Hw -> BOOLEAN]
        /\ before.listeners \in [Hw -> SUBSET Sensor]
    BY DEF CInv, BeforeType
  <1>7. Background[target] = D
    BY <1>1 DEF Background
  <1>8. ok \in SUBSET D /\ noted \in SUBSET (D \cap Fallible) /\ D \ Fallible \subseteq ok
    BY <1>3
  <1>9. err = 0 \/ (err = -1 /\ ok # D)
    BY <1>1, <1>3
  <1> HIDE DEF D
  <1>10. before'.listeners = [h \in Hw |-> IF h \in ok THEN before.listeners[h] \cup {target}
                                                       ELSE before.listeners[h]]
    <2>1. \A h \in Hw : users(h) = IF h \in ok THEN before.listeners[h] \cup {target}
                                                ELSE before.listeners[h]
      BY <1>3
    <2> QED BY <1>5, <2>1
  <1>11. before'.mEnabled = [h \in Hw |-> h \in ok \cup noted \/ before.mEnabled[h]]
    <2>1. ASSUME NEW h \in Hw
          PROVE  mEnabled[h] = (h \in ok \cup noted \/ before.mEnabled[h])
      <3>1. mEnabled[h] \in BOOLEAN /\ before.mEnabled[h] \in BOOLEAN
        BY <1>1, <1>6
      <3>2. CASE mEnabled[h]
        BY <1>3, <3>1, <3>2
      <3>3. CASE ~mEnabled[h]
        BY <1>3, <1>4, <3>1, <3>3
      <3> QED BY <3>1, <3>2, <3>3
    <2> QED BY <1>1, <1>5, <2>1
  <1> HIDE DEF ok, noted
  <1>12. before'.enable = [before.enable EXCEPT ![target] = TRUE]
    BY <1>1, <1>3, <1>5
  <1>13. /\ ok \in SUBSET Background[target]
         /\ noted \in SUBSET (Background[target] \cap Fallible)
         /\ Background[target] \ Fallible \subseteq ok
         /\ err = 0 \/ (err = -1 /\ ok # Background[target])
    BY <1>7, <1>8, <1>9
  <1> QED BY <1>10, <1>11, <1>12, <1>13 DEF Commands!Enabled

LEMMA DisabledReturn ==
  ASSUME CInv, ActivateReturn, op = "disable", before' = summary'
  PROVE  Commands!Disabled(target, err)
  <1> DEFINE D == Range(Dep[target])
             unused == {h \in D : before.listeners[h] \subseteq {target}}
             off == {h \in unused : ~mEnabled[h]}
  <1>1. /\ TypeOK /\ ~more /\ target \in Sensor
        /\ mEnabled \in [Hw -> BOOLEAN] /\ enable \in [Sensor -> BOOLEAN]
        /\ enable' = [enable EXCEPT ![target] = FALSE]
        /\ UNCHANGED <<listener, mEnabled>>
    BY DEF CInv, IInv, TypeOK, ActivateReturn, device
  <1>2. passed = D /\ D \subseteq Hw
    BY <1>1, AllPassed
  <1>3. /\ \A s \in Sensor : s # target => enable[s] = before.enable[s]
        /\ \A h \in Hw : users(h) = before.listeners[h] \ (IF h \in D THEN {target} ELSE {})
        /\ \A h \in Hw : mEnabled[h] = before.mEnabled[h]
                         \/ (h \in D /\ ~mEnabled[h] /\ users(h) = {})
        /\ \A h \in D \ Fallible : users(h) = {} => ~mEnabled[h]
        /\ err = 0
    BY <1>2 DEF CInv, DisabledSoFar, NoErrorSoFar
  <1>4. \A h \in Hw \ D : target \notin users(h)
    BY DEF CInv, IInv, ListensToDeps, users
  <1>5. /\ before'.enable = enable' /\ before'.mEnabled = mEnabled
        /\ before'.listeners = [h \in Hw |-> users(h)]
    BY <1>1 DEF summary, users
  <1>6. /\ before.mEnabled \in [Hw -> BOOLEAN] /\ before.enable \in [Sensor -> BOOLEAN]
        /\ before.listeners \in [Hw -> SUBSET Sensor]
    BY DEF CInv, BeforeType
  <1>7. Background[target] = D
    BY <1>1 DEF Background
  <1> HIDE DEF D
  <1>8. \A h \in D : h \in unused <=> users(h) = {}
    BY <1>2, <1>3
  <1>9. off \in SUBSET unused /\ unused \ Fallible \subseteq off
    BY <1>3, <1>8
  <1>10. before'.enable = [before.enable EXCEPT ![target] = FALSE]
    BY <1>1, <1>3, <1>5, <1>6
  <1>11. before'.listeners = [h \in Hw |-> before.listeners[h] \ {target}]
    <2>1. \A h \in Hw : users(h) = before.listeners[h] \ {target}
      BY <1>3, <1>4
    <2> QED BY <1>5, <2>1
  <1>12. before'.mEnabled = [h \in Hw |-> before.mEnabled[h] /\ h \notin off]
    <2>1. ASSUME NEW h \in Hw
          PROVE  mEnabled[h] = (before.mEnabled[h] /\ h \notin off)
      <3>1. mEnabled[h] \in BOOLEAN /\ before.mEnabled[h] \in BOOLEAN
        BY <1>1, <1>6
      <3>2. CASE mEnabled[h]
        BY <1>3, <3>1, <3>2
      <3>3. CASE ~mEnabled[h]
        BY <1>3, <1>8, <3>1, <3>3
      <3> QED BY <3>1, <3>2, <3>3
    <2> QED BY <1>1, <1>5, <2>1
  <1> HIDE DEF off
  <1> QED BY <1>3, <1>7, <1>9, <1>10, <1>11, <1>12 DEF Commands!Disabled, unused

\* Each command of the manager, from entry to return, is one step of what
\* the polling thread's model takes a command to be, its result included.
THEOREM CommandsRefined == ManagerSpec => CommandsCarried
  <1>1. CInv /\ [CommandNext]_<<vars, before>>
        => [op # "idle" /\ op' = "idle" => Commands!Carried(Type[op], target, err)]_<<vars, before>>
    <2> SUFFICES ASSUME CInv, CommandNext, op # "idle", op' = "idle"
                 PROVE  Commands!Carried(Type[op], target, err)
      OBVIOUS
    <2>1. before' = summary' /\ Next
      BY DEF CommandNext
    <2>2. CASE ActivateReturn /\ op = "enable"
      BY <2>1, <2>2, EnabledReturn DEF Commands!Carried, Type
    <2>3. CASE ActivateReturn /\ op = "disable"
      BY <2>1, <2>3, DisabledReturn DEF Commands!Carried, Type
    <2>4. CASE SetDelayReturn
      <3>1. before = summary /\ err = 0 /\ summary' = summary /\ op = "sync"
        BY <2>4 DEF SetDelayReturn, CInv, NothingSoFar, NoErrorSoFar, summary,
           context, device
      <3> QED BY <2>1, <3>1 DEF Commands!Carried, Type
    <2> QED BY <2>1, <2>2, <2>3, <2>4
         DEF Next, Activate, SetDelay, EnableItem, DisableItem, SyncItem, ActivateReturn
  <1> QED BY <1>1, CommandsInvariance, PTL DEF ManagerSpec, CommandsCarried
=============================================================================
