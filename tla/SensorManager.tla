--------------------------- MODULE SensorManager ---------------------------
(***************************************************************************)
(* NativeSensorManager: how activate() and setDelay() share the hardware   *)
(* sensors between their own users and the virtual sensors built on them.  *)
(*                                                                         *)
(* Every context has a list of background sensors (dep_list, only itself   *)
(* for a hardware sensor) and every hardware context the list of those     *)
(* registered with it (listener).  Commands are carried out one after the  *)
(* other on the thread that polls; each step below is one turn of the loop *)
(* over dep_list, driver calls and registration included.  A driver call   *)
(* may fail in the ways Faults allows.  The drivers' event state is not    *)
(* part of this module.                                                    *)
(***************************************************************************)
EXTENDS Integers, Sequences, Functions

CONSTANTS
  Hw, Virtual,  \* hardware and virtual sensor contexts
  Dep,          \* dep_list of every context, in list order
  Optimistic,   \* hardware whose driver is ProximitySensor, which notes the
                \* new state before it has reached the device
  MinDelay,     \* sensor_t.minDelay of every context, in microseconds
  NsPerUs,      \* 1000
  NsPerMs,      \* 1000000
  Periods,      \* the periods the framework asks for, in nanoseconds
  Flaky,        \* hardware whose accesses may fail
  Faults        \* and which of them

Sensor == Hw \cup Virtual

Fault == {"open",   \* open() of the enable node
          "write",  \* write() to it, whose result nobody looks at
          "ioctl",  \* ProximitySensor's read-out after it was switched on
          "delay"}  \* the poll_delay node

ASSUME DepAssumption ==
  /\ Hw \cap Virtual = {}
  /\ Dep \in [Sensor -> Seq(Hw)]
  /\ \A h \in Hw : Dep[h] = <<h>>

ASSUME DriverAssumption ==
  Optimistic \subseteq Hw /\ Flaky \subseteq Hw /\ Faults \subseteq Fault

ASSUME DelayAssumption ==
  /\ MinDelay \in [Sensor -> Nat]
  /\ NsPerUs \in Nat \ {0} /\ NsPerMs \in Nat \ {0}
  /\ Periods \subseteq Nat

VARIABLES
  listener,     \* who is registered with each hardware context, list order
  enable,       \* SensorContext.enable
  delay,        \* SensorContext.delay_ns, 0 before the first setDelay()
  mEnabled,     \* what each driver believes
  power,        \* the device: "on", "off", or "unknown" after a lost write
  pollDelay,    \* the last value written to poll_delay in ms, or Unset
  op,           \* "idle" or the command under way
  target,       \* the context it is for
  next,         \* the position in dep_list it has reached
  err           \* activate()'s err, its return value once idle again

context == <<listener, enable, delay>>
device == <<mEnabled, power, pollDelay>>
command == <<op, target, next, err>>
vars == <<context, device, command>>

Unset == -1

Item == Dep[target][next]
more == next <= Len(Dep[target])

-----------------------------------------------------------------------------
(* The drivers' enable(handle, on): its return value is rc.                *)

fails(h, fault) == h \in Flaky /\ fault \in Faults

\* The device after a write of the enable node that may be lost unnoticed.
written(h, on) ==
  {IF on THEN "on" ELSE "off"}
    \cup (IF fails(h, "write") THEN {"unknown"} ELSE {})

\* Already in the wanted state: nothing is touched.
EnableNoop(h, on, rc) ==
  /\ mEnabled[h] = on
  /\ rc = 0
  /\ UNCHANGED <<mEnabled, power>>

\* AccelSensor, GyroSensor, CompassSensor, LightSensor.
EnableStrict(h, on, rc) ==
  /\ h \notin Optimistic
  /\ mEnabled[h] # on
  /\ \/ /\ rc = 0
        /\ mEnabled' = [mEnabled EXCEPT ![h] = on]
        /\ \E p \in written(h, on) : power' = [power EXCEPT ![h] = p]
     \/ /\ fails(h, "open")
        /\ rc = -1
        /\ UNCHANGED <<mEnabled, power>>

\* ProximitySensor: mEnabled first, then the device, then a first reading.
EnableOptimistic(h, on, rc) ==
  /\ h \in Optimistic
  /\ mEnabled[h] # on
  /\ mEnabled' = [mEnabled EXCEPT ![h] = on]
  /\ \/ /\ \E p \in written(h, on) : power' = [power EXCEPT ![h] = p]
        /\ rc = 0 \/ (on /\ fails(h, "ioctl") /\ rc = -1)
     \/ /\ fails(h, "open")
        /\ rc = -1
        /\ UNCHANGED power

DriverEnable(h, on, rc) ==
  \/ EnableNoop(h, on, rc)
  \/ EnableStrict(h, on, rc)
  \/ EnableOptimistic(h, on, rc)

\* The drivers' setDelay(): whole milliseconds; every caller drops its result.
DriverSetDelay(h, ns) ==
  \/ pollDelay' = [pollDelay EXCEPT ![h] = ns \div NsPerMs]
  \/ fails(h, "delay") /\ UNCHANGED pollDelay

-----------------------------------------------------------------------------
(* registerListener(), unregisterListener() on one listener list           *)

\* Mutant: the search for an existing entry is left out.
registerListener_twice(list, s) == Append(list, s)

registerListener(list, s) ==
  IF s \in Range(list) THEN list ELSE Append(list, s)

\* The list without its k-th entry.
dropAt(list, k) ==
  [i \in 1 .. (Len(list) - 1) |-> IF i < k THEN list[i] ELSE list[i + 1]]

\* Only the first entry of s is removed.
unregisterListener(list, s) ==
  IF s \in Range(list)
    THEN dropAt(list, CHOOSE k \in DOMAIN list :
                        list[k] = s /\ \A j \in 1 .. (k - 1) : list[j] # s)
    ELSE list

-----------------------------------------------------------------------------
(* syncDelay()                                                             *)

Least(S) == CHOOSE m \in S : \A x \in S : m <= x

\* "Fix it to minDelay": a listener without a delay gets its minDelay, which
\* is in microseconds, stored as nanoseconds.
fixedDelay(list) ==
  [s \in Sensor |-> IF s \in Range(list) /\ delay[s] = 0
                      THEN MinDelay[s] ELSE delay[s]]

\* Mutant: only the head of the list counts.
periodsOf_headOnly(h, list, en) ==
  (IF list = << >> THEN {delay[h]} ELSE {delay[list[1]]})
    \cup (IF en[h] /\ fixedDelay(list)[h] # 0 THEN {fixedDelay(list)[h]} ELSE {})

\* The periods the minimum is taken of: the head's, read before the fix-up,
\* every listener's, and the context's own if it is set and enabled.
periodsOf(h, list, en) ==
  (IF list = << >>
     THEN {delay[h]}
     ELSE {delay[list[1]]} \cup {fixedDelay(list)[s] : s \in Range(list)})
    \cup (IF en[h] /\ fixedDelay(list)[h] # 0 THEN {fixedDelay(list)[h]} ELSE {})

SyncDelay(h, list, en) ==
  /\ delay' = fixedDelay(list)
  /\ DriverSetDelay(h, Least(periodsOf(h, list, en)))

-----------------------------------------------------------------------------
Booted(h) ==
  IF h \in Optimistic
    THEN {<<FALSE, "off">>}
    ELSE {<<TRUE, p>> : p \in written(h, TRUE)}
           \cup (IF fails(h, "open") THEN {<<FALSE, "off">>} ELSE {})

\* Every driver but ProximitySensor switches its device on when constructed.
Init ==
  /\ listener = [h \in Hw |-> << >>]
  /\ enable = [s \in Sensor |-> FALSE]
  /\ delay = [s \in Sensor |-> 0]
  /\ mEnabled \in [Hw -> BOOLEAN]
  /\ power \in [Hw -> {"on", "off", "unknown"}]
  /\ \A h \in Hw : <<mEnabled[h], power[h]>> \in Booted(h)
  /\ pollDelay = [h \in Hw |-> Unset]
  /\ op = "idle" /\ target \in Sensor /\ next = 1 /\ err = 0

\* Mutant: the walk over dep_list starts where the last command's ended.
Activate_keepNext(s, on) ==
  /\ op = "idle"
  /\ op' = IF on THEN "enable" ELSE "disable"
  /\ target' = s /\ next' = next /\ err' = 0
  /\ UNCHANGED <<context, device>>

\* activate(handle, on) is entered.
Activate(s, on) ==
  /\ op = "idle"
  /\ op' = IF on THEN "enable" ELSE "disable"
  /\ target' = s /\ next' = 1 /\ err' = 0
  /\ UNCHANGED <<context, device>>

\* One background sensor is enabled and, if that worked, listened to.
EnableItem ==
  /\ op = "enable" /\ more
  /\ \E rc \in {0, -1} :
       /\ DriverEnable(Item, TRUE, rc)
       /\ err' = rc
       /\ listener' = IF rc = 0
            THEN [listener EXCEPT ![Item] = registerListener(@, target)]
            ELSE listener
  /\ next' = next + 1
  /\ UNCHANGED <<enable, delay, pollDelay, op, target>>

\* Mutant: the driver is disabled although others still listen.
DisableItem_always ==
  LET rest == unregisterListener(listener[Item], target) IN
  /\ op = "disable" /\ more
  /\ listener' = [listener EXCEPT ![Item] = rest]
  /\ enable' = enable
  /\ UNCHANGED <<delay, pollDelay>>
  /\ \E rc \in {0, -1} : DriverEnable(Item, FALSE, rc)
  /\ next' = next + 1
  /\ UNCHANGED <<op, target, err>>

\* One background sensor is released: the rate of those left is recomputed,
\* and without any left the driver is disabled, whatever it returns.
DisableItem ==
  LET rest == unregisterListener(listener[Item], target) IN
  /\ op = "disable" /\ more
  /\ IF listener[Item] # << >>
       THEN /\ listener' = [listener EXCEPT ![Item] = rest]
            /\ enable' = IF Item = target THEN [enable EXCEPT ![Item] = FALSE]
                                          ELSE enable
            /\ SyncDelay(Item, rest, enable')
       ELSE UNCHANGED <<listener, enable, delay, pollDelay>>
  /\ IF rest = << >>
       THEN \E rc \in {0, -1} : DriverEnable(Item, FALSE, rc)
       ELSE UNCHANGED <<mEnabled, power>>
  /\ next' = next + 1
  /\ UNCHANGED <<op, target, err>>

\* Mutant: the flag is left alone.
ActivateReturn_noFlag ==
  /\ op \in {"enable", "disable"} /\ ~more
  /\ op' = "idle"
  /\ UNCHANGED <<context, device, target, next, err>>

\* activate() returns the err of the last background sensor; enable is set
\* even if it failed.
ActivateReturn ==
  /\ op \in {"enable", "disable"} /\ ~more
  /\ enable' = [enable EXCEPT ![target] = (op = "enable")]
  /\ op' = "idle"
  /\ UNCHANGED <<listener, delay, device, target, next, err>>

\* setDelay(handle, ns) stores the clamped period ...
clamped(s, ns) ==
  LET floor == MinDelay[s] * NsPerUs
      d == IF ns < floor THEN floor ELSE ns
  IN  IF d = 0 THEN NsPerMs ELSE d

SetDelay(s, ns) ==
  /\ op = "idle"
  /\ delay' = [delay EXCEPT ![s] = clamped(s, ns)]
  /\ op' = "sync" /\ target' = s /\ next' = 1 /\ err' = 0
  /\ UNCHANGED <<listener, enable, device>>

\* ... and syncs every background sensor with it.
SyncItem ==
  /\ op = "sync" /\ more
  /\ SyncDelay(Item, listener[Item], enable)
  /\ next' = next + 1
  /\ UNCHANGED <<listener, enable, mEnabled, power, op, target, err>>

SetDelayReturn ==
  /\ op = "sync" /\ ~more
  /\ op' = "idle"
  /\ UNCHANGED <<context, device, target, next, err>>

Next ==
  \/ \E s \in Sensor : \E on \in BOOLEAN : Activate(s, on)
  \/ \E s \in Sensor : \E ns \in Periods : SetDelay(s, ns)
  \/ EnableItem \/ DisableItem \/ ActivateReturn
  \/ SyncItem \/ SetDelayReturn

Spec == Init /\ [][Next]_vars

-----------------------------------------------------------------------------
TypeOK ==
  /\ listener \in [Hw -> Seq(Sensor)]
  /\ enable \in [Sensor -> BOOLEAN]
  /\ delay \in [Sensor -> Nat]
  /\ mEnabled \in [Hw -> BOOLEAN]
  /\ power \in [Hw -> {"on", "off", "unknown"}]
  /\ pollDelay \in [Hw -> Nat \cup {Unset}]
  /\ op \in {"idle", "enable", "disable", "sync"}
  /\ target \in Sensor
  /\ next \in 1 .. (Len(Dep[target]) + 1)
  /\ err \in {0, -1}

\* Nobody is listed twice, so one disable takes a sensor off the list for
\* good (NativeSensorManager.cpp:483-489 against 507-514).
NoDuplicateListener ==
  \A h \in Hw : IsInjective(listener[h])

\* Between commands, whoever is still registered with a hardware sensor is
\* enabled: no disabled sensor keeps its background sensors running or is
\* sent their events (NativeSensorManager.cpp:653-673).
OnlyEnabledListen ==
  op = "idle" => \A h \in Hw : \A s \in Range(listener[h]) : enable[s]

\* A hardware sensor of a driver that waits for its device is powered while
\* anybody is registered with it, unless a write was lost unnoticed.
ListenersPowered ==
  \A h \in Hw \ Optimistic : listener[h] # << >> => power[h] # "off"

\* The device runs at least as fast as s asked.
Serves(h, s) == pollDelay[h] # Unset /\ pollDelay[h] * NsPerMs <= delay[s]

\* Once setDelay() has been through dep_list, each background sensor that
\* lists the sensor is as fast as it asked (NativeSensorManager.cpp:749-752).
\* It is about that moment only: an activate() that enables syncs no period,
\* and the sensor it registers gets whatever period the device has.
DelayApplied ==
  (op = "sync" /\ ~more) =>
    \A h \in Range(Dep[target]) :
      (~fails(h, "delay") /\ target \in Range(listener[h])) => Serves(h, target)

\* No command slows a hardware sensor below what another sensor, registered
\* before and after with the same period, was already getting: neither a
\* slower setDelay() nor a faster listener's leaving (syncDelay, 678-721).
RateKept ==
  [][\A h \in Hw : \A s \in Range(listener[h]) \cap Range(listener'[h]) :
       (Serves(h, s) /\ delay'[s] = delay[s]) => Serves(h, s)']_vars

Power == INSTANCE SensorPower
  WITH User <- Sensor, on <- mEnabled,
       users <- [h \in Hw |-> Range(listener[h])]

\* The manager implements use counting: a driver is only disabled when no
\* sensor is registered with its context any more.
PowerSpec == Power!Spec

\* What "Enable the background sensor and register a listener on it" says of
\* every driver (NativeSensorManager.cpp:648, 472-476): with nothing but
\* open() failing, a listener is only registered with a device that is on.
RegisteredMeansOn ==
  Faults \subseteq {"open"} => \A h \in Hw : listener[h] # << >> => power[h] = "on"
=============================================================================
