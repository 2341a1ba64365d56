# A verification project for the Nokia "fame" device tree

The repository is the Android device tree of the Nokia Lumia 520 ("fame").
Most of its 130 files are configuration: make files, init scripts, overlays,
audio and WiFi tables, security policy. The code with state of its own is the
**Sensors HAL** in `sensors/` and the **Lights HAL** in `liblights/`; the
repository has no tests. These modules describe what that code does, TLC checks
it on small instances, and TLAPS proves what matters most for every value of
the constants.

Line numbers below are of the files under the repository's root.

## 1. Inventory

### Components

| Component | Source | State it keeps | Operations |
|---|---|---|---|
| Input event reader | `sensors/InputEventReader.*` | `mBuffer` (2N slots), `mHead`, `mCurr`, `mFreeSpace` | `fill`, `readEvent`, `next` |
| Sensor manager | `sensors/NativeSensorManager.*` | `context[]`: `enable`, `delay_ns`, `dep_list`, `listener`, driver | `activate`, `setDelay`, `syncDelay`, `registerListener`, `unregisterListener`, `readEvents`, `hasPendingEvents`, `calibrate`, discovery (`getSensorListInner`, `getDataInfo`, `getNode`) |
| Polling thread | `sensors/sensors.cpp` | command pipe, `mPollFds[].revents` | `pollEvents`, `activate` and `setDelay` (write the pipe), `handleCommandPipe`, `calibrate`, open and close |
| Hardware drivers | `sensors/Accelerometer.cpp`, `Gyroscope.cpp`, `CompassSensor.cpp`, `LightSensor.cpp`, `ProximitySensor.cpp`, `SensorBase.cpp` | `mEnabled`, `mHasPendingEvent`, `mEnabledTime`, the reader, `input_sysfs_path` | `enable`, `setDelay`, `readEvents`, `calibrate`, `initCalibrate` |
| Virtual sensors | `sensors/VirtualSensor.*` | ring of 250 events, `mFreeSpace` | `readEvents`, `injectEvents`, `enable` |
| Calibration store | `sensors/sensors_XML.cpp` | two parameter files, the one under `/persist` and its copy under `/data` | `read_sensors_params`, `write_sensors_params`, `sensors_rm_file`, `sensors_calibrate_reset` |
| Calibration libraries | `sensors/CalibrationManager.*` | `algo_list`, `algo_count`, the open libraries | `loadCalLibs`, `getCalAlgo`, `check_algo`, the destructor |
| Calibration algorithms | `sensors/algo/common/*` | last samples, AK buffers | `convert_*`, `config_*` |
| Lights HAL | `liblights/lights.cpp` | `gVendorModule`, the vendor's device behind each light, two locks, the two backlight files | `open_lights`, `lights_device_close`, `lights_set_light_backlight`, `lights_set_light` (forwards) |
| Java and shell glue | `cmhw/`, `ril/`, `rootdir/` | none of their own | one sysfs access each; start-up of services |

### How they interact

The framework calls the HAL from its own threads. `activate()` and
`setDelay()` do nothing but write a command to a non-blocking pipe
(`sensors.cpp:161-211`); one thread of the framework sits in `pollEvents()`,
where it scans the sensors, polls the evdev descriptors and the pipe, and
carries out the commands by calling the manager (`sensors.cpp:213-318`). So the
manager and the drivers are called by that thread only, with two exceptions:
`calibrate()` is called on the caller's thread (`sensors.cpp:320-329`), and the
kernel fills the evdev queues at any time.

The manager maps a sensor to the hardware it stands on (`dep_list`) and tells
each hardware sensor who listens (`listener`). Reading a hardware sensor hands
its events to the virtual sensors registered with it and to the caller if it is
enabled itself (`NativeSensorManager.cpp:757-789`). A driver's error goes to the
caller the same way, and becomes 0 if the sensor is not enabled itself.

### What is hard

* Commands, frames and the scan interleave; what `poll()` reported is used after
  commands, errors and full buffers have intervened.
* Several virtual sensors and the hardware sensor's own user share one device:
  who may switch it off, and at what rate must it run?
* Every driver access may fail, and drivers notice in different ways (the
  proximity sensor notes the new state before it has reached the device).
* Room runs out: in the caller's buffer, the reader's ring, the virtual
  sensors' rings and the pipe.
* The reader's ring lets the kernel write past its end and copies back; a frame
  may be cut by the ring's end, by the caller's room or by a switch of the
  driver, and its first half is kept in `mPendingEvent` until the rest comes.
* The parameter file is rewritten in place, its copy is made and removed at
  other times, and the process may stop at any of these.
* Orientation and rotation pair samples of two sensors that arrive in any order.

PROJECT.json lists each hazard at its line, with the properties that watch it.

### What makes each component correct

* Reader: a bounded FIFO between the kernel and the driver.
* Drivers: each stamped reading of a device that is on becomes one event, in
  order, with its own values and its own time; never more events than asked for.
* Manager: hardware is on while somebody uses it and goes off when nobody does;
  no command makes it slower for somebody else, and a setDelay() makes it fast
  enough; no disabled sensor is registered.
* Discovery: contexts are numbered without a gap and stay within their array,
  every virtual sensor stands on the hardware it needs, and no two sensors that
  each have a node of their own name read the same one (two of a type that have
  none may share the node named for the type).
* Polling thread: never reads a descriptor that has nothing to read; never
  sleeps while a virtual or an initial event is deliverable; delivers nothing of
  a virtual sensor that was disabled, even after an error or a reopening; every
  command is handled; no sensor starves.
* Calibration store and libraries: what is restored is what was last stored;
  an algorithm that is offered is one whose library could be loaded.
* Lights: one request's writes are not mixed with another's; a failed open of a
  light the wrapper knows leaves nothing behind.

## 2. Plan

The order follows how much of the system depends on each part.

| Step | Modules | State |
|---|---|---|
| 1. Reader, and the FIFO it implements | `InputReader`, `EventFifo` | checked and proved |
| 2. Activation and rates, the use counting they implement, and the commands the polling thread takes them for | `SensorManager`, `SensorPower`, `ManagerCommands`, `SensorCommands` | checked and proved |
| 3. Polling thread, pipe, scan, reopening, liveness | `PollLoop` | checked; safety proved |
| 4. Calibration store with crashes, and the store it implements | `CalStore`, `ParamStore` | checked and proved |
| 5. Calibration libraries | `CalLibs` | checked and proved |
| 6. Discovery of the sensors | `Discovery` | checked and proved |
| 7. Lights HAL | `Lights` | checked and proved |
| 8. Compass calibration buffers | `CompassCal` | checked and proved |
| 9. Virtual sensors' ring and fusion | `VirtualRing`, `FusionQueue` | checked and proved |
| 10. One frame's event codes, stamps and early frames in each driver, and the feed of readings they implement | `DriverFrames`, `ReadingFeed` | checked and proved |
| 11. `calibrate()` on the caller's thread against the polling thread, on one path buffer | none | not modelled, see section 7 |
| 12. Proof that the drivers implement the feed (`FeedSpec`) | `DriverFramesProofs` | proved |

How they compose: `DriverFrames` extends `InputReader`, so that the ring is
checked under the drivers that use it. `PollLoop` carries out its commands by the
definitions of `SensorCommands`, and `ManagerCommands` shows that `SensorManager`
does no more than these. `Discovery` ends in what `SensorManager` and `PollLoop`
assume of the contexts.

## 3. The modules

Each component's module has the state as VARIABLES and one action for each
operation or, where a loop makes calls that may fail, for each turn of it. Names
are those of the code. The abstract specifications are instantiated by the
detailed ones (`INSTANCE ... WITH`), so that an implementation claim is a
property like any other. `MC*` modules give the constants their values and
nothing else; `*Proofs` modules hold the theorems. A definition that begins with
"Mutant" in its comment is not part of the model: it is how the definition below
it would look with a plausible bug, and is used to see that a property notices.

**InputReader** (`InputEventReader.cpp`). `mBuffer`, `mHead`, `mCurr` and
`mFreeSpace` are the class's members, pointers as offsets; `kernel` is the evdev
queue, to which the device adds a packet at a time. `FillSome` is one `fill()`
with its copy from behind the end to the front (`wrapped`), `FillError` and
`FillFull` its other exits, `Consume` is `next()` after a `readEvent()` that offered
something. `EventFifo` is a bounded queue between the kernel and the driver.

**DriverFrames** (`readEvents()`, `processEvent()`, `enable()` of the five drivers)
extends it. A device's reading (`Measure`) is a packet of the axes that changed, in
any order, mostly a stamp in two events, and `SYN_REPORT`. `BeginRead` is the call
with its `fill()`; `ReadAxis`, `ReadSec`, `ReadNsec` and `ReadReport` are the turns of its
loop by what the event is; `ReadAgain` is a driver's fetch loop
(`FETCH_FULL_EVENT_BEFORE_RETURN`), `EndRead` the return, `ReadInitial` the event
that `enable()` has left in `mHasPendingEvent`. The drivers differ in what they test,
count and reset (`reports`, `counts`, `Fetching`, `Starting`), not in their shape.
The histories `waiting`, `told` and `doubt` are the readings not yet seen, what the
driver knows of each axis, and how many readings an initial event has overtaken.
`ReadingFeed` is what comes out: due readings, once, in order, whole.

**SensorManager** (`NativeSensorManager.cpp:346-755`, the drivers' `enable()` and
`setDelay()`). A command is a walk over `dep_list`: `Activate`, then `EnableItem`
or `DisableItem` per background sensor, then `ActivateReturn`; likewise
`SetDelay`, `SyncItem`, `SetDelayReturn`. A step includes the driver's call, the
registration and `syncDelay()`, as in the body of the loop. `DriverEnable` has
the two kinds of driver: those that note the new state after the device has
been reached and `ProximitySensor`, which notes it before. `Flaky` and `Faults`
say whose accesses may fail, and which. `SensorPower` is use counting: a device
is switched off only when nobody uses it.

**ManagerCommands** adds to it what the command under way found when it began
(`before`), and states that from there to its return it has done one of the
commands of **SensorCommands**, which has no steps: it says what a command may
leave of `enable`, of the listeners and of `mEnabled`.

**PollLoop** (`sensors.cpp:116-318`, `NativeSensorManager::readEvents()`, the
drivers' `readEvents()`, `VirtualSensor`). The polling thread's program counter
follows `pollEvents()`: `Enter`, the scan (`Skip`, `ReadInitial`, `ReadHw`,
`ReadFails`, `Refetch`, `ReadVirtual`), `EndScan`, `Poll` or `PollError`,
`HandleCommand`. The errors are those of `poll()`, of a command, and of a driver's
first `fill()` in the middle of the scan (`ReadFails`: for an enabled sensor
`pollEvents()` is left, `revents` as it is, and the events this call had written are
lost to the framework; for another the 0 clears its `revents`). A `fill()` that
fails inside a fetch loop is tried again by the driver and is no step. Other
actors are the framework's threads (`Send`) and the kernel (`Produce`). `Reopen` is
closing and opening the sensors device: the pipe and `revents` are new, the
manager and the drivers are those of the process and keep what they hold. Frames
and events are counted. What a command does to the manager is `SensorCommands`.

**VirtualRing** (`VirtualSensor.cpp`, `common_wrapper.c:194-326`). The ring with
its pointers; the manager hands on one sample at a time, so injecting is one
action per kind of sample and per case (`InjectAcc`, `InjectMag`, `InjectFull`).
A result tells which samples it was made of. `FusionQueue` is a queue of such
results.

**CalStore** (`sensors_XML.cpp`, `calibrate()` and `initCalibrate()` of manager
and drivers). A file is whole, torn or absent, with what it says of each sensor.
A start restores sensor after sensor (`Boot`, `Restore`, `RestoreError`,
`RestoreDies`, `BootDone`); `calibrate()` is `Calibrate` (removes the copy), a
measurement and `Save`. Offsets are written to a device parameter by parameter, in
two halves each: the writes may stop at any of them (`partly`), and not every
failure is noticed (`ProximitySensor.cpp:438`, `Accelerometer.cpp:291`). `Crash` may
come at any step and leave the file or the device being written whole, in part or
as it was; `PowerCycle` empties the devices. `ParamStore` is one store. In a start
it gives a sensor the offsets stored for it or none (`Load`); at other times only a
calibration that has begun may change what a sensor uses, its own sensor only and
only if it is to apply its result, and what is stored, its own entry only and only
if it is to save it (`Begin`, `Measure`, `End`). Devices that fail (`Unsure`) may be
left with anything by a restore, their own only.

**CalLibs** (`CalibrationManager.cpp`). Which configuration there is, how far
each library gets and what its algorithms are compatible with is chosen in
`Init`. A configuration that can be opened and not read, or that fills the buffer,
has the zero behind it written outside the buffer (`CalibrationManager.cpp:86-90`,
`Misread`): nothing is known of what follows. Otherwise `loadCalLibs()`, `getCalAlgo()` and the destructor run, one turn of
their loops per step.

**Discovery** (`NativeSensorManager.cpp:149-184, 293-470, 520-626`). What
`/dev/input` and `/sys/class/sensors` hold is chosen in `Init`; the steps are
the turns of the loops that make contexts of it, with a `/dev/input` that cannot
be listed (`ScanFails`). The code never compares the number of contexts with the
size of their array, and reads every entry into the place behind the last context
before it knows whether it will keep it; where there is none (`needsContext`,
`Overrun`) the state is `stray`. It ends in what `SensorManager`
and `PollLoop` assume of their `Dep` (`BackgroundComplete`) and of the numbering
(`HandlesAgree`). `called` and `dataPath` are the search for an event node, `found` and
`background` the one for background sensors.

**Lights** (`lights.cpp`). Threads that open, set and close, with
`gLightWrapperLock` and `g_lock` as variables and each write of a backlight
request a step of its own. The second backlight file is `/dev/null` on this device
(`sony_lights.h:18`), so that of that write only the result matters to a user; the
code treats the two alike, and so does the module. An open without a name takes
the lock and returns, which changes nothing.

**CompassCal** (`common_wrapper.c:109-192`, `AKFS_AOC.c`, `AKFS_Device.c`,
`AKFS_VNorm.c`). One `convert_magnetic()` per step. What a place of a buffer
holds is kept, its number is not: whether a sphere fits, centres agree or the
field is too strong is chosen freely.

## 4. The runs

| Run | What it shows | Bounds, and why they are enough |
|---|---|---|
| `reader` | The ring is a FIFO under each of the five drivers; each stamped reading becomes one event with its own values and time | Ring of 2 (6 or 4 in the code), shorter than any frame, and 4 in the kernel: every frame is cut, and `fill()` wraps. Two axes for the accelerometer and one for the others; values -1 (no value to the proximity sensor) and 1; a clock of 0 and 1 with a second of 1 and `IGNORE_EVENT_TIME` of 1, so that frames are early or not and both halves of the stamp differ; room for 1, the hardest case. The proofs about ring, room and feed are for every size, clock and set of axes |
| `manager` | Use counting, registration, powering; rates right after a `setDelay()`, and that no command takes another's away; a command as a whole is what `PollLoop` takes it for | Accelerometer and magnetometer with orientation (on both) and the uncalibrated magnetometer (on one): two sensors share each device, three the second. Opens and period writes of the accelerometer may fail; the magnetometer has the driver that notes first. Periods of 1 and 2 ms (4 and 8 of the model's units), one `minDelay` of 0. A driver that notes first and also fails, lost writes and failing read-outs are covered by the proofs only |
| `manager_optimistic` | A disagreement, see below | One proximity sensor whose device may fail to open |
| `poll_safety` | No ring's event is slept on, stale or dropped, and nothing is read empty | Two devices and a virtual sensor on both; room for 2, readers of 2 frames, a ring of 4, exactly the least for which `NothingDropped` is proved; errors of `poll()`, of commands and of drivers in the middle of a scan, and reopening at any time between calls |
| `poll_live` | Commands and sensors do not starve | Room for 1, the hardest case: each scan ends at the first event. No reopening, which throws away the commands in the pipe, and no errors, which could come for ever |
| `cal_store` | The two files are one store and restore what was stored | Three sensors (one that returns all its offsets, one that keeps and measures one at a time and may fail, also half-way, one that cannot calibrate), two parameters of two values each; saves may fail and crashes come anywhere. A device of the first kind that fails is covered by the proofs only. The copy can be removed: if it cannot, `StoreSpec` is false |
| `cal_axis` | A disagreement, see below | One sensor like `ProximitySensor` |
| `cal_libs` | The list, the choice and the unloading | Every configuration of up to three of three libraries (with 2, 1 and no algorithms), one that names a library twice, none, and one that cannot be read; each library stopping at any of five stages; three sensors, two of a type |
| `discovery` | Contexts are what the others take them for | Every directory of up to three of seven entries, two of them usable ones of one type, every order of up to three event nodes, every single algorithm missing. An array of nine (20 in the code): three usable entries and the six virtual sensors just fit, which a fourth entry that is passed over must not change; four usable entries go beyond it in the last virtual sensor, ten by hardware alone |
| `lights` | Of the lights the wrapper knows nothing is left open; a request that succeeds is what is shown | Two threads, two devices, three names, four colours around the minimum, every failure |
| `compass` | No initial value is used; the highest accuracy is earned | The buffer sizes of the code (20, 4, 8), 40 samples: the buffers fill, are halved by fits and fill again |
| `virtual_ring` | Results once, in order, fused of the newest | A ring of 3 (250 in the code), 9 samples: more than two turns, with overflow |

Deadlock is checked except where the model ends by its nature: a bound on
samples (`compass`, `virtual_ring`), a start that is over (`discovery`) and a
manager that has been destroyed (`cal_libs`).

### Fairness

Only `poll_live` needs any. `Fairness` is weak fairness of the polling thread:
the framework's thread does nothing but call `pollEvents()` again, and inside it
every step is taken as soon as it can be. Nothing obliges the framework to send
commands. `Streaming` adds what the environment does in the case looked at: the
devices keep posting frames, and of the frames that meet a driver's fetch loop
not all are early (they are for `IGNORE_EVENT_TIME` after an enable only, while
the loop retries for as long as it takes). So the run asks whether a steady
stream can hold up a command or another sensor; it cannot, because `pollEvents()`
returns when the buffer is full, the next scan clears one `revents` after the
other, and the pipe is looked at before the frames once a scan leaves room.

## 5. What is proved

The theorems hold for all values of the constants that satisfy the modules'
assumptions (sizes are natural numbers, contexts refer to existing sensors, the
special values are not ordinary ones), and so for any number of sensors, any
dependency lists and any combination of faults. Two assumptions say more of the
code: `ABS_DISTANCE` is the proximity sensor's only axis (`ProximitySensor.cpp`
looks at no other), and `IGNORE_EVENT_TIME`, 10000000 or 350000000, is not 0.

* **DriverFramesProofs**: `TypeCorrect`, `PointersCorrect`, `Refinement`, `RoomKept`,
  `NothingUnwritten`, `ReaderUsed`, `FramesFifo`. Of the reader alone the invariant is
  the types with `PointersAgree`, which is inductive. It makes the slots that
  `fill()` overwrites disjoint from those on offer (`WrappedSlots`, `FillAppends`), and
  `next()` takes the head (`ConsumeTakesHead`). A driver's step does to the ring a
  reader's step or nothing (`ReaderStep`, `ReaderUsed`), so the FIFO holds under any
  driver (`FramesFifo`). What is on offer was posted (`OnlyPosted`: no slot is read
  that nothing was written to), so it is an event whose value the driver's members
  can take, and `Room` bounds the events written with what is left of the room,
  although early frames take room without filling it.
* **DriverFramesProofs**, of the feed: `FeedRefined`. Every driver implements
  `ReadingFeed`, however its frames are cut by the ring's end, by the room of the
  call or by an enable between two calls. What the feed still owes lies in the
  `line`, the events on offer and in the kernel, which the driver has not looked
  at; so the invariant says what it will make of them. It has two witnesses
  (`Explained`). One counts the frames along the line: each begins with an axis and
  ends in `SYN_REPORT`, and a stamp's halves come right before that, one after the
  other (`Counted`, `Framed`). The other is what the driver will know of the axes
  after each event (`Follows`): at a `SYN_REPORT` it equals the reading that was
  posted (`Matched`), except where the feed itself is in doubt, and it ends in what
  the device shows (`Ends`). Taking an event shifts both witnesses
  (`ShiftExplains`), a posted frame extends them (`ExtendExplains`), and an enable
  or an initial event starts them afresh or puts the axes in doubt
  (`RestartExplains`, `DoubtExplains`). Beside it stand what the driver has read of
  a stamp (`Decoded`), that no time is later than the clock (`Dated`), that a stamp which
  the accelerometer has kept is older than `mEnabledTime`, so that a frame without
  a stamp of its own counts as early (`Outdated`), and that an initial event is given
  before anything is read (`Starts`). `Outdated` is where `IGNORE_EVENT_TIME` must not be 0; and the one axis of
  the proximity sensor is needed because it passes a value of -1 over, which in a
  frame of two axes would leave a reading half old.
* **SensorManagerProofs**: `TypeCorrect`, `NeverTwiceRegistered`,
  `RegistrationCorrect`, `PowerCorrect`, `PowerRefinement`, `RatesKept`,
  `DelaysApplied`, `CommandsRefined`. In the middle of a command the plain properties
  do not carry themselves: the invariant adds that listeners are registered with
  their own background sensors only, that a listened-to driver believes it is
  enabled, that a careful driver's belief is never wrong about "off", and which
  listeners the command under way has left behind so far. `DelaysApplied` adds that
  the background sensors the walk has passed are synchronised (`SyncedSoFar`); it is
  about the state right after a `setDelay()`, since an `activate()` that enables a
  sensor syncs no period.
  `CommandsRefined` compares with the state at the command's beginning: what the
  turns so far have changed, for each kind of command (`NothingSoFar`, `EnabledSoFar`,
  `DisabledSoFar`), and that an error is that of the last turn (`NoErrorSoFar`).
* **PollLoopProofs**: `TypeCorrect`, `NeverReadsEmpty`, `NeverSleepsOnEvents`,
  `NeverStale`, `RingsSuffice`. `NeverReadsEmpty` holds over every way out of the scan:
  a sensor's `revents` is cleared by the same step that may empty its queue, and a
  driver that fails before it has read anything leaves both (or, disabled, has its
  `revents` cleared for nothing). The invariant adds `ScannedDry`: the sensors the
  scan has passed are drained. A virtual sensor comes after its background
  sensors in the list, which is why one scan is enough. `RingsSuffice` assumes
  that the ring holds what all readers together can (`MaxEvents >= NumHw *
  Frames`; 250 against 5 * 6 in the code).
* **CalStoreProofs**: `TypeCorrect`, `NeverBehind`, `Refinement`, `ExactlyRestored`. The
  invariant adds that the copy is gone while a calibration is under way, and for
  the last theorem what the start has restored so far (`RestoredSoFar`). `Refinement`
  rests on `NeverBehind`: a start reads the copy, and `ParamStore` lets it give a
  sensor what is stored. So it needs the assumption that the copy can be removed
  (`"remove" \notin Faults`): if it cannot, an old copy is restored in place of what
  was stored since, because the code does not look at the result
  (`NativeSensorManager.cpp:816`), and TLC finds the specification violated.
* **DiscoveryProofs**: `TypeCorrect`, `ArraySuffices`, `HandlesCorrect`,
  `BackgroundsCorrect`, `PathsCorrect`. `ArraySuffices` counts: there are as many
  contexts as usable entries were passed, and then at most one more for each
  virtual sensor tried (`Room`), so that the array is left only if it is too small for
  all of them; nothing is assumed of the directory. A virtual sensor is admitted by the flags and finds its background
  by the map, and the two are kept apart; the invariant ties them
  (`MapFindsHardware`: the map has a hardware context for the accelerometer and the
  magnetometer whenever there is one). It lasts because virtual sensors, which are
  entered in the same map, are listed under other types. So what
  `SensorManager` and `PollLoop` assume of the dependency lists is what discovery
  provides.
* **LightsProofs**: `TypeCorrect`, `NothingLeftOpen`, which is about the lights the
  wrapper knows, and `SuccessIsShown`. Each lock has one
  holder, the thread whose program counter is inside (`Holders`); of each name the
  vendor has as many devices open as are handed out or about to be (`Balanced`); and
  a request that has not failed so far finds in the files what it wrote (`WriteInv`).
* **CalibrationProofs**, of the libraries (`CalLibs`): `TypeCorrect`, `ListCorrect`,
  `ReadsCorrect`, `ClosedCorrect`, `MatchCorrect`. The list is sized by one pass and
  filled by another: `Sums` gives, for every place of the configuration, what had
  been counted when it was passed, and bounds what has been entered by it
  (`Sized`), with equality if no list was missing. Every entry comes from a place of
  the configuration, and the places never fall along the list (`Placed`): so the
  destructor, which compares neighbours, meets all the entries of one place
  together, and a library is still open as often as places of it are to come
  (`Closing`); if no name occurs twice it is open exactly until its place is
  passed. `Scanned` says what the search has found so far.
* **CalibrationProofs**, of the compass buffers (`CompassCal`): `BuffersCorrect`,
  `OnlySamples`, `HighCorrect`. The invariant counts the samples that the centres
  seen so far must have taken.
* **VirtualRingProofs**: `TypeCorrect`, `Refinement`, `FusionCorrect`. The pointers
  differ by the count up to a turn, so a new result goes into a slot in which
  nothing waits (`FreshSlot`, `InjectAppends`); and while nothing was lost the
  algorithm holds the newest sample (`NewestNoted`), which later samples do not
  change for results already made (`OlderKept`).

Proved and in no run: `NeverTwiceRegistered`, `PointersCorrect`, `NothingUnwritten`.
Only model-checked: the two liveness properties (`CommandsHandled`, `NoSensorStarves`):
the prover at hand handles neither fairness nor ENABLED.

## 6. Disagreements between code and text

Two are runs, in which the property states the text and the model checker shows
how the code departs from it.

* `manager_optimistic`: `ProximitySensor::enable()` notes the new state
  (`ProximitySensor.cpp:172`) before it has opened the device. After a failed
  open a second enable finds nothing to do, returns 0, and a listener is
  registered with a device that is off, against "Enable the background sensor and
  register a listener on it" (`NativeSensorManager.cpp:648`).
* `cal_axis`: calibrating one parameter of the proximity sensor stores the
  driver's memory of the others (`ProximitySensor.cpp:398`), which is 0 after
  every start because `initCalibrate()` does not fill it: their stored values are
  lost, against "The axis to calibrate" (`sensors_extension.h:109`).

Others were met while modelling. The models do what the code does; no run is
about them:

* `lights.cpp:289`: a light that the vendor opens and the wrapper does not know is
  refused without closing the vendor's device or freeing its own.
* `CalibrationManager.cpp:86`: `len` is a `size_t`, so that "len > 0" holds of a
  failed `read()`; and a file that fills the buffer has its zero put behind it.
* `NativeSensorManager.cpp:596`: the number of contexts is never compared with
  `MAX_SENSORS`, by which 316 and 356 bound the event nodes.
* `sensors.cpp:228`: an error of a driver leaves `pollEvents()` with the events of
  other sensors already written; they are lost.
* `NativeSensorManager.cpp:697-708`: "Fix it to minDelay" stores microseconds as
  nanoseconds (741 says they are microseconds), and the head of the list was read
  before; the device may be given a period of 0 ms.
* `sensors.cpp:230`: `revents` is cleared although frames the room had no place for
  are left in the driver's reader, and the next call sleeps on them until the
  device posts again; 222 speaks of a "leftover from the last poll()", 241 of waiting
  only "if we don't have anything to return".
* `Accelerometer.cpp:262`: "see if we can fill and try again" (259) goes round on
  -EAGAIN too, until the device posts again.
* `sensors_XML.cpp:139`: the result of saving is not looked at, so that
  `calibrate()` returns 0 for a file that was not written;
  `sensors_extension.h:133` says "return -1 on error".
* `CalibrationManager.cpp:140-159`: a library that is counted and then fails to
  give its list leaves entries of `algo_list` unwritten, which `dump()` and
  `getCalAlgo()` follow (the state `stray`).
* `NativeSensorManager.cpp:402`: a pressure sensor is supported
  (`sensors.h:92`) but gets no driver, and a start with stored parameters follows
  the null pointer (the state `dead`).
* `ProximitySensor.cpp:238` drops a value of -1 ("FIXME"), while the initial value
  read by `EVIOCGABS` (203) is reported whatever it is.
* `CompassSensor.cpp:197` takes every `EV_SYN` code that is not a stamp for the end of
  a frame, where the accelerometer tests for `SYN_REPORT`.
* `sensors.cpp:254`: when a command returns an error, `pollEvents()` returns it in
  place of `nbEvents`; events already written to the caller's buffer are lost.

## 7. What is not modelled

* Numbers: the conversion of raw values, the geometry of orientation and
  calibration. Timestamps are, as far as frames are kept apart by them.
* Events that the kernel throws away (`SYN_DROPPED`), frames with codes the driver
  does not know, and the debug properties that loop events back.
* The legacy constructors' choice among the names of an `enable` node: a driver has
  a node or has none.
* `calibrate()` on the caller's thread while the polling thread uses the same
  driver's path buffer (`Accelerometer.cpp:286`), and two calls at a time. Nothing in
  the repository says that it may be called at such a time or that it may not, so
  there is no promise to hold the code to; a model would only show the path that
  one wrote being opened by the other. The hazard is listed. `CalStore` takes the
  calls one at a time.
* `sensors_calibrate_reset()` (nothing calls it), lookups by handle and type
  (functions of the contexts).
* The calibration configuration's text and the number of names in it; attribute names, the XML
  library, path strings.
* `cmhw/` (one sysfs access per call, no state), `ril/NokiaRIL.java` (overrides a
  class outside the repository), shell scripts and init files (start services
  outside the repository), and all configuration data.
