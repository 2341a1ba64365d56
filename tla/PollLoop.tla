------------------------------ MODULE PollLoop ------------------------------
(***************************************************************************)
(* sensors_poll_context_t: the one thread that reads the sensors and also  *)
(* carries out the framework's commands, which reach it through a pipe.    *)
(*                                                                         *)
(* Framework threads write commands to the pipe (activate, setDelay), the  *)
(* kernel queues frames on the evdev nodes, and the polling thread, inside *)
(* pollEvents(), goes round: scan every sensor, poll() the descriptors,    *)
(* handle one command.  Sensors are numbered as in the sensor list, the    *)
(* virtual ones after the hardware (getDataInfo).  Events are counted, not *)
(* told apart: a frame is what makes one sensors_event_t.  What a command  *)
(* does to the manager is what SensorCommands says; SensorManager has the  *)
(* detail.                                                                 *)
(***************************************************************************)
EXTENDS Integers, Sequences, FiniteSets

CONSTANTS
  NumHw, Number,   \* hardware sensors, and all sensors (mCmdFdReadIdx)
  Dep,             \* the background sensors of every sensor, as a set
  Initial,         \* hardware whose driver can hold an initial event
                   \* (mHasPendingEvent: GyroSensor, ProximitySensor)
  Fetch,           \* hardware whose driver is built with
                   \* FETCH_FULL_EVENT_BEFORE_RETURN: not light, proximity
  Room,            \* the count pollEvents() is called with
  Frames,          \* frames a driver's InputEventCircularReader can hold
  MaxEvents,       \* slots of a VirtualSensor's ring, 250
  KernelCap,       \* bound on frames queued in one evdev node
  PipeCap,         \* commands the pipe can hold
  Commands,        \* the commands the framework sends
  MayFail,         \* whether driver accesses and poll() may fail
  MayReopen        \* whether the framework closes the device and opens it

Hw == 1 .. NumHw
Virtual == (NumHw + 1) .. Number
Sensor == 1 .. Number

Command == [type : {"enable", "disable", "period"}, sensor : Sensor]
             \cup {[type |-> "bad"]}    \* a handle nobody has

ASSUME SizeAssumption ==
  /\ NumHw \in Nat /\ Number \in Nat /\ NumHw <= Number
  /\ Room \in Nat \ {0} /\ Frames \in Nat \ {0} /\ MaxEvents \in Nat
  /\ KernelCap \in Nat /\ PipeCap \in Nat

ASSUME ContextAssumption ==
  /\ Dep \in [Sensor -> SUBSET Hw]
  /\ \A h \in Hw : Dep[h] = {h}
  /\ Initial \subseteq Hw /\ Fetch \subseteq Hw
  /\ Commands \subseteq Command
  /\ MayFail \in BOOLEAN /\ MayReopen \in BOOLEAN

VARIABLES
  pipe,       \* commands written and not yet read
  pc,         \* "out" of pollEvents(), in its "scan", in a driver's "fetch"
              \* loop, "poll"ing, or at "cmd"
  index,      \* i of the scan
  count,      \* room left; nbEvents is Room - count
  left,       \* what the fetch loop has left of it, 0 outside
  revents,    \* sensors whose revents have POLLIN
  kernel,     \* frames queued on each evdev node
  held,       \* frames left in each driver's circular reader
  initial,    \* mHasPendingEvent of the drivers that have an initial event
  ring,       \* events waiting in each virtual sensor's ring
  dropped,    \* whether a full ring ever threw an event away
  enable,     \* SensorContext.enable
  listeners,  \* who is registered with each hardware context
  mEnabled    \* which drivers are enabled

\* What a command does to the manager.
Manager == INSTANCE SensorCommands WITH Flaky <- IF MayFail THEN Hw ELSE {}

events == <<kernel, held, initial, ring, dropped>>
manager == <<enable, listeners, mEnabled>>
thread == <<pc, index, count, left, revents>>
vars == <<pipe, thread, events, manager>>

smaller(a, b) == IF a < b THEN a ELSE b

Init ==
  /\ pipe = << >>
  /\ pc = "out" /\ index = 1 /\ count = Room /\ left = 0 /\ revents = {}
  /\ kernel = [h \in Hw |-> 0] /\ held = [h \in Hw |-> 0]
  /\ initial \in [Hw -> BOOLEAN] /\ \A h \in Hw \ Initial : ~initial[h]
  /\ ring = [v \in Virtual |-> 0] /\ dropped = FALSE
  /\ enable = [s \in Sensor |-> FALSE]
  /\ listeners = [h \in Hw |-> {}]
  /\ mEnabled \in [Hw -> BOOLEAN]

-----------------------------------------------------------------------------
(* The framework's threads and the kernel.                                 *)

\* activate() and setDelay() write one command; a full pipe makes them return
\* -EAGAIN and leaves nothing behind.
Send(c) ==
  /\ Len(pipe) < PipeCap
  /\ pipe' = Append(pipe, c)
  /\ UNCHANGED <<thread, events, manager>>

\* poll__close() and open_sensors(): a new context has a new pipe and clear
\* revents; commands not yet read are lost.  The manager, the drivers and all
\* they hold are the process's, and stay as they are.
Reopen ==
  /\ MayReopen
  /\ pc = "out"
  /\ pipe' = << >> /\ revents' = {}
  /\ UNCHANGED <<pc, index, count, left, events, manager>>

\* The kernel queues a frame of the hardware sensor h.
Produce(h) ==
  /\ kernel[h] < KernelCap
  /\ kernel' = [kernel EXCEPT ![h] = @ + 1]
  /\ UNCHANGED <<pipe, thread, held, initial, ring, dropped, manager>>

-----------------------------------------------------------------------------
(* The polling thread.                                                     *)

\* The framework calls pollEvents() again.
Enter ==
  /\ pc = "out"
  /\ pc' = "scan" /\ index' = 1 /\ count' = Room
  /\ UNCHANGED <<pipe, left, revents, events, manager>>

hasPendingEvents(s) == IF s \in Hw THEN initial[s] ELSE ring[s] > 0

scanning == pc = "scan" /\ index <= Number /\ count > 0
toRead == index \in revents \/ hasPendingEvents(index)

\* Nothing to read from this sensor.
Skip ==
  /\ scanning /\ ~toRead
  /\ index' = index + 1
  /\ UNCHANGED <<pipe, pc, count, left, revents, events, manager>>

\* sm.readEvents() hands each of got events to the registered, enabled
\* virtual sensors; their algorithm makes an event of it or does not.
inject(h, got) ==
  LET to == {v \in listeners[h] \cap Virtual : enable[v]} IN
  \E out \in [to -> 0 .. got] :
    /\ ring' = [v \in Virtual |-> IF v \in to
                  THEN smaller(ring[v] + out[v], MaxEvents) ELSE ring[v]]
    /\ dropped' = (dropped \/ \E v \in to : ring[v] + out[v] > MaxEvents)

\* Mutant: revents stays set.
Report_keepRevents(h, got) ==
  /\ inject(h, got)
  /\ count' = IF enable[h] THEN count - got ELSE count
  /\ revents' = revents
  /\ pc' = "scan" /\ index' = index + 1 /\ left' = 0

\* sm.readEvents() is over: its events are reported if the sensor itself is
\* enabled.  nb <= count always holds, so the sensor's revents are cleared.
Report(h, got) ==
  /\ inject(h, got)
  /\ count' = IF enable[h] THEN count - got ELSE count
  /\ revents' = revents \ {h}
  /\ pc' = "scan" /\ index' = index + 1 /\ left' = 0

\* Mutant: fill() takes all the kernel has, whatever the space left.
fillable_all(h) == kernel[h]

\* fill() with whole frames, and how many of them a driver that has room for
\* c events then uses up.  One that is off discards them all.  One that is on
\* makes got events; early frames of a Fetch driver (mEnabledTime) only cost
\* room; a frame without a timestamp costs nothing.
fillable(h) == smaller(kernel[h], Frames - held[h])

ReadFrames(h, c, got, early) ==
  LET have == held[h] + fillable(h) IN
  /\ kernel' = [kernel EXCEPT ![h] = @ - fillable(h)]
  /\ \E used \in 0 .. have :
       /\ IF mEnabled[h]
            THEN /\ got + early <= smaller(used, c)
                 /\ early > 0 => h \in Fetch
                 /\ used = have \/ got + early = c
                 /\ c = 0 => used = 0
            ELSE used = have /\ got = 0 /\ early = 0
       /\ held' = [held EXCEPT ![h] = have - used]

\* What the driver does after a pass over its frames: a Fetch driver that is
\* on and has no event yet tries again, instead of returning with nothing.
PassDone(h, c, got, early) ==
  IF h \in Fetch /\ mEnabled[h] /\ got = 0
    THEN /\ pc' = "fetch" /\ left' = c - early
         /\ UNCHANGED <<index, count, revents, ring, dropped>>
    ELSE Report(h, got)

\* The driver's initial event: given once, if the driver is on.
ReadInitial ==
  /\ scanning /\ toRead /\ index \in Hw
  /\ initial[index]
  /\ initial' = [initial EXCEPT ![index] = FALSE]
  /\ Report(index, IF mEnabled[index] THEN 1 ELSE 0)
  /\ UNCHANGED <<pipe, kernel, held, manager>>

\* The scan reads a hardware sensor.  With space in its ring and an empty
\* kernel queue fill() returns -EAGAIN, and readEvents() calls again.
ReadHw ==
  /\ scanning /\ toRead /\ index \in Hw
  /\ ~initial[index]
  /\ kernel[index] > 0 \/ held[index] = Frames
  /\ \E got, early \in 0 .. count :
       /\ ReadFrames(index, count, got, early)
       /\ PassDone(index, count, got, early)
  /\ UNCHANGED <<pipe, initial, manager>>

\* Another turn of the fetch loop.  It ends with an event or a full ring;
\* on -EAGAIN it goes round at once, nothing changed, until a frame comes.
Refetch ==
  /\ pc = "fetch"
  /\ \/ /\ held[index] = Frames
        /\ Report(index, 0)
        /\ UNCHANGED <<kernel, held>>
     \/ /\ held[index] < Frames /\ kernel[index] > 0
        /\ \E got, early \in 0 .. left :
             /\ ReadFrames(index, left, got, early)
             /\ PassDone(index, left, got, early)
  /\ UNCHANGED <<pipe, initial, manager>>

\* The first fill() of a turn fails, which no driver survives, and nothing has
\* been taken from the kernel.  readEvents() hands a negative nb on for a sensor
\* that is enabled: pollEvents() is left at once, revents as it is, and what
\* this call had read from other sensors is lost.  For one that is not, nb
\* becomes 0 and the scan goes on as if the sensor had nothing more.
ReadFails ==
  /\ scanning /\ toRead /\ index \in Hw /\ MayFail
  /\ ~initial[index] /\ held[index] < Frames
  /\ IF enable[index]
       THEN pc' = "out" /\ UNCHANGED <<index, revents>>
       ELSE pc' = "scan" /\ index' = index + 1 /\ revents' = revents \ {index}
  /\ UNCHANGED <<pipe, count, left, events, manager>>

\* Mutant: one event at a time.
ReadVirtual_one ==
  /\ scanning /\ toRead /\ index \in Virtual
  /\ ring' = [ring EXCEPT ![index] = @ - 1]
  /\ count' = IF enable[index] THEN count - 1 ELSE count
  /\ index' = index + 1
  /\ UNCHANGED <<pipe, pc, left, revents, kernel, held, initial, dropped, manager>>

\* The scan reads a virtual sensor's ring.
ReadVirtual ==
  /\ scanning /\ toRead /\ index \in Virtual
  /\ LET got == smaller(count, ring[index]) IN
       /\ ring' = [ring EXCEPT ![index] = @ - got]
       /\ count' = IF enable[index] THEN count - got ELSE count
  /\ index' = index + 1
  /\ UNCHANGED <<pipe, pc, left, revents, kernel, held, initial, dropped, manager>>

\* Mutant: the descriptors and the pipe are polled even with no room left.
EndScan_pollAnyway ==
  /\ pc = "scan" /\ (index > Number \/ count = 0)
  /\ pc' = "poll"
  /\ UNCHANGED <<pipe, index, count, left, revents, events, manager>>

\* The scan is over: poll if there is room left, return otherwise.
EndScan ==
  /\ pc = "scan" /\ (index > Number \/ count = 0)
  /\ pc' = IF count > 0 THEN "poll" ELSE "out"
  /\ UNCHANGED <<pipe, index, count, left, revents, events, manager>>

readable == {h \in Hw : kernel[h] > 0}

\* Mutant: a command waits until no sensor is readable.
Poll_framesFirst ==
  /\ pc = "poll"
  /\ count = Room => (readable # {} \/ pipe # << >>)
  /\ revents' = readable
  /\ pc' = IF readable # {} THEN "scan" ELSE IF pipe # << >> THEN "cmd" ELSE "out"
  /\ index' = 1
  /\ UNCHANGED <<pipe, count, left, events, manager>>

\* poll() waits while nothing has been read; a virtual sensor has no
\* descriptor.  Then a command, another scan, or the return of nbEvents.
Poll ==
  /\ pc = "poll"
  /\ count = Room => (readable # {} \/ pipe # << >>)
  /\ revents' = readable
  /\ pc' = IF pipe # << >> THEN "cmd" ELSE IF readable # {} THEN "scan" ELSE "out"
  /\ index' = 1
  /\ UNCHANGED <<pipe, count, left, events, manager>>

PollError ==
  /\ pc = "poll" /\ MayFail
  /\ pc' = "out"
  /\ UNCHANGED <<pipe, index, count, left, revents, events, manager>>

\* handleCommandPipe() reads one command; its rc, unless 0, is returned by
\* pollEvents() at once, with revents as poll() left them.
HandleCommand ==
  /\ pc = "cmd"
  /\ LET c == Head(pipe) IN
     \E rc \in {0, -1} :
       /\ \/ c.type # "bad" /\ Manager!Carried(c.type, c.sensor, rc)
          \/ c.type = "bad" /\ rc = -1 /\ UNCHANGED manager
       /\ pc' = IF rc = 0 THEN "scan" ELSE "out"
       /\ IF c.type \in {"enable", "disable"}
            THEN /\ initial' \in [Hw -> BOOLEAN]
                 /\ \A h \in Hw \ (Initial \cap Dep[c.sensor]) : initial'[h] = initial[h]
            ELSE UNCHANGED initial
  /\ pipe' = Tail(pipe)
  /\ UNCHANGED <<index, count, left, revents, kernel, held, ring, dropped>>

PollThread ==
  \/ Enter \/ Skip \/ ReadInitial \/ ReadHw \/ ReadFails \/ Refetch
  \/ ReadVirtual \/ EndScan \/ Poll \/ PollError \/ HandleCommand

Next ==
  \/ \E c \in Commands : Send(c)
  \/ \E h \in Hw : Produce(h)
  \/ Reopen
  \/ PollThread

Spec == Init /\ [][Next]_vars

\* The framework's thread does nothing but call pollEvents() again; nothing
\* obliges the framework to send a command or the kernel to queue a frame.
Fairness == WF_vars(PollThread)

FairSpec == Spec /\ Fairness

\* The devices besides: each keeps posting frames, and not all of those that
\* meet a fetch loop are early (they are for IGNORE_EVENT_TIME only).
Streaming ==
  /\ \A h \in Hw : WF_vars(Produce(h))
  /\ SF_vars(Refetch /\ pc' = "scan")

StreamSpec == FairSpec /\ Streaming

-----------------------------------------------------------------------------
TypeOK ==
  /\ pipe \in Seq(Command)
  /\ pc \in {"out", "scan", "fetch", "poll", "cmd"}
  /\ index \in 1 .. (Number + 1)
  /\ count \in 0 .. Room
  /\ left \in 0 .. count
  /\ revents \subseteq Hw
  /\ kernel \in [Hw -> Nat]
  /\ held \in [Hw -> 0 .. Frames]
  /\ initial \in [Hw -> BOOLEAN]
  /\ ring \in [Virtual -> Nat]
  /\ dropped \in BOOLEAN
  /\ enable \in [Sensor -> BOOLEAN]
  /\ listeners \in [Hw -> SUBSET Sensor]
  /\ mEnabled \in [Hw -> BOOLEAN]

\* A sensor marked readable has a frame in its kernel queue, even after
\* pollEvents() was left by an error of poll(), of a command or of a driver in
\* the middle of the scan: reading it never meets -EAGAIN, on which
\* readEvents() would spin (NativeSensorManager.cpp:771-773).
ReadyMeansReadable ==
  \A h \in revents : kernel[h] > 0 \/ (pc = "fetch" /\ h = index)

\* When the thread polls or handles a command, every virtual sensor's ring
\* is empty and no initial event is left: it never sleeps on an event that
\* no descriptor would wake it for (sensors.cpp:222-247).
DrainedBeforePoll ==
  pc \in {"poll", "cmd"} =>
    /\ \A v \in Virtual : ring[v] = 0
    /\ pc = "poll" => \A h \in Hw : ~initial[h]

\* A disabled virtual sensor holds no event, so none from before a disable
\* is delivered after the next enable (VirtualSensor has no flush).
NoStaleEvents == \A v \in Virtual : ring[v] > 0 => enable[v]

\* No virtual sensor's ring ever overflows: it takes at most one round's
\* frames of its background sensors (VirtualSensor.cpp:105, 121).
NothingDropped == ~dropped

\* Every command is handled in the end, however many frames keep coming.
CommandsHandled == pipe # << >> ~> pc = "cmd"

\* No sensor starves: a full kernel queue is read in the end, although every
\* scan starts with the first sensor and stops when the room is used up.
NoSensorStarves == \A h \in Hw : (kernel[h] = KernelCap) ~> (kernel[h] < KernelCap)
=============================================================================
