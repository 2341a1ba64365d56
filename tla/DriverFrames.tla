---------------------------- MODULE DriverFrames ----------------------------
(***************************************************************************)
(* One hardware driver (Accelerometer.cpp, Gyroscope.cpp,                  *)
(* CompassSensor.cpp, LightSensor.cpp, ProximitySensor.cpp) between its    *)
(* evdev node and the manager: how the input events it reads through its   *)
(* InputEventCircularReader become readings.                               *)
(*                                                                         *)
(* A device posts a frame for a reading: the axes that changed, as a rule  *)
(* SYN_TIME_SEC and SYN_TIME_NSEC, and SYN_REPORT.  The driver keeps what  *)
(* it has been told in mPendingEvent from frame to frame and from call to  *)
(* call.  The ring need not hold whole frames, so that enable(), which the *)
(* same thread calls, may come in the middle of one.  An enable() that     *)
(* finds no node, but for the proximity sensor's, and a readEvents() whose *)
(* fill() fails change nothing and are not steps.                          *)
(***************************************************************************)
EXTENDS InputReader, FiniteSets

CONSTANTS
  AxesOf,      \* the drivers looked at, with the axes of each
  Value,       \* raw values; -1 is one the proximity sensor posts
  Second,      \* nanoseconds to the second
  IgnoreTime,  \* IGNORE_EVENT_TIME
  LastTime,    \* bound on the clock
  Room         \* bound on the count readEvents() is called with

Kind == {"accel", "gyro", "compass", "light", "proximity"}

\* Built with FETCH_FULL_EVENT_BEFORE_RETURN and the test of mEnabledTime.
Fetching == {"accel", "gyro", "compass"}

\* Those that can have an initial event.
Starting == {"gyro", "proximity"}

Kinds == DOMAIN AxesOf
Axis == UNION {AxesOf[k] : k \in Kinds}
Time == 0 .. LastTime

InputEvent ==
  [code : Axis, value : Value]
    \cup [code : {"SYN_TIME_SEC"}, value : 0 .. (LastTime \div Second)]
    \cup [code : {"SYN_TIME_NSEC"}, value : 0 .. (Second - 1)]
    \cup [code : {"SYN_REPORT"}, value : {0}]

ASSUME FrameAssumption ==
  /\ Event = InputEvent
  /\ Kinds \subseteq Kind /\ \A k \in Kinds : IsFiniteSet(AxesOf[k])
  /\ {"SYN_TIME_SEC", "SYN_TIME_NSEC", "SYN_REPORT"} \cap Axis = {}
  /\ "proximity" \in Kinds => \A a, b \in AxesOf["proximity"] : a = b
  /\ Value \subseteq Int
  /\ Second \in Nat \ {0} /\ IgnoreTime \in Nat \ {0} /\ LastTime \in Nat
  /\ Room \in Nat \ {0}

VARIABLES
  now, shown,   \* the clock, and what the device's axes stand at (external)
  kind,         \* which driver it is
  mEnabled, mEnabledTime, mHasPendingEvent, mUseAbsTimeStamp, report_time,
  mPendingEvent,  \* the driver's members; 0 for a mEnabledTime it has not
  pc, count, data,  \* the readEvents() under way, if any: the room left and the
                    \* numEventReceived events written to data
  waiting,      \* history: readings posted, up to the last SYN_REPORT read
  told,         \* history: what the driver was told of each axis, or will be
  doubt         \* history: how many of them are older than an initial event

device == <<now, shown, kind>>
switch == <<mEnabled, mEnabledTime>>
decoder == <<mUseAbsTimeStamp, report_time, mPendingEvent>>
call == <<pc, count, data>>
history == <<waiting, told, doubt>>
frameVars == <<vars, device, switch, mHasPendingEvent, decoder, call, history>>

\* The constructor, without the enable() that most end with.  Only three of
\* the five initialise mUseAbsTimeStamp, none the timestamp; data is zeroed.
FrameInit ==
  /\ Init
  /\ kind \in Kinds
  /\ now = 0 /\ shown \in [AxesOf[kind] -> Value]
  /\ mEnabled = FALSE /\ mEnabledTime = 0 /\ mHasPendingEvent = FALSE
  /\ mUseAbsTimeStamp \in BOOLEAN
  /\ kind \in {"accel", "gyro", "light"} => ~mUseAbsTimeStamp
  /\ report_time = 0
  /\ mPendingEvent \in [data : {[a \in AxesOf[kind] |-> 0]}, timestamp : {0, LastTime}]
  /\ pc = "idle" /\ count = 0 /\ data = << >>
  /\ waiting = << >> /\ told = mPendingEvent.data /\ doubt = 0

-----------------------------------------------------------------------------
(* The device and the kernel.                                              *)

Tick ==
  /\ now < LastTime
  /\ now' = now + 1
  /\ UNCHANGED <<vars, shown, kind, switch, mHasPendingEvent,
                 decoder, call, history>>

stamp == << [code |-> "SYN_TIME_SEC", value |-> now \div Second],
            [code |-> "SYN_TIME_NSEC", value |-> now % Second] >>

\* -1 is not a value to the proximity sensor.
understood(v, old) == IF kind = "proximity" /\ v = -1 THEN old ELSE v

\* The axes of a set, in any order.
orders(axes) ==
  {f \in [1 .. Cardinality(axes) -> axes] : \A a \in axes : \E i \in DOMAIN f : f[i] = a}

\* The device has a new reading: a packet of the axes that changed, as a rule
\* a stamp, and SYN_REPORT.
Measure ==
  /\ \E new \in [AxesOf[kind] -> Value], stamped \in BOOLEAN :
       LET changed == {a \in AxesOf[kind] : new[a] # shown[a]}
       IN  /\ changed # {}
           /\ shown' = new
           /\ \E f \in orders(changed) :
                Post([i \in DOMAIN f |-> [code |-> f[i], value |-> new[f[i]]]]
                       \o (IF stamped THEN stamp ELSE << >>)
                       \o << [code |-> "SYN_REPORT", value |-> 0] >>)
           /\ told' = [a \in AxesOf[kind] |-> IF a \in changed
                         THEN understood(new[a], told[a]) ELSE told[a]]
           /\ waiting' = Append(waiting,
                           [data |-> told', time |-> now, stamped |-> stamped])
  /\ UNCHANGED <<now, kind, switch, mHasPendingEvent, decoder,
                 call, doubt>>

-----------------------------------------------------------------------------
(* enable(), between two calls of readEvents().                            *)

\* enable() with a node that opens, and setInitialState() or EVIOCGABS.
SwitchNode(on) ==
  /\ mEnabled' = on
  /\ mEnabledTime' = IF on /\ kind \in Fetching THEN now + IgnoreTime ELSE mEnabledTime
  /\ \/ /\ kind = "gyro" \/ (kind = "proximity" /\ on)
        /\ mHasPendingEvent' = TRUE
        /\ mPendingEvent' = [mPendingEvent EXCEPT !.data = shown]
        /\ told' = shown
     \/ /\ mHasPendingEvent' = IF kind = "proximity" THEN on ELSE mHasPendingEvent
        /\ UNCHANGED <<mPendingEvent, told>>

\* ProximitySensor notes the new state before it opens the node.
SwitchNoNode(on) ==
  /\ kind = "proximity"
  /\ mEnabled' = on /\ mHasPendingEvent' = on
  /\ UNCHANGED <<mEnabledTime, mPendingEvent, told>>

Enable ==
  /\ pc = "idle"
  /\ \E on \in BOOLEAN \ {mEnabled} : SwitchNode(on) \/ SwitchNoNode(on)
  /\ doubt' = IF mHasPendingEvent' THEN Len(waiting) ELSE doubt
  /\ UNCHANGED <<vars, device, mUseAbsTimeStamp, report_time, call, waiting>>

-----------------------------------------------------------------------------
(* readEvents().                                                           *)

Give(e) == data' = Append(data, e)

\* The initial event is stamped with the time of the call, which returns.
ReadInitial ==
  /\ pc = "idle" /\ mHasPendingEvent
  /\ mHasPendingEvent' = FALSE
  /\ mPendingEvent' = [mPendingEvent EXCEPT !.timestamp = now]
  /\ IF mEnabled THEN Give(mPendingEvent') ELSE UNCHANGED data
  /\ pc' = "loop" /\ count' = 0
  /\ UNCHANGED <<vars, device, switch, mUseAbsTimeStamp, report_time, waiting, told, doubt>>

\* The call with room for n events; if fill() fails it returns at once.
BeginRead ==
  /\ pc = "idle" /\ ~mHasPendingEvent
  /\ \E n \in 1 .. Room : count' = n
  /\ pc' = "loop"
  /\ FillSome \/ FillFull
  /\ UNCHANGED <<device, switch, mHasPendingEvent, decoder, data, history>>

\* readEvent() offers the oldest event, which next() passes.
event == mBuffer[mCurr]

Taking(codes) ==
  /\ pc = "loop" /\ count > 0
  /\ Consume
  /\ event.code \in codes
  /\ UNCHANGED <<device, switch, mHasPendingEvent, pc>>

ReadAxis ==
  /\ Taking(Axis)
  /\ mPendingEvent' = [mPendingEvent EXCEPT !.data[event.code] = understood(event.value, @)]
  /\ UNCHANGED <<mUseAbsTimeStamp, report_time, count, data, history>>

ReadSec ==
  /\ Taking({"SYN_TIME_SEC"})
  /\ mUseAbsTimeStamp' = TRUE
  /\ report_time' = event.value * Second
  /\ UNCHANGED <<mPendingEvent, count, data, history>>

ReadNsec ==
  /\ Taking({"SYN_TIME_NSEC"})
  /\ mUseAbsTimeStamp' = TRUE
  /\ mPendingEvent' = [mPendingEvent EXCEPT !.timestamp = report_time + event.value]
  /\ UNCHANGED <<report_time, count, data, history>>

\* Mutant: the test of mEnabledTime is left out.
reports_early == mEnabled /\ mUseAbsTimeStamp

\* What a SYN_REPORT makes an event of, and what it takes room for: an early
\* frame takes some without filling it; CompassSensor's also without a stamp.
reports ==
  /\ mEnabled /\ mUseAbsTimeStamp
  /\ kind \in Fetching => mPendingEvent.timestamp >= mEnabledTime

counts == mEnabled /\ (mUseAbsTimeStamp \/ kind = "compass")

ReadReport ==
  /\ Taking({"SYN_REPORT"})
  /\ IF reports THEN Give(mPendingEvent) ELSE UNCHANGED data
  /\ count' = count - (IF counts THEN 1 ELSE 0)
  /\ mUseAbsTimeStamp' = (mUseAbsTimeStamp /\ (kind = "compass" \/ ~mEnabled))
  /\ waiting' = Tail(waiting) /\ doubt' = IF doubt > 0 THEN doubt - 1 ELSE 0
  /\ UNCHANGED <<report_time, mPendingEvent, told>>

\* The pass ends with the room or the events.  Without an event a driver that
\* fetches fills its ring again, on an error at once, until the ring is full.
passDone == pc = "loop" /\ (count = 0 \/ available = 0)
again == kind \in Fetching /\ mEnabled /\ data = << >>

ReadAgain ==
  /\ passDone /\ again
  /\ FillSome \/ FillError
  /\ UNCHANGED <<device, switch, mHasPendingEvent, decoder, call, history>>

EndRead ==
  /\ passDone
  /\ IF again THEN FillFull ELSE UNCHANGED vars
  /\ pc' = "idle" /\ count' = 0 /\ data' = << >>
  /\ UNCHANGED <<device, switch, mHasPendingEvent, decoder, history>>

FrameNext ==
  \/ Tick \/ Measure
  \/ Enable
  \/ ReadInitial \/ BeginRead \/ ReadAxis \/ ReadSec \/ ReadNsec \/ ReadReport
  \/ ReadAgain \/ EndRead

FrameSpec == FrameInit /\ [][FrameNext]_frameVars

-----------------------------------------------------------------------------
Readout == UNION {[AxesOf[k] -> Value \cup {0}] : k \in Kinds}

\* The driver's members, its device and the call under way.
MembersOK ==
  /\ kind \in Kinds /\ now \in Time
  /\ shown \in [AxesOf[kind] -> Value]
  /\ mEnabled \in BOOLEAN /\ mHasPendingEvent \in BOOLEAN /\ mUseAbsTimeStamp \in BOOLEAN
  /\ mEnabledTime \in Nat /\ report_time \in Nat
  /\ mPendingEvent \in [data : [AxesOf[kind] -> Value \cup {0}], timestamp : Nat]
  /\ pc \in {"idle", "loop"}
  /\ data \in Seq([data : [AxesOf[kind] -> Value \cup {0}], timestamp : Nat])
  /\ count \in Nat /\ Len(data) + count <= Room

\* The types, the ring's pointers among them; and however early frames and
\* events share the room, no more events are written than the caller gave
\* room for (count and data move apart, Accelerometer.cpp:239-243).
FramesOK == TypeOK /\ MembersOK

Feed == INSTANCE ReadingFeed WITH
  Data <- Readout,
  strict <- (kind = "accel"),
  on <- mEnabled,
  since <- mEnabledTime,
  owed <- mHasPendingEvent

\* However frames are cut by the ring, by room that is used up and by
\* switching, each stamped reading that is not early becomes one event, in
\* order, with the values of all axes when it was posted and with its own
\* time; a reading of another time's stamp is given by the accelerometer
\* never (Accelerometer.cpp:238-247), by the others only if it has none
\* itself or is older than an initial event (CompassSensor.cpp:197-236,
\* Gyroscope.cpp:166, ProximitySensor.cpp:178).
FeedSpec == Feed!Spec
=============================================================================
