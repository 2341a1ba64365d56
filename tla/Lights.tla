------------------------------- MODULE Lights -------------------------------
(***************************************************************************)
(* The Lights HAL (liblights/lights.cpp): a wrapper that opens one device  *)
(* of the vendor's lights module for every light it hands out, forwards    *)
(* requests to it, and drives the backlight itself through two files: the  *)
(* sysfs file of the LCD, and LCD_BACKLIGHT2_FILE, which this device gives *)
(* as /dev/null, so that only the result of writing it tells.              *)
(*                                                                         *)
(* Several threads call it.  gLightWrapperLock is held by open and close,  *)
(* g_lock by the two writes of a backlight request.  As the HAL interface  *)
(* asks, nobody uses a device after closing it.                            *)
(***************************************************************************)
EXTENDS Integers, FiniteSets

CONSTANTS
  Thread,       \* the callers
  Device,       \* what malloc() can return; as many lights may be open
  Known,        \* LIGHT_ID_BACKLIGHT, _BUTTONS, _BATTERY, _NOTIFICATIONS
  VendorOpens,  \* the lights the vendor's module can open
  MaxOpen,      \* bound on the devices it opens for one light
  Name,         \* the names open_lights() is called with
  Color,        \* the colours requested, [a, r, g, b] of 0 .. 255
  gamma,        \* brightness_apply_gamma() of their levels
  Min,          \* LCD_BRIGHTNESS_MIN
  Faults,       \* what may fail, of "module", "open", "write"
  Nobody        \* a lock nobody holds, a device nobody has

ASSUME NameAssumption == Known \cup VendorOpens \subseteq Name /\ "backlight" \in Known
ASSUME SizeAssumption == MaxOpen \in Nat
ASSUME ColorAssumption ==
  /\ Color \subseteq [a : 0 .. 255, r : 0 .. 255, g : 0 .. 255, b : 0 .. 255]
  /\ Min \in 1 .. 255
  /\ \A level \in DOMAIN gamma : gamma[level] \in 0 .. 255
ASSUME NobodyAssumption == Nobody \notin Thread \cup Device \cup Known
ASSUME DeviceAssumption == IsFiniteSet(Device)

VARIABLES
  gVendorModule,  \* whether the vendor's module has been found
  gLightWrapperLock, g_lock,
  lights,         \* the light each device in use is for, or Nobody
  vendor,         \* how many devices of each light the vendor has open
  file,           \* what LCD_BACKLIGHT_FILE and _FILE2 were last told
  pc,             \* "idle"; in open_lights() "vendor", "alloc", "name"; in
                  \* lights_device_close() "close"; in a backlight request
                  \* "lock", "first", "second", "unlock"
  name,           \* the light a thread opens
  dev,            \* the device it opens or closes
  brightness,     \* and the one it writes
  err             \* whether a write of it failed

locks == <<gLightWrapperLock, g_lock>>
local == <<name, dev, brightness, err>>
vars == <<gVendorModule, locks, lights, vendor, file, pc, local>>

Init ==
  /\ gVendorModule = FALSE
  /\ gLightWrapperLock = Nobody /\ g_lock = Nobody
  /\ lights = [d \in Device |-> Nobody]
  /\ vendor = [n \in Name |-> 0]
  /\ file = [f \in {1, 2} |-> 0]
  /\ pc = [t \in Thread |-> "idle"]
  /\ name \in [Thread -> Name]
  /\ dev = [t \in Thread |-> Nobody]
  /\ brightness = [t \in Thread |-> 0]
  /\ err = [t \in Thread |-> FALSE]

goto(t, l) == pc' = [pc EXCEPT ![t] = l]

-----------------------------------------------------------------------------
(* open_lights().  Asked for no light at all (name == NULL) it takes the    *)
(* lock, gives it back and returns 0: a step that changes nothing.          *)

Open(t, n) ==
  /\ pc[t] = "idle" /\ gLightWrapperLock = Nobody
  /\ gLightWrapperLock' = t
  /\ name' = [name EXCEPT ![t] = n] /\ dev' = [dev EXCEPT ![t] = Nobody]
  /\ goto(t, "vendor")
  /\ UNCHANGED <<gVendorModule, g_lock, lights, vendor, file, brightness, err>>

\* check_vendor_module(): the module is looked up until it is found.
CheckVendor(t) ==
  /\ pc[t] = "vendor"
  /\ \/ /\ gVendorModule' = TRUE
        /\ goto(t, "alloc") /\ UNCHANGED gLightWrapperLock
     \/ /\ ~gVendorModule /\ "module" \in Faults
        /\ gLightWrapperLock' = Nobody
        /\ goto(t, "idle") /\ UNCHANGED gVendorModule
  /\ UNCHANGED <<g_lock, lights, vendor, file, local>>

\* malloc(), and the vendor's open of the same name.
free == {d \in Device : lights[d] = Nobody /\ \A t \in Thread : dev[t] # d}
vendorCanOpen(n) == n \in VendorOpens /\ vendor[n] < MaxOpen

OpenVendor(t) ==
  /\ pc[t] = "alloc" /\ vendorCanOpen(name[t])
  /\ \E d \in free : dev' = [dev EXCEPT ![t] = d]
  /\ vendor' = [vendor EXCEPT ![name[t]] = @ + 1]
  /\ goto(t, "name")
  /\ UNCHANGED <<gVendorModule, locks, lights, file, name, brightness, err>>

\* Either of them failed; what malloc() gave is freed.
OpenFails(t) ==
  /\ pc[t] = "alloc"
  /\ free = {} \/ ~vendorCanOpen(name[t]) \/ "open" \in Faults
  /\ gLightWrapperLock' = Nobody
  /\ goto(t, "idle")
  /\ UNCHANGED <<gVendorModule, g_lock, lights, vendor, file, local>>

\* Mutant: the device is also forgotten for one of the lights it knows.
OpenReturn_batteryToo(t) ==
  /\ pc[t] = "name"
  /\ lights' = IF name[t] \in Known \ {"battery"}
                 THEN [lights EXCEPT ![dev[t]] = name[t]] ELSE lights
  /\ dev' = [dev EXCEPT ![t] = Nobody]
  /\ gLightWrapperLock' = Nobody
  /\ goto(t, "idle")
  /\ UNCHANGED <<gVendorModule, g_lock, vendor, file, name, brightness, err>>

\* The device is handed out.  A light the vendor knows and the wrapper does
\* not is refused, and what was opened and allocated for it is forgotten.
OpenReturn(t) ==
  /\ pc[t] = "name"
  /\ lights' = IF name[t] \in Known
                 THEN [lights EXCEPT ![dev[t]] = name[t]] ELSE lights
  /\ dev' = [dev EXCEPT ![t] = Nobody]
  /\ gLightWrapperLock' = Nobody
  /\ goto(t, "idle")
  /\ UNCHANGED <<gVendorModule, g_lock, vendor, file, name, brightness, err>>

-----------------------------------------------------------------------------
(* lights_device_close()                                                   *)

Close(t, d) ==
  /\ pc[t] = "idle" /\ gLightWrapperLock = Nobody
  /\ lights[d] # Nobody
  /\ gLightWrapperLock' = t
  /\ dev' = [dev EXCEPT ![t] = d]
  /\ goto(t, "close")
  /\ UNCHANGED <<gVendorModule, g_lock, lights, vendor, file, name, brightness, err>>

\* The vendor's device is closed, then the wrapper's freed.
CloseVendor(t) ==
  /\ pc[t] = "close"
  /\ vendor' = [vendor EXCEPT ![lights[dev[t]]] = @ - 1]
  /\ lights' = [lights EXCEPT ![dev[t]] = Nobody]
  /\ dev' = [dev EXCEPT ![t] = Nobody]
  /\ gLightWrapperLock' = Nobody
  /\ goto(t, "idle")
  /\ UNCHANGED <<gVendorModule, g_lock, file, name, brightness, err>>

-----------------------------------------------------------------------------
(* lights_set_light_backlight(); lights_set_light() only forwards.         *)

\* The alpha channel is filtered out.
rgb_to_brightness(c) == (77 * c.r + 150 * c.g + 29 * c.b) \div 256

ASSUME GammaAssumption ==
  \A c \in Color : rgb_to_brightness(c) \in {0} \cup DOMAIN gamma

\* Mutant: the minimum is applied before the correction.
shown_minFirst(c) ==
  LET level == rgb_to_brightness(c)
  IN  IF level = 0 THEN 0 ELSE gamma[IF level < Min THEN Min ELSE level]

\* A light that is on at all is not darker than Min, gamma correction or not.
shown(c) ==
  LET level == rgb_to_brightness(c)
  IN  IF level = 0 THEN 0 ELSE IF gamma[level] < Min THEN Min ELSE gamma[level]

SetBacklight(t, c) ==
  /\ pc[t] = "idle" /\ \E d \in Device : lights[d] = "backlight"
  /\ brightness' = [brightness EXCEPT ![t] = shown(c)]
  /\ err' = [err EXCEPT ![t] = FALSE]
  /\ goto(t, "lock")
  /\ UNCHANGED <<gVendorModule, locks, lights, vendor, file, name, dev>>

\* Mutant: the lock is not waited for.
Lock_noWait(t) ==
  /\ pc[t] = "lock"
  /\ g_lock' = t
  /\ goto(t, "first")
  /\ UNCHANGED <<gVendorModule, gLightWrapperLock, lights, vendor, file, local>>

Lock(t) ==
  /\ pc[t] = "lock" /\ g_lock = Nobody
  /\ g_lock' = t
  /\ goto(t, "first")
  /\ UNCHANGED <<gVendorModule, gLightWrapperLock, lights, vendor, file, local>>

\* write_int(); its errors are collected.
written(t, f) ==
  \/ /\ file' = [file EXCEPT ![f] = brightness[t]]
     /\ UNCHANGED err
  \/ /\ "write" \in Faults
     /\ err' = [err EXCEPT ![t] = TRUE]
     /\ UNCHANGED file

WriteFirst(t) ==
  /\ pc[t] = "first" /\ written(t, 1) /\ goto(t, "second")
  /\ UNCHANGED <<gVendorModule, locks, lights, vendor, name, dev, brightness>>

WriteSecond(t) ==
  /\ pc[t] = "second" /\ written(t, 2) /\ goto(t, "unlock")
  /\ UNCHANGED <<gVendorModule, locks, lights, vendor, name, dev, brightness>>

Unlock(t) ==
  /\ pc[t] = "unlock"
  /\ g_lock' = Nobody
  /\ goto(t, "idle")
  /\ UNCHANGED <<gVendorModule, gLightWrapperLock, lights, vendor, file, local>>

-----------------------------------------------------------------------------
Step(t) ==
  \/ \E n \in Name : Open(t, n)
  \/ CheckVendor(t) \/ OpenVendor(t) \/ OpenFails(t) \/ OpenReturn(t)
  \/ \E d \in Device : Close(t, d)
  \/ CloseVendor(t)
  \/ \E c \in Color : SetBacklight(t, c)
  \/ Lock(t) \/ WriteFirst(t) \/ WriteSecond(t) \/ Unlock(t)

Next == \E t \in Thread : Step(t)

Spec == Init /\ [][Next]_vars

-----------------------------------------------------------------------------
Inside == {"first", "second", "unlock"}

TypeOK ==
  /\ gVendorModule \in BOOLEAN
  /\ gLightWrapperLock \in Thread \cup {Nobody} /\ g_lock \in Thread \cup {Nobody}
  /\ lights \in [Device -> Known \cup {Nobody}]
  /\ vendor \in [Name -> Nat]
  /\ file \in [{1, 2} -> {0} \cup Min .. 255]
  /\ pc \in [Thread -> {"idle", "vendor", "alloc", "name", "close", "lock"} \cup Inside]
  /\ name \in [Thread -> Name] /\ dev \in [Thread -> Device \cup {Nobody}]
  /\ brightness \in [Thread -> {0} \cup Min .. 255]
  /\ err \in [Thread -> BOOLEAN]

\* Of every light the wrapper knows, the vendor has as many devices open as
\* have been handed out and not closed, whatever fails on the way
\* (open_lights, lights_device_close).  A name it does not know is outside:
\* what the vendor opened for it stays open when it is refused (line 289).
NoneLeftOpen ==
  gLightWrapperLock = Nobody =>
    \A n \in Known : vendor[n] = Cardinality({d \in Device : lights[d] = n})

\* A request that returns 0 leaves its own brightness in both files, no other
\* thread's and no older one (lights.cpp:234-242).
ShownOnSuccess ==
  [][\A t \in Thread :
       (pc[t] = "unlock" /\ pc'[t] = "idle" /\ ~err[t])
         => file[1] = brightness[t] /\ file[2] = brightness[t]]_vars
=============================================================================
