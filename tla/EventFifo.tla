----------------------------- MODULE EventFifo -----------------------------
(***************************************************************************)
(* What InputEventCircularReader promises the sensor drivers: a bounded    *)
(* first-in first-out hand-over of the kernel's input events.  Nothing is  *)
(* lost, repeated, altered or reordered between the kernel queue of the    *)
(* evdev node and the driver that takes the events.                        *)
(***************************************************************************)
EXTENDS Naturals, Sequences

CONSTANTS Event,      \* the input events a device can post
          Capacity,   \* how many events the reader can hold
          KernelCap   \* bound on the kernel's queue

VARIABLES kernel,     \* events queued in the evdev node, oldest first
          held        \* events fetched and not yet consumed, oldest first

vars == <<kernel, held>>

Init == kernel = << >> /\ held = << >>

\* The device posts events, a packet at a time.
Post ==
  /\ kernel' \in Seq(Event)
  /\ Len(kernel) <= Len(kernel') /\ Len(kernel') <= KernelCap
  /\ SubSeq(kernel', 1, Len(kernel)) = kernel
  /\ UNCHANGED held

\* Any non-empty prefix of the kernel queue that fits may be fetched.
Fetch ==
  \E n \in 1 .. Len(kernel) :
    /\ Len(held) + n <= Capacity
    /\ held' = held \o SubSeq(kernel, 1, n)
    /\ kernel' = SubSeq(kernel, n + 1, Len(kernel))

Take ==
  /\ held # << >>
  /\ held' = Tail(held)
  /\ UNCHANGED kernel

Next == Post \/ Fetch \/ Take

Spec == Init /\ [][Next]_vars
=============================================================================
