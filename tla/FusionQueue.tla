---------------------------- MODULE FusionQueue ----------------------------
(***************************************************************************)
(* What a virtual sensor promises: a result is made of one magnetometer    *)
(* sample and of the newest accelerometer sample noted, every sample is    *)
(* noted or fused as long as there is room, and the results come out once  *)
(* each and in the order of the samples, which are known by their arrival. *)
(***************************************************************************)
EXTENDS Naturals, Sequences

CONSTANTS Capacity,   \* how many results can wait
          MaxSamples  \* bound on the samples

VARIABLES notes,      \* whether it notes accelerometer samples at all
          samples,    \* how many samples have arrived
          newest,     \* the accelerometer sample taken note of, 0 for none
          queue       \* the results waiting, oldest first

vars == <<notes, samples, newest, queue>>

Init == notes \in BOOLEAN /\ samples = 0 /\ newest = 0 /\ queue = << >>

Arrive ==
  samples < MaxSamples /\ samples' = samples + 1 /\ UNCHANGED notes

Note == notes /\ Arrive /\ newest' = samples' /\ UNCHANGED queue

Fuse ==
  /\ Arrive /\ Len(queue) < Capacity
  /\ queue' = Append(queue, [mag |-> samples', acc |-> newest])
  /\ UNCHANGED newest

\* A sample that finds no room leaves no trace, nor does one of the
\* accelerometer if these are not noted.
Ignore ==
  /\ Arrive /\ (Len(queue) = Capacity \/ ~notes)
  /\ UNCHANGED <<newest, queue>>

Take ==
  /\ \E n \in 1 .. Len(queue) : queue' = SubSeq(queue, n + 1, Len(queue))
  /\ UNCHANGED <<notes, samples, newest>>

Next == Note \/ Fuse \/ Ignore \/ Take

Spec == Init /\ [][Next]_vars
=============================================================================
