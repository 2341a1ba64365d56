---------------------------- MODULE ReadingFeed ----------------------------
(***************************************************************************)
(* What a hardware driver promises of the readings its device posts: while *)
(* the driver is on, each one that is stamped and not older than since is  *)
(* given to the framework, once, in order, whole and with its own time;    *)
(* nothing else is, but for an initial event after a switch.               *)
(***************************************************************************)
EXTENDS Naturals, Sequences

CONSTANTS Data, Time   \* what the axes may show, and when

Reading == [data : Data, time : Time, stamped : BOOLEAN]

VARIABLES
  strict,   \* whether readings without a stamp are always withheld
  waiting,  \* readings posted and not yet seen, oldest first
  doubt,    \* how many of them are older than the last initial event: they
            \* may be mixed with it
  on, since,
  owed,     \* whether there is an initial event to be given
  data      \* the events given to the call under way

vars == <<strict, waiting, doubt, on, since, owed, data>>

Init ==
  /\ strict \in BOOLEAN
  /\ waiting = << >> /\ doubt = 0
  /\ on = FALSE /\ since = 0 /\ owed = FALSE
  /\ data = << >>

Post ==
  /\ \E r \in Reading : waiting' = Append(waiting, r)
  /\ UNCHANGED <<strict, doubt, on, since, owed, data>>

Give(d, t) == data' = Append(data, [data |-> d, timestamp |-> t])

due(r) == on /\ r.stamped /\ r.time >= since

\* The oldest reading is given if it is due.
SeeNext ==
  /\ waiting # << >> /\ doubt = 0
  /\ LET r == Head(waiting) IN
       \/ due(r) /\ Give(r.data, r.time)
       \/ ~due(r) /\ UNCHANGED data
       \/ on /\ ~strict /\ ~r.stamped /\ \E t \in Time : Give(r.data, t)
  /\ waiting' = Tail(waiting)
  /\ UNCHANGED <<strict, doubt, on, since, owed>>

SeeDoubtful ==
  /\ doubt > 0
  /\ \/ UNCHANGED data
     \/ on /\ \E d \in Data, t \in Time : Give(d, t)
  /\ waiting' = Tail(waiting) /\ doubt' = doubt - 1
  /\ UNCHANGED <<strict, on, since, owed>>

GiveInitial ==
  /\ owed /\ owed' = FALSE
  /\ IF on THEN \E d \in Data, t \in Time : Give(d, t)
           ELSE UNCHANGED data
  /\ UNCHANGED <<strict, waiting, doubt, on, since>>

Switch ==
  /\ on' \in BOOLEAN
  /\ since' \in Nat /\ since' >= since
  /\ owed' \in BOOLEAN
  /\ doubt' = IF owed' THEN Len(waiting) ELSE doubt
  /\ UNCHANGED <<strict, waiting, data>>

\* The call returns with its events.
Return == data' = << >> /\ UNCHANGED <<strict, waiting, doubt, on, since, owed>>

Next == Return \/ Post \/ SeeNext \/ SeeDoubtful \/ GiveInitial \/ Switch

Spec == Init /\ [][Next]_vars
=============================================================================
