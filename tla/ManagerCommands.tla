-------------------------- MODULE ManagerCommands --------------------------
(***************************************************************************)
(* SensorManager as PollLoop sees it: a command, with all the driver calls *)
(* and registrations between its entry and its return, does no more than   *)
(* SensorCommands says.  A history variable keeps what the command found.  *)
(***************************************************************************)
EXTENDS SensorManager

VARIABLE before  \* enable, listeners and mEnabled when the command began

summary == [enable |-> enable, mEnabled |-> mEnabled,
            listeners |-> [h \in Hw |-> Range(listener[h])]]

CommandInit == Init /\ before = summary

CommandNext == Next /\ before' = IF op' = "idle" THEN summary' ELSE before

ManagerSpec == CommandInit /\ [][CommandNext]_<<vars, before>>

\* Hardware whose accesses may fail in some way.
Fallible == IF Faults = {} THEN {} ELSE Flaky

\* dep_list as a set.
Background == [s \in Sensor |-> Range(Dep[s])]

Commands == INSTANCE SensorCommands WITH
  Dep <- Background,
  Flaky <- Fallible,
  enable <- before.enable,
  listeners <- before.listeners,
  mEnabled <- before.mEnabled

Type == [enable |-> "enable", disable |-> "disable", sync |-> "period"]

-----------------------------------------------------------------------------
\* What a command leaves when it returns is what the polling thread's model
\* takes it to leave: who is registered, enabled and on, whatever failed on
\* the way, and an error only if not all background sensors were enabled
\* (NativeSensorManager.cpp:628-676, 723-755; sensors.cpp:251-258).
CommandsCarried ==
  [][op # "idle" /\ op' = "idle" => Commands!Carried(Type[op], target, err)]_<<vars, before>>
=============================================================================
