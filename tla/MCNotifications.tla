---------------------------- MODULE MCNotifications ----------------------------
(* Small instances of Notifications: every channel has every system in scope,
   and the schedules deliver to the last channel, the others are immediate.  *)
EXTENDS Notifications, TLC

Everything == [c \in Channels |-> Systems]
ToLast == [d \in Schedules |-> {NumChannels}]

\* The runs of refresh schedules differ in nothing but their names.
Alike == Permutations(CheckRuns)
=============================================================================
