------------------------------- MODULE Schedules -------------------------------
(***************************************************************************)
(* Schedules (services/schedule-service.ts, routes/schedules.ts) and the   *)
(* timers of the scheduler (services/scheduler.ts).  A timer and its runs  *)
(* work on the row as it was when the timer was made; every edit of a      *)
(* schedule stops all timers and makes new ones, and leaves runs alone.    *)
(*                                                                         *)
(* A run of an update schedule checks its systems side by side and then    *)
(* upgrades those with updates one after the other.  Deliveries of digests *)
(* are those of Notifications: here they only end.  A timer fires at any   *)
(* time: the times of cron expressions are left out, and so is the         *)
(* generation of a timer, since a timer that is stopped fires no more.     *)
(***************************************************************************)
EXTENDS Integers, FiniteSets

CONSTANTS Schedules, Systems, Channels, Absent,
          Copies,      \* runs of one schedule that may overlap
          MaxChanges   \* bound

VARIABLES schedule,    \* the rows of the table
          last,        \* lastRunStatus of each row
          systems,     \* that exist
          channels,    \* that exist
          timers,      \* scheduleCrons: the row a timer was made for
          boot,        \* initialTimeout: the refresh of the start is still to come
          outdated,    \* the systems with visible updates
          runs,
          changes      \* so far

vars == <<schedule, last, systems, channels, timers, boot, outdated, runs, changes>>

Types == {"refresh", "update", "digest"}
Statuses == {"success", "warning", "failed"}

\* No systems: all of them, whichever these are when a run begins.
Row == [type : Types, enabled : BOOLEAN, systems : (SUBSET Systems) \cup {Absent},
        channels : SUBSET Channels]

Run == [row : Row, pc : {"checking", "telling", "upgrading", "delivering"},
        todo : SUBSET Systems, checked : SUBSET Systems, failed : SUBSET Systems,
        upgraded : SUBSET Systems, flawed : SUBSET Systems]

\* What the proofs need of the constants.
SchedulesAssumption == Absent \notin Row /\ Absent \notin Run /\ MaxChanges \in Nat

TypeOK ==
  /\ schedule \in [Schedules -> Row \cup {Absent}]
  /\ last \in [Schedules -> Statuses \cup {Absent}]
  /\ systems \subseteq Systems /\ channels \subseteq Channels /\ outdated \subseteq Systems
  /\ timers \in [Schedules -> Row \cup {Absent}]
  /\ boot \in BOOLEAN /\ changes \in 0 .. MaxChanges
  /\ runs \in [Schedules \X Copies -> Run \cup {Absent}]

\* startRuntime, after stop: one timer for each enabled row.
TimersOf(table) ==
  [s \in Schedules |-> IF table[s] # Absent /\ table[s].enabled THEN table[s] ELSE Absent]

\* The default refresh of a fresh database, when the server has started.
Init ==
  /\ \E s \in Schedules :
       schedule = [d \in Schedules |->
         IF d = s THEN [type |-> "refresh", enabled |-> TRUE, systems |-> Absent, channels |-> {}]
         ELSE Absent]
  /\ last = [s \in Schedules |-> Absent]
  /\ systems = Systems /\ channels = Channels
  /\ timers = TimersOf(schedule) /\ boot = TRUE
  /\ outdated \in SUBSET Systems
  /\ runs = [r \in Schedules \X Copies |-> Absent]
  /\ changes = 0

-------------------------------------------------------------------------------
(* Edits. *)

Change == changes < MaxChanges /\ changes' = changes + 1

\* The timers are made anew, and a refresh of the start that is still to come is not.
Restart(table) == timers' = TimersOf(table) /\ boot' = FALSE

\* What the validators let through: systems that are deleted may be named, channels not.
Valid(row) ==
  /\ row.type = "digest" => row.systems = Absent /\ row.channels \subseteq channels
  /\ row.type # "digest" => row.channels = {}

\* Ids do not come again: a new row has no runs.
CreateSchedule(s, row) ==
  /\ Change /\ schedule[s] = Absent /\ Valid(row)
  /\ \A c \in Copies : runs[s, c] = Absent
  /\ schedule' = [schedule EXCEPT ![s] = row]
  /\ Restart(schedule')
  /\ UNCHANGED <<last, systems, channels, outdated, runs>>

\* Mutant: the route does not restart the scheduler.
UpdateKeepsTimers(s, row) ==
  /\ Change /\ schedule[s] # Absent /\ Valid(row)
  /\ schedule' = [schedule EXCEPT ![s] = row]
  /\ UNCHANGED <<last, systems, channels, timers, boot, outdated, runs>>

\* A change of anything is refused if the row, as it would be, names an unknown channel.
UpdateSchedule(s, row) ==
  /\ Change /\ schedule[s] # Absent /\ Valid(row)
  /\ schedule' = [schedule EXCEPT ![s] = row]
  /\ Restart(schedule')
  /\ UNCHANGED <<last, systems, channels, outdated, runs>>

DeleteSchedule(s) ==
  /\ Change /\ schedule[s] # Absent
  /\ schedule' = [schedule EXCEPT ![s] = Absent]
  /\ last' = [last EXCEPT ![s] = Absent]
  /\ Restart(schedule')
  /\ UNCHANGED <<systems, channels, outdated, runs>>

\* updateNotificationScheduleAssignments: channel c goes to the digests of `to`.
Assigned(c, to) ==
  [s \in Schedules |->
    IF schedule[s] = Absent \/ schedule[s].type # "digest" THEN schedule[s]
    ELSE [schedule[s] EXCEPT !.channels = IF s \in to THEN @ \cup {c} ELSE @ \ {c}]]

\* A channel is saved with its schedules.
AssignSchedules(c, to) ==
  /\ Change /\ c \in channels
  /\ \A s \in to : schedule[s] # Absent /\ schedule[s].type = "digest"
  /\ schedule' = Assigned(c, to)
  /\ Restart(schedule')
  /\ UNCHANGED <<last, systems, channels, outdated, runs>>

\* Mutant: the schedules of the channel keep its id.
DeleteChannelOnly(c) ==
  /\ Change /\ c \in channels
  /\ channels' = channels \ {c}
  /\ UNCHANGED <<schedule, last, systems, timers, boot, outdated, runs>>

\* No restart here: timers keep a channel that is no more.
DeleteChannel(c) ==
  /\ Change /\ c \in channels
  /\ schedule' = Assigned(c, {})
  /\ channels' = channels \ {c}
  /\ UNCHANGED <<last, systems, timers, boot, outdated, runs>>

DeleteSystem(x) ==
  /\ Change /\ x \in systems
  /\ systems' = systems \ {x}
  /\ outdated' = outdated \ {x}
  /\ UNCHANGED <<schedule, last, channels, timers, boot, runs>>

-------------------------------------------------------------------------------
(* Runs. *)

\* getScheduleSystemIds.
Scope(row) == IF row.systems = Absent THEN systems ELSE row.systems \cap systems

NewRun(row, todo) ==
  [row |-> row, pc |-> IF row.type = "digest" THEN "delivering" ELSE "checking",
   todo |-> todo, checked |-> {}, failed |-> {}, upgraded |-> {}, flawed |-> {}]

\* A refresh skips systems with results that are not stale, an update none.
Fire(s, c) ==
  /\ timers[s] # Absent /\ runs[s, c] = Absent
  /\ \E todo \in SUBSET Scope(timers[s]) :
       /\ timers[s].type = "update" => todo = Scope(timers[s])
       /\ timers[s].type = "digest" => todo = {}
       /\ runs' = [runs EXCEPT ![<<s, c>>] = NewRun(timers[s], todo)]
  /\ UNCHANGED <<schedule, last, systems, channels, timers, boot, outdated, changes>>

\* runStartupRefreshes reads the rows again, and skips nothing.
StartupRefresh(c) ==
  LET due == {s \in Schedules : schedule[s] # Absent /\ schedule[s].enabled
                                  /\ schedule[s].type = "refresh"} IN
  /\ boot /\ boot' = FALSE
  /\ \A s \in due : runs[s, c] = Absent
  /\ runs' = [r \in Schedules \X Copies |->
       IF r[2] = c /\ r[1] \in due THEN NewRun(schedule[r[1]], Scope(schedule[r[1]])) ELSE runs[r]]
  /\ UNCHANGED <<schedule, last, systems, channels, timers, outdated, changes>>

\* markScheduleFinished; a row that was deleted has no status.
Finish(r, status) ==
  /\ runs' = [runs EXCEPT ![r] = Absent]
  /\ last' = IF schedule[r[1]] = Absent THEN last ELSE [last EXCEPT ![r[1]] = status]

In(r, pc) == runs[r] # Absent /\ runs[r].pc = pc

(* checkUpdates ends, or throws.  A host that was not reached counts as    *)
(* checked, with the updates that were known.                              *)
CheckEnds(r, x) ==
  /\ In(r, "checking") /\ x \in runs[r].todo
  /\ \/ /\ runs' = [runs EXCEPT ![r].todo = @ \ {x}, ![r].checked = @ \cup {x}]
        /\ \/ UNCHANGED outdated
           \/ x \in systems /\ outdated' \in {outdated \cup {x}, outdated \ {x}}
     \/ /\ runs' = [runs EXCEPT ![r].todo = @ \ {x}, ![r].failed = @ \cup {x}]
        /\ UNCHANGED outdated
  /\ UNCHANGED <<schedule, last, systems, channels, timers, boot, changes>>

ChecksOver(r) ==
  /\ In(r, "checking") /\ runs[r].todo = {}
  /\ runs' = [runs EXCEPT ![r].pc = "telling"]
  /\ UNCHANGED <<schedule, last, systems, channels, timers, boot, outdated, changes>>

\* The status of a refresh.
Refreshed(run) ==
  IF run.failed = {} THEN "success" ELSE IF run.checked # {} THEN "warning" ELSE "failed"

\* Notifications are sent: a refresh is over, an update goes on with what has updates now.
Told(r) ==
  /\ In(r, "telling")
  /\ IF runs[r].row.type = "refresh" THEN Finish(r, Refreshed(runs[r]))
     ELSE /\ runs' = [runs EXCEPT ![r].pc = "upgrading", ![r].todo = runs[r].checked \cap outdated]
          /\ UNCHANGED last
  /\ UNCHANGED <<schedule, systems, channels, timers, boot, outdated, changes>>

\* The system leaves the list whatever its upgrade comes to.
Upgraded(r, x, flaw) ==
  runs' = [runs EXCEPT ![r].todo = @ \ {x},
                       ![r].upgraded = IF flaw = "failed" THEN @ ELSE @ \cup {x},
                       ![r].flawed = IF flaw = "none" THEN @ ELSE @ \cup {x}]

\* applyUpgradeAll: with success, with a warning, or not.
UpgradeEnds(r, x) ==
  /\ In(r, "upgrading") /\ x \in runs[r].todo
  /\ \/ x \in systems /\ Upgraded(r, x, "none") /\ outdated' = outdated \ {x}
     \/ x \in systems /\ Upgraded(r, x, "warning") /\ outdated' = outdated \ {x}
     \/ Upgraded(r, x, "failed") /\ UNCHANGED outdated
  /\ UNCHANGED <<schedule, last, systems, channels, timers, boot, changes>>

\* It throws when its system is deleted meanwhile: the others get no turn.
UpgradeThrows(r, x) ==
  /\ In(r, "upgrading") /\ x \in runs[r].todo \ systems
  /\ Finish(r, "failed")
  /\ UNCHANGED <<schedule, systems, channels, timers, boot, outdated, changes>>

\* The status of an update.
UpdateStatus(run) ==
  IF run.failed = {} /\ run.flawed = {} THEN "success"
  ELSE IF run.checked # {} THEN "warning" ELSE "failed"

UpdateOver(r) ==
  /\ In(r, "upgrading") /\ runs[r].todo = {}
  /\ Finish(r, UpdateStatus(runs[r]))
  /\ UNCHANGED <<schedule, systems, channels, timers, boot, outdated, changes>>

\* processScheduledNotificationDeliveries: what it sent, skipped and failed to send.
Delivered(r) ==
  /\ In(r, "delivering")
  /\ \E status \in Statuses : Finish(r, status)
  /\ UNCHANGED <<schedule, systems, channels, timers, boot, outdated, changes>>

Next ==
  \/ \E s \in Schedules :
       \/ \E row \in Row : CreateSchedule(s, row) \/ UpdateSchedule(s, row)
       \/ DeleteSchedule(s)
       \/ \E c \in Copies : Fire(s, c)
  \/ \E c \in Channels : DeleteChannel(c) \/ \E to \in SUBSET Schedules : AssignSchedules(c, to)
  \/ \E c \in Copies : StartupRefresh(c)
  \/ \E r \in Schedules \X Copies :
       \/ ChecksOver(r) \/ Told(r) \/ UpdateOver(r) \/ Delivered(r)
       \/ \E x \in Systems : CheckEnds(r, x) \/ UpgradeEnds(r, x) \/ UpgradeThrows(r, x)
  \/ \E x \in Systems : DeleteSystem(x)

Spec == Init /\ [][Next]_vars

-------------------------------------------------------------------------------
\* A timer works on the row as it is, but for channels that are no more.
TimersMatchRows ==
  \A s \in Schedules :
    LET timer == timers[s] IN
    TimersOf(schedule)[s] =
      IF timer = Absent THEN Absent ELSE [timer EXCEPT !.channels = @ \cap channels]

\* A digest names channels that exist: a row that does not could not be edited any more.
TargetsExist == \A s \in Schedules : schedule[s] # Absent => schedule[s].channels \subseteq channels

(* Whatever is edited while timers and runs are about, a schedule does     *)
(* what its row says, and can be edited.                                   *)
SchedulesSound == TimersMatchRows /\ TargetsExist

\* Not so: README.md:293, update schedules "run the normal per-system Upgrade
\* action where visible updates remain": a run that overlaps may have upgraded the system.
UpgradesWhereUpdatesRemain ==
  [][\A r \in Schedules \X Copies : In(r, "upgrading") /\ runs'[r] # Absent =>
       (runs'[r].upgraded \ runs[r].upgraded) \subseteq outdated]_vars

\* Not so: a run goes on when its schedule is disabled or deleted.
UpgradesOfEnabled ==
  [][\A s \in Schedules, c \in Copies : In(<<s, c>>, "upgrading") /\ runs'[s, c] # Absent
       /\ runs'[s, c].upgraded # runs[s, c].upgraded =>
         schedule[s] # Absent /\ schedule[s].enabled]_vars
================================================================================
