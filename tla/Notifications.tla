----------------------------- MODULE Notifications -----------------------------
(***************************************************************************)
(* From the schedules to the messages: the runs of refresh and             *)
(* notification schedules (services/scheduler.ts), the channels, their     *)
(* pending events and the marks of what they were told                     *)
(* (services/notification-service.ts), and what users change meanwhile     *)
(* (services/schedule-service.ts).                                         *)
(*                                                                         *)
(* An action is the code between two awaits; the runs await the checks,    *)
(* the app update status, and each message.  A run reads its channels once *)
(* and works on that snapshot, while other runs change the rows.           *)
(*                                                                         *)
(* A system has at most one update, of some version; every channel         *)
(* subscribes to all three kinds of events; hidden systems and the unused  *)
(* column notifications.schedule are left out.                             *)
(***************************************************************************)
EXTENDS Integers, FiniteSets

CONSTANTS
  NumChannels,   \* channels are numbered in the order of their rows
  Systems,
  Scope,         \* the systems of each channel
  Schedules,     \* notification schedules
  Assigned,      \* the channels of each schedule at the beginning
  CheckRuns,     \* runs of refresh schedules, each used again and again
  DigestRuns,    \* runs of notification schedules, likewise
  MaxVersion,    \* bound: versions of an update
  MaxApp,        \* bound: versions of the dashboard itself
  MaxOutages,    \* bound: how often a system becomes unreachable
  MaxChanges     \* bound: changes by users, and restarts

Channels == 1..NumChannels
Runs == CheckRuns \union DigestRuns

ASSUME NotificationsAssumption ==
  /\ NumChannels \in Nat \ {0} /\ MaxVersion \in Nat /\ MaxApp \in Nat
  /\ MaxOutages \in Nat /\ MaxChanges \in Nat
  /\ Scope \in [Channels -> SUBSET Systems] /\ Assigned \in [Schedules -> SUBSET Channels]
  /\ CheckRuns \intersect DigestRuns = {}

VARIABLES
  visible,    \* the version of the visible update of each system, 0 for none
  reach,      \* the systems known as reachable
  release,    \* the version of the dashboard offered, 0 for none
  channel,    \* the row of each channel: enabled, pending events, app version
  delivered,  \* notificationDeliveredUpdates: the updates each channel was told
  sched,      \* the schedules: enabled, channels
  run,        \* the progress of each run
  sent,       \* history: what the messages each channel accepted contained
  changes, outages

world == <<visible, reach, release, outages>>
vars == <<visible, reach, release, channel, delivered, sched, run, sent, changes, outages>>

Updates == Systems \X (1..MaxVersion)

\* Events as they are queued and sent.
Events == [upd : SUBSET Updates, down : SUBSET Systems, app : 0..MaxApp]
NoEvents == [upd |-> {}, down |-> {}, app |-> 0]

\* mergePendingUpdateResults, mergeCheckResults and appendPendingAppUpdate.
Merge(old, new) ==
  [upd |-> old.upd \union new.upd, down |-> old.down \union new.down,
   app |-> IF new.app # 0 THEN new.app ELSE old.app]

\* What getVisibleCachedUpdates knows.
Current == {<<s, visible[s]>> : s \in {t \in Systems : visible[t] # 0}}

\* Where a run is:
\* "idle", "checking" (awaits the checks), "results" (awaits a message of
\* processScheduledResults), "queued" (between the two calls), "status" (awaits
\* the app update status), "app" (awaits a message about it), "digest" (awaits a
\* message of processScheduledNotificationDeliveries).
PcStates == {"idle", "checking", "results", "queued", "status", "app", "digest"}

Sending == {"results", "app", "digest"}

NewRow == [on |-> TRUE, pend |-> NoEvents, app |-> 0]

Idle == [pc |-> "idle", of |-> {}, was |-> {}, upd |-> {}, down |-> {}, todo |-> {},
         digest |-> {}, snap |-> [c \in Channels |-> NewRow], to |-> 0, msg |-> NoEvents]

-----------------------------------------------------------------------------
Init ==
  /\ visible = [s \in Systems |-> 0]
  /\ reach = Systems
  /\ release = 0
  /\ channel = [c \in Channels |-> NewRow]
  /\ delivered = [c \in Channels |-> {}]
  /\ sched = [d \in Schedules |-> [on |-> TRUE, chans |-> Assigned[d]]]
  /\ run = [r \in Runs |-> Idle]
  /\ sent = [c \in Channels |-> [upd |-> {}, app |-> {}]]
  /\ changes = 0 /\ outages = 0

EnabledChannels == {c \in Channels : channel[c].on}

\* getEnabledScheduledNotificationIds
Scheduled == UNION {sched[d].chans : d \in {e \in Schedules : sched[e].on}}

-----------------------------------------------------------------------------
(* The loops over the channels of a run.  msg[c] is what the loop is about  *)
(* to send to c, NoEvents if nothing; pend[c] the pending events it leaves. *)

\* The channels handled before the loop awaits or ends, the one it sends to
\* included.
Passed(todo, msg) == {c \in todo : \A d \in todo : d < c => msg[d] = NoEvents}
Stop(todo, msg) == {c \in Passed(todo, msg) : msg[c] # NoEvents}

\* Run r, with the record k, goes on with the loop `pc` over k.todo; `then` is
\* its record when nothing is left to send.  `rows` are the channels' rows.  Of
\* the snapshot it keeps what it will look at again.
Loop(r, k, pc, msg, pend, then, rows) ==
  /\ channel' = [c \in Channels |->
                   IF c \in Passed(k.todo, msg) THEN [rows[c] EXCEPT !.pend = pend[c]] ELSE rows[c]]
  /\ IF Stop(k.todo, msg) = {}
     THEN run' = [run EXCEPT ![r] = then]
     ELSE \E c \in Stop(k.todo, msg) :
            LET left == k.todo \ Passed(k.todo, msg) IN
            run' = [run EXCEPT ![r] =
              [k EXCEPT !.pc = pc, !.to = c, !.msg = msg[c], !.todo = left,
                        !.snap = [d \in Channels |-> IF d \in left \union {c} THEN @[d] ELSE NewRow]]]

-----------------------------------------------------------------------------
(* Runs of refresh schedules. *)

\* MUTANT of ResultEvents: the marks are not looked at.
ResultEventsAlways(k, c) ==
  [upd |-> IF \E p \in Current : p[1] \in k.upd \intersect Scope[c]
           THEN {p \in Current : p[1] \in Scope[c]} ELSE {},
   down |-> k.down \intersect Scope[c], app |-> 0]

\* MUTANT of ResultEvents: what is pending already is not queued or sent again.
ResultEventsNotPending(k, c) ==
  LET checked == {p \in Current : p[1] \in k.upd \intersect Scope[c]} IN
  [upd |-> IF checked \subseteq delivered[c] \union channel[c].pend.upd THEN {}
           ELSE {p \in Current : p[1] \in Scope[c]},
   down |-> k.down \intersect Scope[c], app |-> 0]

\* What a check means for a channel: if one of the systems checked has an
\* update the channel was not told, all current updates of its scope, and the
\* systems the check found unreachable.
ResultEvents(k, c) ==
  LET checked == {p \in Current : p[1] \in k.upd \intersect Scope[c]} IN
  [upd |-> IF checked \subseteq delivered[c] THEN {} ELSE {p \in Current : p[1] \in Scope[c]},
   down |-> k.down \intersect Scope[c], app |-> 0]

\* The loop of processScheduledResults.
ResultsLoop(r, k) ==
  LET msg == [c \in Channels |-> IF c \in k.digest THEN NoEvents ELSE ResultEvents(k, c)]
      pend == [c \in Channels |-> IF c \in k.digest THEN Merge(channel[c].pend, ResultEvents(k, c))
                                                    ELSE channel[c].pend]
  IN Loop(r, k, "results", msg, pend, [Idle EXCEPT !.pc = "queued"], channel)

\* checkSystemsAndNotify up to its first await, for the stale systems T.
StartCheck(r, T) ==
  /\ run[r].pc = "idle" /\ T # {}
  /\ run' = [run EXCEPT ![r] = [Idle EXCEPT !.pc = "checking", !.of = T, !.was = reach \intersect T]]
  /\ UNCHANGED <<world, channel, delivered, sched, sent, changes>>

\* A check of s, by this run or by anybody, stores the update it found, or does
\* not reach s and leaves what is stored.
Checked(s) ==
  /\ \/ /\ \E v \in 0..MaxVersion : visible' = [visible EXCEPT ![s] = v]
        /\ reach' = reach \union {s}
        /\ UNCHANGED outages
     \/ /\ s \in reach /\ outages < MaxOutages
        /\ reach' = reach \ {s} /\ outages' = outages + 1
        /\ UNCHANGED visible
  /\ UNCHANGED <<release, channel, delivered, sched, run, sent, changes>>

\* The checks of the run are over: processScheduledResults.
ProcessResults(r) ==
  LET k == run[r] IN
  /\ k.pc = "checking"
  /\ ResultsLoop(r, [Idle EXCEPT !.upd = {s \in k.of : visible[s] # 0}, !.down = k.was \ reach,
                                 !.todo = EnabledChannels, !.digest = Scheduled])
  /\ UNCHANGED <<world, delivered, sched, sent, changes>>

\* processAppUpdateNotifications reads the channels and asks for the status.
AskAppStatus(r) ==
  /\ run[r].pc = "queued"
  /\ LET known == [c \in Channels |->
                     IF channel[c].on
                     THEN [NewRow EXCEPT !.app = channel[c].app, !.pend.app = channel[c].pend.app]
                     ELSE NewRow]
     IN run' = [run EXCEPT ![r] =
                  IF EnabledChannels = {} THEN Idle
                  ELSE [Idle EXCEPT !.pc = "status", !.todo = EnabledChannels, !.snap = known]]
  /\ UNCHANGED <<world, channel, delivered, sched, sent, changes>>

\* What the snapshot of a channel lacks; k.msg carries the version until then.
AppEvents(k, c) ==
  IF k.msg.app \in {k.snap[c].app, k.snap[c].pend.app} THEN NoEvents ELSE k.msg

\* The loop of processAppUpdateNotifications.
AppLoop(r, k, rows) ==
  LET msg == [c \in Channels |-> IF c \in k.digest THEN NoEvents ELSE AppEvents(k, c)]
      pend == [c \in Channels |-> IF c \in k.digest THEN Merge(channel[c].pend, AppEvents(k, c))
                                                    ELSE channel[c].pend]
  IN Loop(r, k, "app", msg, pend, Idle, rows)

\* The status answers, with a version or without.
AppStatus(r) ==
  LET k == run[r] IN
  /\ k.pc = "status"
  /\ \/ /\ release # 0
        /\ AppLoop(r, [k EXCEPT !.msg.app = release, !.digest = Scheduled], channel)
     \/ /\ run' = [run EXCEPT ![r] = Idle]
        /\ UNCHANGED channel
  /\ UNCHANGED <<world, delivered, sched, sent, changes>>

-----------------------------------------------------------------------------
(* Runs of notification schedules. *)

\* What processScheduledNotificationDeliveries sends of the events it has read:
\* the updates only if one of them is not marked.
Deliverable(k, c) ==
  LET pend == k.snap[c].pend IN
  [pend EXCEPT !.upd = IF pend.upd \subseteq delivered[c] THEN {} ELSE pend.upd]

\* Its loop; the events are written back if updates were taken out.
DigestLoop(r, k, rows) ==
  LET msg == [c \in Channels |-> Deliverable(k, c)]
      pend == [c \in Channels |-> IF msg[c] # k.snap[c].pend THEN msg[c] ELSE channel[c].pend]
  IN Loop(r, k, "digest", msg, pend, Idle, rows)

\* The timer of the schedule d fires.
StartDigest(r, d) ==
  /\ run[r].pc = "idle" /\ sched[d].on
  /\ DigestLoop(r, [Idle EXCEPT !.snap = channel, !.todo = EnabledChannels \intersect sched[d].chans],
                channel)
  /\ UNCHANGED <<world, delivered, sched, sent, changes>>

-----------------------------------------------------------------------------
(* Messages. *)

\* MUTANT of MarkDelivered: the updates visible after the message are marked.
MarkVisible(k) ==
  delivered' = [delivered EXCEPT ![k.to] = @ \union {p \in Current : p[1] \in Scope[k.to]}]

\* markDeliveredUpdateVersions
MarkDelivered(k) == delivered' = [delivered EXCEPT ![k.to] = @ \union k.msg.upd]

\* The row of a channel after a message to it: the digest clears the pending
\* events and stores the version of its snapshot if it sent none.
SentRow(k) ==
  [channel EXCEPT ![k.to] =
     IF k.pc = "digest"
     THEN [@ EXCEPT !.pend = NoEvents, !.app = IF k.msg.app # 0 THEN k.msg.app ELSE k.snap[k.to].app]
     ELSE IF k.pc = "app" THEN [@ EXCEPT !.app = k.msg.app] ELSE @]

\* The run goes on with the next channel.
Continue(r, rows) ==
  LET k == run[r] IN
  \/ k.pc = "results" /\ ResultsLoop(r, [k EXCEPT !.to = 0, !.msg = NoEvents])
  \/ k.pc = "app" /\ AppLoop(r, [k EXCEPT !.to = 0], rows)
  \/ k.pc = "digest" /\ DigestLoop(r, [k EXCEPT !.to = 0, !.msg = NoEvents], rows)

\* What channels have accepted once the message of k is.
Accepted(k) ==
  [sent EXCEPT ![k.to] = [upd |-> @.upd \union k.msg.upd, app |-> @.app \union ({k.msg.app} \ {0})]]

\* The provider accepts the message.
SendSucceeds(r) ==
  LET k == run[r] IN
  /\ k.pc \in Sending
  /\ sent' = Accepted(k)
  /\ MarkDelivered(k)
  /\ Continue(r, SentRow(k))
  /\ UNCHANGED <<world, sched, changes>>

\* It refuses it, or its answer is lost, and the retries are used up: nothing is
\* marked or cleared.
SendFails(r) ==
  /\ run[r].pc \in Sending
  /\ sent' \in {sent, Accepted(run[r])}
  /\ Continue(r, channel)
  /\ UNCHANGED <<world, delivered, sched, changes>>

-----------------------------------------------------------------------------
(* What else happens. *)

\* A new version of the dashboard is published.
Release ==
  /\ release < MaxApp
  /\ release' = release + 1
  /\ UNCHANGED <<visible, reach, outages, channel, delivered, sched, run, sent, changes>>

Change == changes < MaxChanges /\ changes' = changes + 1

\* updateNotificationScheduleAssignments; pending events go if the set changed.
AssignSchedules(c, S) ==
  /\ Change
  /\ {d \in Schedules : c \in sched[d].chans} # S
  /\ sched' = [d \in Schedules |-> [sched[d] EXCEPT !.chans = IF d \in S THEN @ \union {c} ELSE @ \ {c}]]
  /\ channel' = [channel EXCEPT ![c].pend = NoEvents]
  /\ UNCHANGED <<world, delivered, run, sent>>

\* deleteSchedule (a deleted schedule is one without channels)
DeleteSchedule(d) ==
  /\ Change
  /\ sched' = [sched EXCEPT ![d] = [on |-> FALSE, chans |-> {}]]
  /\ channel' = [c \in Channels |-> IF c \in sched[d].chans THEN [channel[c] EXCEPT !.pend = NoEvents]
                                                          ELSE channel[c]]
  /\ UNCHANGED <<world, delivered, run, sent>>

\* updateSchedule, for the field enabled or the field notificationIds (a deleted
\* schedule that is changed stands for createSchedule)
UpdateSchedule(d) ==
  /\ Change
  /\ \E b \in BOOLEAN, C \in SUBSET Channels :
       /\ b # sched[d].on \/ C # sched[d].chans
       /\ b = sched[d].on \/ C = sched[d].chans
       /\ sched' = [sched EXCEPT ![d] = [on |-> b, chans |-> C]]
  /\ UNCHANGED <<world, channel, delivered, run, sent>>

\* updateNotification, for the field enabled
ToggleChannel(c) ==
  /\ Change
  /\ channel' = [channel EXCEPT ![c].on = ~@]
  /\ UNCHANGED <<world, delivered, sched, run, sent>>

\* resetNotificationUpdateDedupe
ResetDedupe(c) ==
  /\ Change
  /\ delivered' = [delivered EXCEPT ![c] = {}]
  /\ UNCHANGED <<world, channel, sched, run, sent>>

\* The dashboard restarts: the runs are lost, the database stays.
Restart ==
  /\ Change
  /\ run' = [r \in Runs |-> Idle]
  /\ UNCHANGED <<world, channel, delivered, sched, sent>>

-----------------------------------------------------------------------------
(* The specification. *)

CheckStep(r) == ProcessResults(r) \/ AskAppStatus(r) \/ AppStatus(r)
SendStep(r) == SendSucceeds(r) \/ SendFails(r)

Next ==
  \/ \E r \in CheckRuns : CheckStep(r) \/ \E T \in SUBSET Systems : StartCheck(r, T)
  \/ \E r \in DigestRuns, d \in Schedules : StartDigest(r, d)
  \/ \E r \in Runs : SendStep(r)
  \/ \E s \in Systems : Checked(s)
  \/ \E c \in Channels : ToggleChannel(c) \/ ResetDedupe(c)
  \/ \E c \in Channels, S \in SUBSET Schedules : AssignSchedules(c, S)
  \/ \E d \in Schedules : DeleteSchedule(d) \/ UpdateSchedule(d)
  \/ Release \/ Restart

Spec == Init /\ [][Next]_vars

\* The timers fire again and again, every await ends, and the provider of a
\* channel does not refuse for ever.
Fairness ==
  /\ \A r \in CheckRuns : WF_vars(CheckStep(r)) /\ WF_vars(StartCheck(r, Systems))
  /\ \A d \in Schedules : WF_vars(\E r \in DigestRuns : StartDigest(r, d))
  /\ \A r \in Runs : WF_vars(SendStep(r))
  /\ \A c \in Channels : SF_vars(\E r \in Runs : run[r].to = c /\ SendSucceeds(r))

FairSpec == Spec /\ Fairness

-----------------------------------------------------------------------------
(* Properties. *)

Rows == [on : BOOLEAN, pend : Events, app : 0..MaxApp]

RunRecords ==
  [pc : PcStates, of : SUBSET Systems, was : SUBSET Systems, upd : SUBSET Systems,
   down : SUBSET Systems, todo : SUBSET Channels, digest : SUBSET Channels,
   snap : [Channels -> Rows], to : Channels \union {0}, msg : Events]

\* The run k has a message exactly while it sends one, and the channel is none of
\* those still to come.
MessageOK(k) ==
  IF k.pc \in Sending THEN k.to \in Channels \ k.todo /\ k.msg # NoEvents
                      ELSE k.to = 0 /\ k.msg = NoEvents

\* Every variable has its type, and the messages of the runs are as above.
TypeOK ==
  /\ visible \in [Systems -> 0..MaxVersion] /\ reach \subseteq Systems
  /\ release \in 0..MaxApp /\ outages \in 0..MaxOutages /\ changes \in 0..MaxChanges
  /\ channel \in [Channels -> Rows]
  /\ delivered \in [Channels -> SUBSET Updates]
  /\ sched \in [Schedules -> [on : BOOLEAN, chans : SUBSET Channels]]
  /\ run \in [Runs -> RunRecords]
  /\ sent \in [Channels -> [upd : SUBSET Updates, app : SUBSET (1..MaxApp)]]
  /\ \A r \in Runs : MessageOK(run[r])

\* A mark silences an update for a channel for ever: it is set only for an update
\* that a message the channel accepted contained, and so is the app version.
MarksWereSent ==
  \A c \in Channels : delivered[c] \subseteq sent[c].upd /\ channel[c].app \in sent[c].app \union {0}

\* What a run begins to send has an outage, an app version, or an update its
\* channel was not told.
SendsNews ==
  \A r \in Runs :
    (run'[r] # run[r] /\ run'[r].pc \in Sending) =>
      LET m == run'[r].msg IN
      m.down # {} \/ m.app # 0 \/ ~(m.upd \subseteq delivered'[run'[r].to])

\* A message is never a mere repetition of updates the channel was told
\* (update-notification-dedupe.test.ts:190), also when two runs work on the same
\* channel.
MessagesHaveNews == [][SendsNews]_vars

\* An update that stays is announced on every channel that is enabled and has its
\* system in scope, whatever runs overlap, schedules change or restarts happen.
UpdatesAnnounced ==
  \A c \in Channels, s \in Systems, v \in 1..MaxVersion :
    (s \in Scope[c] /\ visible[s] = v /\ channel[c].on)
      ~> (<<s, v>> \in delivered[c] \/ visible[s] # v \/ ~channel[c].on)

-----------------------------------------------------------------------------
(* What the documentation says, and the code does not keep. *)

\* README.md:294, notification schedules "deliver pending event batches": an event
\* leaves the pending ones of its channel only because a message with it was
\* accepted, or by a change of a user.
EventsAreDelivered ==
  [][changes' = changes =>
       \A c \in Channels :
         LET old == channel[c].pend
             new == channel'[c].pend
         IN /\ old.upd \ new.upd \subseteq sent'[c].upd
            /\ old.down \ new.down \subseteq UNION {run[r].msg.down : r \in {q \in Runs : run[q].to = c}}
            /\ new.app # old.app => old.app \in sent'[c].app \union {0}]_vars

\* app-update-notification.test.ts:47, "sends immediate app update notifications
\* once per remote version": no message about a version goes to a channel that has
\* it as the version it was told.
AppVersionSentOnce ==
  [][\A r \in Runs :
       (run'[r] # run[r] /\ run'[r].pc = "app") => run'[r].msg.app # channel'[run'[r].to].app]_vars

\* What a channel was told about the dashboard's version is never forgotten.
AppVersionRemembered == [][\A c \in Channels : channel'[c].app >= channel[c].app]_vars
=============================================================================
