-------------------------- MODULE NotificationsProofs --------------------------
(***************************************************************************)
(* Proofs about Notifications, for any channels, systems, schedules and    *)
(* numbers of overlapping runs: the types, that nothing is marked as told  *)
(* that no accepted message contained, and that messages have news.        *)
(***************************************************************************)
EXTENDS Notifications, TLAPS

USE NotificationsAssumption DEF Channels, Runs

-----------------------------------------------------------------------------
(* What the operators return. *)

LEMMA NoEventsType == NoEvents \in Events
  BY DEF NoEvents, Events

LEMMA NewRowType == NewRow \in Rows
  BY NoEventsType DEF NewRow, Rows

LEMMA IdleType == Idle \in RunRecords /\ MessageOK(Idle)
  BY NoEventsType, NewRowType DEF Idle, RunRecords, MessageOK, Sending, PcStates

LEMMA MergeType ==
  ASSUME NEW old \in Events, NEW new \in Events
  PROVE  Merge(old, new) \in Events
  BY DEF Merge, Events

LEMMA CurrentType ==
  ASSUME visible \in [Systems -> 0..MaxVersion]
  PROVE  Current \subseteq Updates
  BY DEF Current, Updates

LEMMA ResultEventsType ==
  ASSUME visible \in [Systems -> 0..MaxVersion], NEW k \in RunRecords, NEW c \in Channels
  PROVE  ResultEvents(k, c) \in Events
<1>1. Current \subseteq Updates
  BY CurrentType
<1>2. k.down \subseteq Systems
  BY DEF RunRecords
<1> QED
  BY <1>1, <1>2 DEF ResultEvents, Events

LEMMA AppEventsType ==
  ASSUME NEW k \in RunRecords, NEW c \in Channels
  PROVE  AppEvents(k, c) \in Events
  BY NoEventsType DEF AppEvents, RunRecords

LEMMA DeliverableType ==
  ASSUME NEW k \in RunRecords, NEW c \in Channels
  PROVE  Deliverable(k, c) \in Events
<1>1. k.snap[c].pend \in Events
  BY DEF RunRecords, Rows
<1> QED
  BY <1>1 DEF Deliverable, Events

LEMMA ScheduledType ==
  ASSUME sched \in [Schedules -> [on : BOOLEAN, chans : SUBSET Channels]]
  PROVE  Scheduled \subseteq Channels
  BY DEF Scheduled

-----------------------------------------------------------------------------
(* A loop over the channels. *)

\* The loop keeps the types, and the run has a message exactly if it stopped.
LEMMA LoopType ==
  ASSUME run \in [Runs -> RunRecords], \A q \in Runs : MessageOK(run[q]),
         NEW r \in Runs, NEW k \in RunRecords, NEW pc \in Sending,
         NEW msg \in [Channels -> Events], NEW pend \in [Channels -> Events],
         NEW then \in RunRecords, MessageOK(then), NEW rows \in [Channels -> Rows],
         Loop(r, k, pc, msg, pend, then, rows)
  PROVE  /\ channel' \in [Channels -> Rows]
         /\ run' \in [Runs -> RunRecords]
         /\ \A q \in Runs : MessageOK(run'[q])
<1>1. channel' \in [Channels -> Rows]
  <2>1. \A c \in Channels : [rows[c] EXCEPT !.pend = pend[c]] \in Rows
    BY DEF Rows
  <2> QED
    BY <2>1 DEF Loop
<1>2. CASE Stop(k.todo, msg) = {}
  <2>1. run' = [run EXCEPT ![r] = then]
    BY <1>2 DEF Loop
  <2> QED
    BY <1>1, <2>1
<1>3. CASE Stop(k.todo, msg) # {}
  <2> DEFINE left == k.todo \ Passed(k.todo, msg)
             kept(c) == [d \in Channels |-> IF d \in left \union {c} THEN k.snap[d] ELSE NewRow]
             next(c) == [k EXCEPT !.pc = pc, !.to = c, !.msg = msg[c], !.todo = left, !.snap = kept(c)]
  <2>1. PICK c \in Stop(k.todo, msg) : run' = [run EXCEPT ![r] = next(c)]
    BY <1>3 DEF Loop
  <2>2. /\ k.todo \subseteq Channels /\ k.snap \in [Channels -> Rows]
        /\ pc \in PcStates
    BY DEF RunRecords, Sending, PcStates
  <2>3. c \in Channels /\ c \in Passed(k.todo, msg) /\ msg[c] # NoEvents
    BY <2>2 DEF Stop, Passed
  <2>4. left \subseteq Channels /\ c \notin left
    BY <2>2, <2>3
  <2>5. kept(c) \in [Channels -> Rows]
    BY <2>2, NewRowType
  <2>6. next(c) \in RunRecords
    <3> HIDE DEF left, kept
    <3> QED
      BY <2>2, <2>3, <2>4, <2>5 DEF RunRecords
  <2>7. MessageOK(next(c))
    <3>1. next(c).pc = pc /\ next(c).to = c /\ next(c).msg = msg[c] /\ next(c).todo = left
      BY DEF RunRecords
    <3> QED
      BY <3>1, <2>3, <2>4 DEF MessageOK
  <2> HIDE DEF next
  <2> QED
    BY <1>1, <2>1, <2>6, <2>7
<1> QED
  BY <1>2, <1>3

\* The three loops of the code.
LEMMA ResultsLoopType ==
  ASSUME TypeOK, NEW r \in Runs, NEW k \in RunRecords, ResultsLoop(r, k)
  PROVE  channel' \in [Channels -> Rows] /\ run' \in [Runs -> RunRecords] /\ \A q \in Runs : MessageOK(run'[q])
<1> DEFINE msg == [c \in Channels |-> IF c \in k.digest THEN NoEvents ELSE ResultEvents(k, c)]
           pend == [c \in Channels |-> IF c \in k.digest THEN Merge(channel[c].pend, ResultEvents(k, c))
                                                         ELSE channel[c].pend]
           then == [Idle EXCEPT !.pc = "queued"]
<1>1. \A c \in Channels : ResultEvents(k, c) \in Events /\ channel[c].pend \in Events
  BY ResultEventsType DEF TypeOK, Rows
<1>2. msg \in [Channels -> Events] /\ pend \in [Channels -> Events]
  BY <1>1, NoEventsType, MergeType
<1>3. then \in RunRecords /\ MessageOK(then)
  BY IdleType DEF RunRecords, MessageOK, Sending, PcStates, Idle
<1>4. Loop(r, k, "results", msg, pend, then, channel)
  BY DEF ResultsLoop
<1> HIDE DEF msg, pend, then
<1> QED
  BY <1>2, <1>3, <1>4, LoopType DEF TypeOK, Sending

LEMMA AppLoopType ==
  ASSUME TypeOK, NEW r \in Runs, NEW k \in RunRecords, NEW rows \in [Channels -> Rows], AppLoop(r, k, rows)
  PROVE  channel' \in [Channels -> Rows] /\ run' \in [Runs -> RunRecords] /\ \A q \in Runs : MessageOK(run'[q])
<1> DEFINE msg == [c \in Channels |-> IF c \in k.digest THEN NoEvents ELSE AppEvents(k, c)]
           pend == [c \in Channels |-> IF c \in k.digest THEN Merge(channel[c].pend, AppEvents(k, c))
                                                         ELSE channel[c].pend]
<1>1. \A c \in Channels : AppEvents(k, c) \in Events /\ channel[c].pend \in Events
  BY AppEventsType DEF TypeOK, Rows
<1>2. msg \in [Channels -> Events] /\ pend \in [Channels -> Events]
  BY <1>1, NoEventsType, MergeType
<1>3. Loop(r, k, "app", msg, pend, Idle, rows)
  BY DEF AppLoop
<1> HIDE DEF msg, pend
<1> QED
  BY <1>2, <1>3, IdleType, LoopType DEF TypeOK, Sending

LEMMA DigestLoopType ==
  ASSUME TypeOK, NEW r \in Runs, NEW k \in RunRecords, NEW rows \in [Channels -> Rows], DigestLoop(r, k, rows)
  PROVE  channel' \in [Channels -> Rows] /\ run' \in [Runs -> RunRecords] /\ \A q \in Runs : MessageOK(run'[q])
<1> DEFINE msg == [c \in Channels |-> Deliverable(k, c)]
           pend == [c \in Channels |-> IF msg[c] # k.snap[c].pend THEN msg[c] ELSE channel[c].pend]
<1>1. \A c \in Channels : Deliverable(k, c) \in Events /\ channel[c].pend \in Events
  BY DeliverableType DEF TypeOK, Rows
<1>2. msg \in [Channels -> Events] /\ pend \in [Channels -> Events]
  BY <1>1
<1>3. Loop(r, k, "digest", msg, pend, Idle, rows)
  BY DEF DigestLoop
<1> HIDE DEF msg, pend
<1> QED
  BY <1>2, <1>3, IdleType, LoopType DEF TypeOK, Sending

LEMMA SentRowType ==
  ASSUME TypeOK, NEW r \in Runs, run[r].pc \in Sending
  PROVE  SentRow(run[r]) \in [Channels -> Rows]
<1> DEFINE k == run[r]
<1>1. k \in RunRecords /\ k.to \in Channels
  BY DEF TypeOK, MessageOK
<1>2. k.msg.app \in 0..MaxApp /\ k.snap[k.to].app \in 0..MaxApp
  BY <1>1 DEF RunRecords, Events, Rows
<1>3. channel[k.to] \in Rows
  BY <1>1 DEF TypeOK
<1> HIDE DEF k
<1>4. /\ [channel[k.to] EXCEPT !.pend = NoEvents,
                               !.app = IF k.msg.app # 0 THEN k.msg.app ELSE k.snap[k.to].app] \in Rows
      /\ [channel[k.to] EXCEPT !.app = k.msg.app] \in Rows
  BY <1>2, <1>3, NoEventsType DEF Rows
<1>5. SentRow(k) \in [Channels -> Rows]
  BY <1>1, <1>3, <1>4 DEF SentRow, TypeOK
<1> QED
  BY <1>5 DEF k

LEMMA ContinueType ==
  ASSUME TypeOK, NEW r \in Runs, NEW rows \in [Channels -> Rows], Continue(r, rows)
  PROVE  channel' \in [Channels -> Rows] /\ run' \in [Runs -> RunRecords] /\ \A q \in Runs : MessageOK(run'[q])
<1> DEFINE kept == [run[r] EXCEPT !.to = 0]
           clear == [run[r] EXCEPT !.to = 0, !.msg = NoEvents]
<1>1. run[r] \in RunRecords
  BY DEF TypeOK
<1>2. kept \in RunRecords /\ clear \in RunRecords
  BY <1>1, NoEventsType DEF RunRecords
<1>3. ResultsLoop(r, clear) \/ AppLoop(r, kept, rows) \/ DigestLoop(r, clear, rows)
  BY DEF Continue
<1> HIDE DEF kept, clear
<1> QED
  BY <1>2, <1>3, ResultsLoopType, AppLoopType, DigestLoopType

-----------------------------------------------------------------------------
(* The types. *)

\* What is left of TypeOK when the rows of the channels and the runs are as they
\* should be and nothing else but the history changed.
LEMMA OnlyRuns ==
  ASSUME TypeOK, channel' \in [Channels -> Rows], run' \in [Runs -> RunRecords],
         \A q \in Runs : MessageOK(run'[q]), UNCHANGED <<world, sched, changes>>,
         delivered' \in [Channels -> SUBSET Updates],
         sent' \in [Channels -> [upd : SUBSET Updates, app : SUBSET (1..MaxApp)]]
  PROVE  TypeOK'
  BY DEF TypeOK, world

LEMMA CheckStepType ==
  ASSUME TypeOK, NEW r \in CheckRuns,
         CheckStep(r) \/ \E T \in SUBSET Systems : StartCheck(r, T)
  PROVE  TypeOK'
<1>1. run[r] \in RunRecords /\ MessageOK(run[r]) /\ r \in Runs
  BY DEF TypeOK
<1>2. ASSUME NEW T \in SUBSET Systems, StartCheck(r, T)
      PROVE  TypeOK'
  <2> DEFINE k == [Idle EXCEPT !.pc = "checking", !.of = T, !.was = reach \intersect T]
  <2>1. k \in RunRecords /\ MessageOK(k)
    BY IdleType DEF RunRecords, MessageOK, Sending, PcStates, Idle
  <2>2. run' = [run EXCEPT ![r] = k] /\ UNCHANGED <<world, channel, delivered, sched, sent, changes>>
    BY <1>2 DEF StartCheck
  <2> HIDE DEF k
  <2>3. run' \in [Runs -> RunRecords] /\ \A q \in Runs : MessageOK(run'[q])
    BY <1>1, <2>1, <2>2 DEF TypeOK
  <2> QED
    BY <2>2, <2>3 DEF TypeOK, world
<1>3. CASE ProcessResults(r)
  <2> DEFINE k == [Idle EXCEPT !.upd = {s \in run[r].of : visible[s] # 0}, !.down = run[r].was \ reach,
                               !.todo = EnabledChannels, !.digest = Scheduled]
  <2>1. {s \in run[r].of : visible[s] # 0} \subseteq Systems /\ run[r].was \ reach \subseteq Systems
    BY <1>1 DEF RunRecords
  <2>2. EnabledChannels \subseteq Channels /\ Scheduled \subseteq Channels
    BY ScheduledType DEF EnabledChannels, TypeOK
  <2>3. k \in RunRecords
    BY <2>1, <2>2, IdleType DEF RunRecords
  <2>4. ResultsLoop(r, k) /\ UNCHANGED <<world, delivered, sched, sent, changes>>
    BY <1>3 DEF ProcessResults
  <2> HIDE DEF k
  <2> QED
    BY <1>1, <2>3, <2>4, ResultsLoopType, OnlyRuns DEF TypeOK
<1>4. CASE AskAppStatus(r)
  <2> DEFINE known == [c \in Channels |->
                         IF channel[c].on
                         THEN [NewRow EXCEPT !.app = channel[c].app, !.pend.app = channel[c].pend.app]
                         ELSE NewRow]
             k == [Idle EXCEPT !.pc = "status", !.todo = EnabledChannels, !.snap = known]
  <2>1. \A c \in Channels : channel[c].app \in 0..MaxApp /\ channel[c].pend.app \in 0..MaxApp
    BY DEF TypeOK, Rows, Events
  <2>2. known \in [Channels -> Rows]
    BY <2>1, NewRowType, NoEventsType DEF Rows, Events, NewRow, NoEvents
  <2> HIDE DEF known
  <2>3. k \in RunRecords /\ MessageOK(k)
    BY <2>2, IdleType DEF RunRecords, MessageOK, Sending, PcStates, Idle, EnabledChannels
  <2>4. (run' = [run EXCEPT ![r] = k] \/ run' = [run EXCEPT ![r] = Idle])
        /\ UNCHANGED <<world, channel, delivered, sched, sent, changes>>
    BY <1>4 DEF AskAppStatus, known
  <2> HIDE DEF k
  <2>5. run' \in [Runs -> RunRecords] /\ \A q \in Runs : MessageOK(run'[q])
    BY <1>1, <2>3, <2>4, IdleType DEF TypeOK
  <2> QED
    BY <2>4, <2>5 DEF TypeOK, world
<1>5. CASE AppStatus(r)
  <2> DEFINE k == [run[r] EXCEPT !.msg.app = release, !.digest = Scheduled]
  <2>1. [run[r].msg EXCEPT !.app = release] \in Events
    BY <1>1 DEF RunRecords, Events, TypeOK
  <2>2. k \in RunRecords
    BY <1>1, <2>1, ScheduledType DEF RunRecords, TypeOK
  <2>3. UNCHANGED <<world, delivered, sched, sent, changes>>
    BY <1>5 DEF AppStatus
  <2>4. CASE AppLoop(r, k, channel)
    <3> HIDE DEF k
    <3> QED
      BY <1>1, <2>2, <2>3, <2>4, AppLoopType, OnlyRuns DEF TypeOK
  <2>5. CASE run' = [run EXCEPT ![r] = Idle] /\ UNCHANGED channel
    <3>1. run' \in [Runs -> RunRecords] /\ \A q \in Runs : MessageOK(run'[q])
      BY <1>1, <2>5, IdleType DEF TypeOK
    <3> QED
      BY <2>3, <2>5, <3>1 DEF TypeOK, world
  <2> QED
    BY <1>5, <2>4, <2>5 DEF AppStatus
<1> QED
  BY <1>2, <1>3, <1>4, <1>5 DEF CheckStep

LEMMA StartDigestType ==
  ASSUME TypeOK, NEW r \in DigestRuns, NEW d \in Schedules, StartDigest(r, d)
  PROVE  TypeOK'
<1> DEFINE k == [Idle EXCEPT !.snap = channel, !.todo = EnabledChannels \intersect sched[d].chans]
<1>1. k \in RunRecords
  BY IdleType DEF RunRecords, TypeOK, EnabledChannels
<1>2. DigestLoop(r, k, channel) /\ UNCHANGED <<world, delivered, sched, sent, changes>> /\ r \in Runs
  BY DEF StartDigest
<1> HIDE DEF k
<1> QED
  BY <1>1, <1>2, DigestLoopType, OnlyRuns DEF TypeOK

LEMMA SendStepType ==
  ASSUME TypeOK, NEW r \in Runs, SendStep(r)
  PROVE  TypeOK'
<1> DEFINE k == run[r]
<1>1. k.pc \in Sending /\ k.to \in Channels /\ k \in RunRecords
  BY DEF SendStep, SendSucceeds, SendFails, TypeOK, MessageOK
<1>2. k.msg.upd \subseteq Updates /\ k.msg.app \in 0..MaxApp
  BY <1>1 DEF RunRecords, Events
<1>3. UNCHANGED <<world, sched, changes>>
  BY DEF SendStep, SendSucceeds, SendFails
<1>4. Accepted(k) \in [Channels -> [upd : SUBSET Updates, app : SUBSET (1..MaxApp)]]
  BY <1>1, <1>2 DEF Accepted, TypeOK
<1>5. sent' \in [Channels -> [upd : SUBSET Updates, app : SUBSET (1..MaxApp)]]
  BY <1>4 DEF SendStep, SendSucceeds, SendFails, TypeOK
<1>6. delivered' \in [Channels -> SUBSET Updates]
  <2>1. \/ delivered' = delivered
        \/ delivered' = [delivered EXCEPT ![k.to] = @ \union k.msg.upd]
    BY DEF SendStep, SendSucceeds, SendFails, MarkDelivered
  <2>2. delivered \in [Channels -> SUBSET Updates]
    BY DEF TypeOK
  <2> HIDE DEF k
  <2> QED
    BY <1>1, <1>2, <2>1, <2>2
<1>7. SentRow(k) \in [Channels -> Rows] /\ channel \in [Channels -> Rows]
  BY <1>1, SentRowType DEF TypeOK
<1>8. Continue(r, SentRow(k)) \/ Continue(r, channel)
  BY DEF SendStep, SendSucceeds, SendFails
<1> HIDE DEF k
<1> QED
  BY <1>3, <1>5, <1>6, <1>7, <1>8, ContinueType, OnlyRuns

LEMMA WorldType ==
  ASSUME TypeOK, Release \/ \E s \in Systems : Checked(s)
  PROVE  TypeOK'
<1>1. CASE Release
  BY <1>1 DEF Release, TypeOK
<1>2. ASSUME NEW s \in Systems, Checked(s)
      PROVE  TypeOK'
  <2>1. visible' \in [Systems -> 0..MaxVersion] /\ reach' \subseteq Systems /\ outages' \in 0..MaxOutages
    BY <1>2 DEF Checked, TypeOK
  <2>2. UNCHANGED <<release, channel, delivered, sched, run, sent, changes>>
    BY <1>2 DEF Checked
  <2> QED
    BY <2>1, <2>2 DEF TypeOK
<1> QED
  BY <1>1, <1>2

LEMMA ToggledRow ==
  ASSUME NEW row \in Rows, NEW b \in BOOLEAN
  PROVE  [row EXCEPT !.on = b] \in Rows
  BY DEF Rows

LEMMA ReassignedSchedule ==
  ASSUME NEW x \in [on : BOOLEAN, chans : SUBSET Channels], NEW C \in SUBSET Channels
  PROVE  [x EXCEPT !.chans = C] \in [on : BOOLEAN, chans : SUBSET Channels]
  OBVIOUS

LEMMA ChangeType ==
  ASSUME TypeOK,
         \/ \E c \in Channels : ToggleChannel(c) \/ ResetDedupe(c)
         \/ \E c \in Channels, S \in SUBSET Schedules : AssignSchedules(c, S)
         \/ \E d \in Schedules : DeleteSchedule(d) \/ UpdateSchedule(d)
         \/ Restart
  PROVE  TypeOK'
<1>1. changes' \in 0..MaxChanges
  BY DEF TypeOK, ToggleChannel, ResetDedupe, AssignSchedules, DeleteSchedule, UpdateSchedule, Restart, Change
<1>2. ASSUME NEW c \in Channels PROVE [channel[c] EXCEPT !.pend = NoEvents] \in Rows
  BY NoEventsType DEF TypeOK, Rows
<1>3. ASSUME NEW c \in Channels, ToggleChannel(c) \/ ResetDedupe(c)
      PROVE  TypeOK'
  <2>1. CASE ToggleChannel(c)
    <3>1. [channel[c] EXCEPT !.on = ~channel[c].on] \in Rows
      <4>1. channel[c] \in Rows /\ (~channel[c].on) \in BOOLEAN
        BY DEF TypeOK
      <4> QED
        BY <4>1, ToggledRow
    <3>2. channel' \in [Channels -> Rows]
      BY <2>1, <3>1 DEF ToggleChannel, TypeOK
    <3> QED
      BY <1>1, <2>1, <3>2 DEF ToggleChannel, TypeOK, world
  <2>2. CASE ResetDedupe(c)
    BY <1>1, <2>2 DEF ResetDedupe, TypeOK, world
  <2> QED
    BY <1>3, <2>1, <2>2
<1>4. ASSUME NEW c \in Channels, NEW S \in SUBSET Schedules, AssignSchedules(c, S)
      PROVE  TypeOK'
  <2>1. channel' \in [Channels -> Rows]
    BY <1>2, <1>4 DEF AssignSchedules, TypeOK
  <2>2. sched' \in [Schedules -> [on : BOOLEAN, chans : SUBSET Channels]]
    <3> DEFINE C(d) == IF d \in S THEN sched[d].chans \union {c} ELSE sched[d].chans \ {c}
    <3>1. \A d \in Schedules : sched[d] \in [on : BOOLEAN, chans : SUBSET Channels]
      BY DEF TypeOK
    <3>2. \A d \in Schedules : C(d) \in SUBSET Channels
      BY <3>1
    <3>3. sched' = [d \in Schedules |-> [sched[d] EXCEPT !.chans = C(d)]]
      BY <1>4 DEF AssignSchedules
    <3> HIDE DEF C
    <3>4. \A d \in Schedules : [sched[d] EXCEPT !.chans = C(d)] \in [on : BOOLEAN, chans : SUBSET Channels]
      BY <3>1, <3>2, ReassignedSchedule
    <3> QED
      BY <3>3, <3>4, Zenon
  <2> QED
    BY <1>1, <1>4, <2>1, <2>2 DEF AssignSchedules, TypeOK, world
<1>5. ASSUME NEW d \in Schedules, DeleteSchedule(d) \/ UpdateSchedule(d)
      PROVE  TypeOK'
  <2>1. sched' \in [Schedules -> [on : BOOLEAN, chans : SUBSET Channels]]
    <3>1. sched \in [Schedules -> [on : BOOLEAN, chans : SUBSET Channels]]
      BY DEF TypeOK
    <3>2. CASE DeleteSchedule(d)
      <4>1. [on |-> FALSE, chans |-> {}] \in [on : BOOLEAN, chans : SUBSET Channels]
        OBVIOUS
      <4> QED
        BY <3>1, <3>2, <4>1 DEF DeleteSchedule
    <3>3. CASE UpdateSchedule(d)
      <4>1. PICK b \in BOOLEAN, C \in SUBSET Channels : sched' = [sched EXCEPT ![d] = [on |-> b, chans |-> C]]
        BY <3>3 DEF UpdateSchedule
      <4>2. [on |-> b, chans |-> C] \in [on : BOOLEAN, chans : SUBSET Channels]
        BY <4>1
      <4> QED
        BY <3>1, <4>1, <4>2
    <3> QED
      BY <1>5, <3>2, <3>3
  <2>2. channel' \in [Channels -> Rows]
    <3>1. CASE DeleteSchedule(d)
      BY <1>2, <3>1 DEF DeleteSchedule, TypeOK
    <3>2. CASE UpdateSchedule(d)
      <4>1. UNCHANGED channel
        BY <3>2 DEF UpdateSchedule
      <4> QED
        BY <4>1 DEF TypeOK
    <3> QED
      BY <1>5, <3>1, <3>2
  <2>3. UNCHANGED <<world, delivered, run, sent>>
    BY <1>5 DEF DeleteSchedule, UpdateSchedule
  <2> QED
    BY <1>1, <2>1, <2>2, <2>3 DEF TypeOK, world
<1>6. CASE Restart
  <2>1. run' \in [Runs -> RunRecords] /\ \A q \in Runs : MessageOK(run'[q])
    BY <1>6, IdleType DEF Restart
  <2> QED
    BY <1>1, <1>6, <2>1 DEF Restart, TypeOK, world
<1> QED
  BY <1>3, <1>4, <1>5, <1>6

\* The variables keep their types, and the messages of the runs go to a channel
\* they have not finished with.
THEOREM TypeCorrect == Spec => []TypeOK
<1>1. Init => TypeOK
  <2> SUFFICES ASSUME Init PROVE TypeOK
    OBVIOUS
  <2>1. run \in [Runs -> RunRecords] /\ \A q \in Runs : MessageOK(run[q])
    BY IdleType DEF Init
  <2> QED
    BY <2>1, NewRowType DEF Init, TypeOK
<1>2. TypeOK /\ [Next]_vars => TypeOK'
  <2> SUFFICES ASSUME TypeOK, [Next]_vars PROVE TypeOK'
    OBVIOUS
  <2>1. CASE UNCHANGED vars
    BY <2>1 DEF vars, TypeOK, MessageOK
  <2>2. CASE Next
    BY <2>2, CheckStepType, StartDigestType, SendStepType, WorldType, ChangeType DEF Next
  <2> QED
    BY <2>1, <2>2
<1> QED
  BY <1>1, <1>2, PTL DEF Spec

-----------------------------------------------------------------------------
(* The marks.  A digest may store the app version of its snapshot, so that  *)
(* the snapshots have to be truthful too.                                   *)

SnapshotsWereSent ==
  \A r \in Runs, c \in Channels : run[r].snap[c].app \in sent[c].app \union {0}

MarksInv == MarksWereSent /\ SnapshotsWereSent

\* A loop stores no app version itself, and its snapshot is that of k.
LEMMA LoopMarks ==
  ASSUME run \in [Runs -> RunRecords], NEW r \in Runs, NEW k \in RunRecords, NEW pc,
         NEW msg, NEW pend, NEW then, NEW rows \in [Channels -> Rows],
         Loop(r, k, pc, msg, pend, then, rows)
  PROVE  /\ \A c \in Channels : channel'[c].app = rows[c].app
         /\ \A q \in Runs, c \in Channels :
              run'[q].snap[c].app \in {run[q].snap[c].app, k.snap[c].app, then.snap[c].app, 0}
<1>1. \A c \in Channels : channel'[c].app = rows[c].app
  BY DEF Loop, Rows
<1>2. NewRow.app = 0
  BY DEF NewRow
<1>3. CASE Stop(k.todo, msg) = {}
  <2>1. run' = [run EXCEPT ![r] = then]
    BY <1>3 DEF Loop
  <2> QED
    BY <1>1, <2>1
<1>4. CASE Stop(k.todo, msg) # {}
  <2> DEFINE left == k.todo \ Passed(k.todo, msg)
             kept(c) == [d \in Channels |-> IF d \in left \union {c} THEN k.snap[d] ELSE NewRow]
             next(c) == [k EXCEPT !.pc = pc, !.to = c, !.msg = msg[c], !.todo = left, !.snap = kept(c)]
  <2>1. PICK c \in Stop(k.todo, msg) : run' = [run EXCEPT ![r] = next(c)]
    BY <1>4 DEF Loop
  <2>2. next(c).snap = kept(c)
    BY DEF RunRecords
  <2>3. \A d \in Channels : next(c).snap[d].app \in {k.snap[d].app, 0}
    BY <1>2, <2>2
  <2> HIDE DEF next
  <2> QED
    BY <1>1, <2>1, <2>3
<1> QED
  BY <1>3, <1>4

LEMMA IdleSnap == \A c \in Channels : Idle.snap[c].app = 0
  BY DEF Idle, NewRow

\* The same of the steps that end in one of the loops.
LEMMA ResultsLoopMarks ==
  ASSUME TypeOK, NEW r \in Runs, NEW k \in RunRecords, ResultsLoop(r, k)
  PROVE  /\ \A c \in Channels : channel'[c].app = channel[c].app
         /\ \A q \in Runs, c \in Channels :
              run'[q].snap[c].app \in {run[q].snap[c].app, k.snap[c].app, 0}
<1> DEFINE msg == [c \in Channels |-> IF c \in k.digest THEN NoEvents ELSE ResultEvents(k, c)]
           pend == [c \in Channels |-> IF c \in k.digest THEN Merge(channel[c].pend, ResultEvents(k, c))
                                                         ELSE channel[c].pend]
           then == [Idle EXCEPT !.pc = "queued"]
<1>1. Loop(r, k, "results", msg, pend, then, channel)
  BY DEF ResultsLoop
<1>2. \A c \in Channels : then.snap[c].app = 0
  BY DEF Idle, NewRow
<1>3. run \in [Runs -> RunRecords] /\ channel \in [Channels -> Rows]
  BY DEF TypeOK
<1> HIDE DEF msg, pend, then
<1>4. /\ \A c \in Channels : channel'[c].app = channel[c].app
      /\ \A q \in Runs, c \in Channels :
           run'[q].snap[c].app \in {run[q].snap[c].app, k.snap[c].app, then.snap[c].app, 0}
  BY <1>1, <1>3, LoopMarks
<1> QED
  BY <1>2, <1>4

LEMMA AppLoopMarks ==
  ASSUME TypeOK, NEW r \in Runs, NEW k \in RunRecords, NEW rows \in [Channels -> Rows],
         AppLoop(r, k, rows)
  PROVE  /\ \A c \in Channels : channel'[c].app = rows[c].app
         /\ \A q \in Runs, c \in Channels :
              run'[q].snap[c].app \in {run[q].snap[c].app, k.snap[c].app, 0}
<1> DEFINE msg == [c \in Channels |-> IF c \in k.digest THEN NoEvents ELSE AppEvents(k, c)]
           pend == [c \in Channels |-> IF c \in k.digest THEN Merge(channel[c].pend, AppEvents(k, c))
                                                         ELSE channel[c].pend]
<1>1. Loop(r, k, "app", msg, pend, Idle, rows)
  BY DEF AppLoop
<1>2. run \in [Runs -> RunRecords]
  BY DEF TypeOK
<1> HIDE DEF msg, pend
<1>3. /\ \A c \in Channels : channel'[c].app = rows[c].app
      /\ \A q \in Runs, c \in Channels :
           run'[q].snap[c].app \in {run[q].snap[c].app, k.snap[c].app, Idle.snap[c].app, 0}
  BY <1>1, <1>2, LoopMarks
<1> QED
  BY <1>3, IdleSnap

LEMMA DigestLoopMarks ==
  ASSUME TypeOK, NEW r \in Runs, NEW k \in RunRecords, NEW rows \in [Channels -> Rows],
         DigestLoop(r, k, rows)
  PROVE  /\ \A c \in Channels : channel'[c].app = rows[c].app
         /\ \A q \in Runs, c \in Channels :
              run'[q].snap[c].app \in {run[q].snap[c].app, k.snap[c].app, 0}
<1> DEFINE msg == [c \in Channels |-> Deliverable(k, c)]
           pend == [c \in Channels |-> IF msg[c] # k.snap[c].pend THEN msg[c] ELSE channel[c].pend]
<1>1. Loop(r, k, "digest", msg, pend, Idle, rows)
  BY DEF DigestLoop
<1>2. run \in [Runs -> RunRecords]
  BY DEF TypeOK
<1> HIDE DEF msg, pend
<1>3. /\ \A c \in Channels : channel'[c].app = rows[c].app
      /\ \A q \in Runs, c \in Channels :
           run'[q].snap[c].app \in {run[q].snap[c].app, k.snap[c].app, Idle.snap[c].app, 0}
  BY <1>1, <1>2, LoopMarks
<1> QED
  BY <1>3, IdleSnap

LEMMA ContinueMarks ==
  ASSUME TypeOK, NEW r \in Runs, NEW rows \in [Channels -> Rows], Continue(r, rows)
  PROVE  /\ \A c \in Channels : channel'[c].app \in {rows[c].app, channel[c].app}
         /\ \A q \in Runs, c \in Channels :
              run'[q].snap[c].app \in {run[q].snap[c].app, run[r].snap[c].app, 0}
<1> DEFINE kept == [run[r] EXCEPT !.to = 0]
           clear == [run[r] EXCEPT !.to = 0, !.msg = NoEvents]
<1>1. run[r] \in RunRecords
  BY DEF TypeOK
<1>2. /\ kept \in RunRecords /\ clear \in RunRecords
      /\ kept.snap = run[r].snap /\ clear.snap = run[r].snap
  BY <1>1, NoEventsType DEF RunRecords
<1>3. ResultsLoop(r, clear) \/ AppLoop(r, kept, rows) \/ DigestLoop(r, clear, rows)
  BY DEF Continue
<1> HIDE DEF kept, clear
<1>4. CASE ResultsLoop(r, clear)
  BY <1>2, <1>4, ResultsLoopMarks
<1>5. CASE AppLoop(r, kept, rows)
  BY <1>2, <1>5, AppLoopMarks
<1>6. CASE DigestLoop(r, clear, rows)
  BY <1>2, <1>6, DigestLoopMarks
<1> QED
  BY <1>3, <1>4, <1>5, <1>6

LEMMA CheckStepMarks ==
  ASSUME TypeOK, MarksInv, NEW r \in CheckRuns,
         CheckStep(r) \/ \E T \in SUBSET Systems : StartCheck(r, T)
  PROVE  MarksInv'
<1>1. run[r] \in RunRecords /\ r \in Runs
  BY DEF TypeOK
<1>2. /\ \A c \in Channels : channel'[c].app = channel[c].app
      /\ \A q \in Runs, c \in Channels :
           run'[q].snap[c].app \in {run[q].snap[c].app, run[r].snap[c].app, channel[c].app, 0}
  <2>1. ASSUME NEW T \in SUBSET Systems, StartCheck(r, T)
        PROVE  <1>2
    BY <1>1, <2>1, IdleSnap DEF StartCheck, TypeOK, Idle
  <2>2. CASE ProcessResults(r)
    <3> DEFINE k == [Idle EXCEPT !.upd = {s \in run[r].of : visible[s] # 0}, !.down = run[r].was \ reach,
                                 !.todo = EnabledChannels, !.digest = Scheduled]
    <3>1. {s \in run[r].of : visible[s] # 0} \subseteq Systems /\ run[r].was \ reach \subseteq Systems
      BY <1>1 DEF RunRecords
    <3>2. EnabledChannels \subseteq Channels /\ Scheduled \subseteq Channels
      BY ScheduledType DEF EnabledChannels, TypeOK
    <3>3. k \in RunRecords /\ k.snap = Idle.snap
      BY <3>1, <3>2, IdleType DEF RunRecords
    <3>4. ResultsLoop(r, k)
      BY <2>2 DEF ProcessResults
    <3> HIDE DEF k
    <3> QED
      BY <1>1, <3>3, <3>4, IdleSnap, ResultsLoopMarks
  <2>3. CASE AskAppStatus(r)
    <3> DEFINE known == [c \in Channels |->
                           IF channel[c].on
                           THEN [NewRow EXCEPT !.app = channel[c].app, !.pend.app = channel[c].pend.app]
                           ELSE NewRow]
               k == [Idle EXCEPT !.pc = "status", !.todo = EnabledChannels, !.snap = known]
    <3>1. \A c \in Channels : known[c].app \in {channel[c].app, 0}
      BY DEF NewRow
    <3>2. k.snap = known
      BY DEF Idle
    <3>3. (run' = [run EXCEPT ![r] = k] \/ run' = [run EXCEPT ![r] = Idle]) /\ UNCHANGED channel
      BY <2>3 DEF AskAppStatus
    <3> HIDE DEF k, known
    <3> QED
      BY <1>1, <3>1, <3>2, <3>3, IdleSnap DEF TypeOK
  <2>4. CASE AppStatus(r)
    <3> DEFINE k == [run[r] EXCEPT !.msg.app = release, !.digest = Scheduled]
    <3>1. [run[r].msg EXCEPT !.app = release] \in Events
      BY <1>1 DEF RunRecords, Events, TypeOK
    <3>2. k \in RunRecords /\ k.snap = run[r].snap
      BY <1>1, <3>1, ScheduledType DEF RunRecords, TypeOK
    <3>3. AppLoop(r, k, channel) \/ (run' = [run EXCEPT ![r] = Idle] /\ UNCHANGED channel)
      BY <2>4 DEF AppStatus
    <3> HIDE DEF k
    <3>4. channel \in [Channels -> Rows] /\ run \in [Runs -> RunRecords]
      BY DEF TypeOK
    <3>5. CASE AppLoop(r, k, channel)
      BY <1>1, <3>2, <3>4, <3>5, AppLoopMarks
    <3>6. CASE run' = [run EXCEPT ![r] = Idle] /\ UNCHANGED channel
      BY <1>1, <3>4, <3>6, IdleSnap
    <3> QED
      BY <3>3, <3>5, <3>6
  <2> QED
    BY <2>1, <2>2, <2>3, <2>4 DEF CheckStep
<1>3. UNCHANGED <<delivered, sent>>
  BY DEF CheckStep, StartCheck, ProcessResults, AskAppStatus, AppStatus
<1> QED
  BY <1>1, <1>2, <1>3 DEF MarksInv, MarksWereSent, SnapshotsWereSent

LEMMA StartDigestMarks ==
  ASSUME TypeOK, MarksInv, NEW r \in DigestRuns, NEW d \in Schedules, StartDigest(r, d)
  PROVE  MarksInv'
<1> DEFINE k == [Idle EXCEPT !.snap = channel, !.todo = EnabledChannels \intersect sched[d].chans]
<1>1. k \in RunRecords /\ k.snap = channel
  BY IdleType DEF RunRecords, TypeOK, EnabledChannels
<1>2. DigestLoop(r, k, channel) /\ UNCHANGED <<delivered, sent>> /\ r \in Runs
  BY DEF StartDigest
<1> HIDE DEF k
<1>3. /\ \A c \in Channels : channel'[c].app = channel[c].app
      /\ \A q \in Runs, c \in Channels :
           run'[q].snap[c].app \in {run[q].snap[c].app, channel[c].app, 0}
  BY <1>1, <1>2, DigestLoopMarks DEF TypeOK
<1> QED
  BY <1>2, <1>3 DEF MarksInv, MarksWereSent, SnapshotsWereSent

LEMMA SendStepMarks ==
  ASSUME TypeOK, MarksInv, NEW r \in Runs, SendStep(r)
  PROVE  MarksInv'
<1> DEFINE k == run[r]
<1>1. k.pc \in Sending /\ k.to \in Channels /\ k \in RunRecords
  BY DEF SendStep, SendSucceeds, SendFails, TypeOK, MessageOK
<1>2. k.msg.app \in 0..MaxApp
  BY <1>1 DEF RunRecords, Events
<1>3. /\ \A c \in Channels : sent[c].upd \subseteq Accepted(k)[c].upd /\ sent[c].app \subseteq Accepted(k)[c].app
      /\ k.msg.upd \subseteq Accepted(k)[k.to].upd
      /\ k.msg.app \in Accepted(k)[k.to].app \union {0}
  BY <1>1 DEF Accepted, TypeOK
<1>4. CASE SendSucceeds(r)
  <2>1. sent' = Accepted(k) /\ Continue(r, SentRow(k)) /\ delivered' = [delivered EXCEPT ![k.to] = @ \union k.msg.upd]
    BY <1>4 DEF SendSucceeds, MarkDelivered
  <2>2. SentRow(k) \in [Channels -> Rows]
    BY <1>1, SentRowType
  <2>3. \A c \in Channels : SentRow(k)[c].app \in {channel[c].app, k.snap[c].app}
                            \/ (c = k.to /\ SentRow(k)[c].app = k.msg.app)
    BY <1>1 DEF SentRow, TypeOK, Rows
  <2>4. /\ \A c \in Channels : channel'[c].app \in {SentRow(k)[c].app, channel[c].app}
        /\ \A q \in Runs, c \in Channels : run'[q].snap[c].app \in {run[q].snap[c].app, k.snap[c].app, 0}
    BY <2>1, <2>2, ContinueMarks
  <2>5. \A c \in Channels : delivered'[c] \subseteq delivered[c] \union (IF c = k.to THEN k.msg.upd ELSE {})
    BY <2>1 DEF TypeOK
  <2>6. \A c \in Channels : /\ channel[c].app \in sent[c].app \union {0}
                            /\ k.snap[c].app \in sent[c].app \union {0}
                            /\ delivered[c] \subseteq sent[c].upd
    BY DEF MarksInv, MarksWereSent, SnapshotsWereSent
  <2>7. \A q \in Runs, c \in Channels : run[q].snap[c].app \in sent[c].app \union {0}
    BY DEF MarksInv, SnapshotsWereSent
  <2> HIDE DEF k
  <2>8. MarksWereSent'
    <3>1. ASSUME NEW c \in Channels
          PROVE  channel'[c].app \in sent'[c].app \union {0}
      BY <1>3, <2>1, <2>3, <2>4, <2>6
    <3>2. ASSUME NEW c \in Channels
          PROVE  delivered'[c] \subseteq sent'[c].upd
      BY <1>3, <2>1, <2>5, <2>6
    <3> QED
      BY <3>1, <3>2 DEF MarksWereSent
  <2>9. SnapshotsWereSent'
    BY <1>3, <2>1, <2>4, <2>6, <2>7 DEF SnapshotsWereSent
  <2> QED
    BY <2>8, <2>9 DEF MarksInv
<1>5. CASE SendFails(r)
  <2>1. sent' \in {sent, Accepted(k)} /\ Continue(r, channel) /\ UNCHANGED delivered
    BY <1>5 DEF SendFails
  <2>2. /\ \A c \in Channels : channel'[c].app = channel[c].app
        /\ \A q \in Runs, c \in Channels : run'[q].snap[c].app \in {run[q].snap[c].app, k.snap[c].app, 0}
    BY <2>1, ContinueMarks DEF TypeOK
  <2>3. \A c \in Channels : sent[c].upd \subseteq sent'[c].upd /\ sent[c].app \subseteq sent'[c].app
    BY <1>3, <2>1
  <2> QED
    BY <2>1, <2>2, <2>3 DEF MarksInv, MarksWereSent, SnapshotsWereSent
<1> QED
  BY <1>4, <1>5 DEF SendStep

LEMMA OtherMarks ==
  ASSUME TypeOK, MarksInv,
         \/ Release \/ \E s \in Systems : Checked(s)
         \/ \E c \in Channels : ToggleChannel(c) \/ ResetDedupe(c)
         \/ \E c \in Channels, S \in SUBSET Schedules : AssignSchedules(c, S)
         \/ \E d \in Schedules : DeleteSchedule(d) \/ UpdateSchedule(d)
         \/ Restart
  PROVE  MarksInv'
<1>1. UNCHANGED sent
  BY DEF Release, Checked, ToggleChannel, ResetDedupe, AssignSchedules, DeleteSchedule, UpdateSchedule, Restart
<1>2. UNCHANGED run \/ run' = [r \in Runs |-> Idle]
  BY DEF Release, Checked, ToggleChannel, ResetDedupe, AssignSchedules, DeleteSchedule, UpdateSchedule, Restart
<1>3. UNCHANGED delivered \/ \E c \in Channels : delivered' = [delivered EXCEPT ![c] = {}]
  BY DEF Release, Checked, ToggleChannel, ResetDedupe, AssignSchedules, DeleteSchedule, UpdateSchedule, Restart
<1>4. \A c \in Channels : channel'[c].app = channel[c].app
  <2>1. ASSUME NEW c \in Channels, ToggleChannel(c)
        PROVE  <1>4
    BY <2>1 DEF ToggleChannel, TypeOK, Rows
  <2>2. ASSUME NEW c \in Channels, NEW S \in SUBSET Schedules, AssignSchedules(c, S)
        PROVE  <1>4
    BY <2>2 DEF AssignSchedules, TypeOK, Rows
  <2>3. ASSUME NEW d \in Schedules, DeleteSchedule(d)
        PROVE  <1>4
    BY <2>3 DEF DeleteSchedule, TypeOK, Rows
  <2>4. CASE UNCHANGED channel
    BY <2>4
  <2> QED
    BY <2>1, <2>2, <2>3, <2>4 DEF Release, Checked, ResetDedupe, UpdateSchedule, Restart
<1>5. \A c \in Channels : delivered'[c] \subseteq delivered[c]
  BY <1>3 DEF TypeOK
<1>6. \A r \in Runs, c \in Channels : run'[r].snap[c].app \in {run[r].snap[c].app, 0}
  BY <1>2, IdleSnap
<1> QED
  BY <1>1, <1>4, <1>5, <1>6 DEF MarksInv, MarksWereSent, SnapshotsWereSent

\* An update is marked as told, and an app version as notified, only if an
\* accepted message contained it: no overlap of runs silences news for ever.
THEOREM MarksCorrect == Spec => []MarksWereSent
<1>1. Init => MarksInv
  BY IdleSnap DEF Init, MarksInv, MarksWereSent, SnapshotsWereSent, NewRow
<1>2. TypeOK /\ MarksInv /\ [Next]_vars => MarksInv'
  <2> SUFFICES ASSUME TypeOK, MarksInv, [Next]_vars PROVE MarksInv'
    OBVIOUS
  <2>1. CASE UNCHANGED vars
    BY <2>1 DEF vars, MarksInv, MarksWereSent, SnapshotsWereSent
  <2>2. CASE Next
    BY <2>2, CheckStepMarks, StartDigestMarks, SendStepMarks, OtherMarks DEF Next
  <2> QED
    BY <2>1, <2>2
<1>3. MarksInv => MarksWereSent
  BY DEF MarksInv
<1> QED
  BY <1>1, <1>2, <1>3, TypeCorrect, PTL DEF Spec
-----------------------------------------------------------------------------
(* Messages have news.  A message of the loop about the app version has one  *)
(* because the status had one, which the run carries along.                  *)

AppMessages == \A r \in Runs : run[r].pc = "app" => run[r].msg.app # 0

\* The message m is news for c, as far as the marks go now.
News(m, c) == m.down # {} \/ m.app # 0 \/ ~(m.upd \subseteq delivered[c])

\* The runs that begin to send have news for a channel of C.
NewsFor(C) ==
  \A q \in Runs : (run'[q] # run[q] /\ run'[q].pc \in Sending) =>
    /\ run'[q].to \in C /\ News(run'[q].msg, run'[q].to)
    /\ run'[q].pc = "app" => run'[q].msg.app # 0

LEMMA NoEventsOnly ==
  ASSUME NEW m \in Events, m # NoEvents
  PROVE  m.upd # {} \/ m.down # {} \/ m.app # 0
  BY DEF Events, NoEvents

\* A loop over messages that are news, or nothing, sends news to one of its channels.
LEMMA LoopNews ==
  ASSUME run \in [Runs -> RunRecords], NEW r \in Runs, NEW k \in RunRecords, NEW pc \in Sending,
         NEW msg \in [Channels -> Events], NEW pend, NEW then, then.pc \notin Sending,
         NEW rows \in [Channels -> Rows], Loop(r, k, pc, msg, pend, then, rows),
         \A c \in Channels : msg[c] # NoEvents =>
           News(msg[c], c) /\ (pc = "app" => msg[c].app # 0)
  PROVE  NewsFor(k.todo)
<1>1. k.todo \subseteq Channels
  BY DEF RunRecords
<1>2. CASE Stop(k.todo, msg) = {}
  <2>1. run' = [run EXCEPT ![r] = then]
    BY <1>2 DEF Loop
  <2> QED
    BY <2>1 DEF NewsFor
<1>3. CASE Stop(k.todo, msg) # {}
  <2> DEFINE left == k.todo \ Passed(k.todo, msg)
             kept(c) == [d \in Channels |-> IF d \in left \union {c} THEN k.snap[d] ELSE NewRow]
             next(c) == [k EXCEPT !.pc = pc, !.to = c, !.msg = msg[c], !.todo = left, !.snap = kept(c)]
  <2>1. PICK c \in Stop(k.todo, msg) : run' = [run EXCEPT ![r] = next(c)]
    BY <1>3 DEF Loop
  <2>2. c \in k.todo /\ msg[c] # NoEvents
    BY DEF Stop, Passed
  <2>3. next(c).pc = pc /\ next(c).to = c /\ next(c).msg = msg[c]
    BY DEF RunRecords
  <2> HIDE DEF next
  <2>4. \A q \in Runs : run'[q] # run[q] => run'[q] = next(c)
    BY <2>1
  <2>5. News(msg[c], c) /\ (pc = "app" => msg[c].app # 0)
    BY <1>1, <2>2
  <2> QED
    BY <2>2, <2>3, <2>4, <2>5 DEF NewsFor
<1> QED
  BY <1>2, <1>3

LEMMA ResultsLoopNews ==
  ASSUME TypeOK, NEW r \in Runs, NEW k \in RunRecords, ResultsLoop(r, k)
  PROVE  NewsFor(k.todo)
<1> DEFINE msg == [c \in Channels |-> IF c \in k.digest THEN NoEvents ELSE ResultEvents(k, c)]
           pend == [c \in Channels |-> IF c \in k.digest THEN Merge(channel[c].pend, ResultEvents(k, c))
                                                         ELSE channel[c].pend]
           then == [Idle EXCEPT !.pc = "queued"]
<1>1. \A c \in Channels : ResultEvents(k, c) \in Events
  BY ResultEventsType DEF TypeOK
<1>2. msg \in [Channels -> Events]
  BY <1>1, NoEventsType
<1>3. then.pc \notin Sending
  BY DEF Idle, Sending
<1>4. ASSUME NEW c \in Channels, ResultEvents(k, c) # NoEvents
      PROVE  News(ResultEvents(k, c), c)
  <2>1. ResultEvents(k, c).upd # {} \/ ResultEvents(k, c).down # {} \/ ResultEvents(k, c).app # 0
    BY <1>1, <1>4, NoEventsOnly
  <2>2. ASSUME ResultEvents(k, c).upd # {}
        PROVE  ~(ResultEvents(k, c).upd \subseteq delivered[c])
    BY <2>2 DEF ResultEvents
  <2> QED
    BY <2>1, <2>2 DEF News
<1>5. \A c \in Channels : msg[c] # NoEvents => News(msg[c], c)
  BY <1>4
<1>6. Loop(r, k, "results", msg, pend, then, channel)
  BY DEF ResultsLoop
<1>7. run \in [Runs -> RunRecords] /\ channel \in [Channels -> Rows] /\ "results" \in Sending
  BY DEF TypeOK, Sending
<1> HIDE DEF msg, pend, then
<1> QED
  BY <1>2, <1>3, <1>5, <1>6, <1>7, LoopNews

LEMMA AppLoopNews ==
  ASSUME TypeOK, NEW r \in Runs, NEW k \in RunRecords, k.msg.app # 0,
         NEW rows \in [Channels -> Rows], AppLoop(r, k, rows)
  PROVE  NewsFor(k.todo)
<1> DEFINE msg == [c \in Channels |-> IF c \in k.digest THEN NoEvents ELSE AppEvents(k, c)]
           pend == [c \in Channels |-> IF c \in k.digest THEN Merge(channel[c].pend, AppEvents(k, c))
                                                         ELSE channel[c].pend]
<1>1. msg \in [Channels -> Events]
  BY AppEventsType, NoEventsType
<1>2. \A c \in Channels : msg[c] # NoEvents => News(msg[c], c) /\ msg[c].app # 0
  BY DEF AppEvents, News
<1>3. Loop(r, k, "app", msg, pend, Idle, rows)
  BY DEF AppLoop
<1>4. run \in [Runs -> RunRecords] /\ "app" \in Sending /\ Idle.pc \notin Sending
  BY DEF TypeOK, Sending, Idle
<1> HIDE DEF msg, pend
<1> QED
  BY <1>1, <1>2, <1>3, <1>4, LoopNews

LEMMA DigestLoopNews ==
  ASSUME TypeOK, NEW r \in Runs, NEW k \in RunRecords, NEW rows \in [Channels -> Rows],
         DigestLoop(r, k, rows)
  PROVE  NewsFor(k.todo)
<1> DEFINE msg == [c \in Channels |-> Deliverable(k, c)]
           pend == [c \in Channels |-> IF msg[c] # k.snap[c].pend THEN msg[c] ELSE channel[c].pend]
<1>1. \A c \in Channels : Deliverable(k, c) \in Events /\ k.snap[c].pend \in Events
  BY DeliverableType DEF RunRecords, Rows
<1>2. msg \in [Channels -> Events]
  BY <1>1
<1>3. ASSUME NEW c \in Channels, Deliverable(k, c) # NoEvents
      PROVE  News(Deliverable(k, c), c)
  <2>1. Deliverable(k, c).upd # {} \/ Deliverable(k, c).down # {} \/ Deliverable(k, c).app # 0
    BY <1>1, <1>3, NoEventsOnly
  <2>2. ASSUME Deliverable(k, c).upd # {}
        PROVE  ~(Deliverable(k, c).upd \subseteq delivered[c])
    BY <1>1, <2>2 DEF Deliverable, Events
  <2> QED
    BY <2>1, <2>2 DEF News
<1>4. \A c \in Channels : msg[c] # NoEvents => News(msg[c], c)
  BY <1>3
<1>5. Loop(r, k, "digest", msg, pend, Idle, rows)
  BY DEF DigestLoop
<1>6. run \in [Runs -> RunRecords] /\ "digest" \in Sending /\ Idle.pc \notin Sending
  BY DEF TypeOK, Sending, Idle
<1> HIDE DEF msg, pend
<1> QED
  BY <1>2, <1>4, <1>5, <1>6, LoopNews

LEMMA ContinueNews ==
  ASSUME TypeOK, AppMessages, NEW r \in Runs, NEW rows \in [Channels -> Rows], Continue(r, rows)
  PROVE  NewsFor(run[r].todo)
<1> DEFINE kept == [run[r] EXCEPT !.to = 0]
           clear == [run[r] EXCEPT !.to = 0, !.msg = NoEvents]
<1>1. run[r] \in RunRecords
  BY DEF TypeOK
<1>2. /\ kept \in RunRecords /\ clear \in RunRecords
      /\ kept.todo = run[r].todo /\ clear.todo = run[r].todo /\ kept.msg = run[r].msg
  BY <1>1, NoEventsType DEF RunRecords
<1>3. \/ ResultsLoop(r, clear)
      \/ run[r].pc = "app" /\ AppLoop(r, kept, rows)
      \/ DigestLoop(r, clear, rows)
  BY DEF Continue
<1>4. run[r].pc = "app" => run[r].msg.app # 0
  BY DEF AppMessages
<1> HIDE DEF kept, clear
<1>5. CASE ResultsLoop(r, clear)
  BY <1>2, <1>5, ResultsLoopNews
<1>6. CASE run[r].pc = "app" /\ AppLoop(r, kept, rows)
  BY <1>2, <1>4, <1>6, AppLoopNews
<1>7. CASE DigestLoop(r, clear, rows)
  BY <1>2, <1>7, DigestLoopNews
<1> QED
  BY <1>3, <1>5, <1>6, <1>7

\* The steps of the runs.
LEMMA CheckStepNews ==
  ASSUME TypeOK, NEW r \in CheckRuns,
         CheckStep(r) \/ \E T \in SUBSET Systems : StartCheck(r, T)
  PROVE  NewsFor(Channels) /\ UNCHANGED delivered
<1>1. run[r] \in RunRecords /\ r \in Runs /\ run \in [Runs -> RunRecords]
  BY DEF TypeOK
<1>2. Idle \in RunRecords /\ Idle.pc \notin Sending
  BY IdleType DEF Idle, Sending
<1>3. UNCHANGED delivered
  BY DEF CheckStep, StartCheck, ProcessResults, AskAppStatus, AppStatus
<1>4. ASSUME NEW k, run' = [run EXCEPT ![r] = k], k.pc \notin Sending
      PROVE  NewsFor(Channels)
  BY <1>1, <1>4 DEF NewsFor
<1>5. ASSUME NEW k \in RunRecords, NewsFor(k.todo)
      PROVE  NewsFor(Channels)
  BY <1>5 DEF NewsFor, RunRecords
<1>6. ASSUME NEW T \in SUBSET Systems, StartCheck(r, T)
      PROVE  NewsFor(Channels)
  <2> DEFINE k == [Idle EXCEPT !.pc = "checking", !.of = T, !.was = reach \intersect T]
  <2>1. run' = [run EXCEPT ![r] = k]
    BY <1>6 DEF StartCheck
  <2>2. k.pc \notin Sending
    BY DEF Sending, Idle
  <2> HIDE DEF k
  <2> QED
    BY <1>4, <2>1, <2>2
<1>7. CASE ProcessResults(r)
  <2> DEFINE k == [Idle EXCEPT !.upd = {s \in run[r].of : visible[s] # 0}, !.down = run[r].was \ reach,
                               !.todo = EnabledChannels, !.digest = Scheduled]
  <2>1. {s \in run[r].of : visible[s] # 0} \subseteq Systems /\ run[r].was \ reach \subseteq Systems
    BY <1>1 DEF RunRecords
  <2>2. EnabledChannels \subseteq Channels /\ Scheduled \subseteq Channels
    BY ScheduledType DEF EnabledChannels, TypeOK
  <2>3. k \in RunRecords
    BY <2>1, <2>2, IdleType DEF RunRecords
  <2>4. ResultsLoop(r, k)
    BY <1>7 DEF ProcessResults
  <2> HIDE DEF k
  <2> QED
    BY <1>1, <1>3, <1>5, <2>3, <2>4, ResultsLoopNews
<1>8. CASE AskAppStatus(r)
  <2> DEFINE known == [c \in Channels |->
                         IF channel[c].on
                         THEN [NewRow EXCEPT !.app = channel[c].app, !.pend.app = channel[c].pend.app]
                         ELSE NewRow]
             k == [Idle EXCEPT !.pc = "status", !.todo = EnabledChannels, !.snap = known]
  <2>1. run' = [run EXCEPT ![r] = k] \/ run' = [run EXCEPT ![r] = Idle]
    BY <1>8 DEF AskAppStatus
  <2>2. k.pc \notin Sending
    BY DEF Idle, Sending
  <2> HIDE DEF k
  <2> QED
    BY <1>2, <1>3, <1>4, <2>1, <2>2
<1>9. CASE AppStatus(r)
  <2> DEFINE k == [run[r] EXCEPT !.msg.app = release, !.digest = Scheduled]
  <2>1. [run[r].msg EXCEPT !.app = release] \in Events
    BY <1>1 DEF RunRecords, Events, TypeOK
  <2>2. k \in RunRecords /\ k.msg.app = release
    BY <1>1, <2>1, ScheduledType DEF RunRecords, Events, TypeOK
  <2>3. channel \in [Channels -> Rows]
    BY DEF TypeOK
  <2>4. (release # 0 /\ AppLoop(r, k, channel)) \/ run' = [run EXCEPT ![r] = Idle]
    BY <1>9 DEF AppStatus
  <2> HIDE DEF k
  <2>5. CASE release # 0 /\ AppLoop(r, k, channel)
    BY <1>1, <1>3, <1>5, <2>2, <2>3, <2>5, AppLoopNews
  <2>6. CASE run' = [run EXCEPT ![r] = Idle]
    BY <1>2, <1>3, <1>4, <2>6
  <2> QED
    BY <2>4, <2>5, <2>6
<1> QED
  BY <1>3, <1>6, <1>7, <1>8, <1>9 DEF CheckStep

LEMMA StartDigestNews ==
  ASSUME TypeOK, NEW r \in DigestRuns, NEW d \in Schedules, StartDigest(r, d)
  PROVE  NewsFor(Channels) /\ UNCHANGED delivered
<1> DEFINE k == [Idle EXCEPT !.snap = channel, !.todo = EnabledChannels \intersect sched[d].chans]
<1>1. k \in RunRecords /\ k.todo \subseteq Channels
  BY IdleType DEF RunRecords, TypeOK, EnabledChannels
<1>2. DigestLoop(r, k, channel) /\ UNCHANGED delivered /\ r \in Runs /\ channel \in [Channels -> Rows]
  BY DEF StartDigest, TypeOK
<1> HIDE DEF k
<1>3. NewsFor(k.todo)
  BY <1>1, <1>2, DigestLoopNews
<1> QED
  BY <1>1, <1>2, <1>3 DEF NewsFor

\* A message that was accepted marks updates for a channel the run does not come to again.
LEMMA SendStepNews ==
  ASSUME TypeOK, AppMessages, NEW r \in Runs, SendStep(r)
  PROVE  /\ NewsFor(run[r].todo) /\ run[r].todo \subseteq Channels
         /\ \A c \in run[r].todo : delivered'[c] = delivered[c]
<1>1. run[r].pc \in Sending /\ run[r].to \in Channels \ run[r].todo /\ run[r] \in RunRecords
  BY DEF SendStep, SendSucceeds, SendFails, TypeOK, MessageOK
<1>2. SentRow(run[r]) \in [Channels -> Rows] /\ channel \in [Channels -> Rows]
  BY <1>1, SentRowType DEF TypeOK
<1>3. Continue(r, SentRow(run[r])) \/ Continue(r, channel)
  BY DEF SendStep, SendSucceeds, SendFails
<1>4. NewsFor(run[r].todo)
  BY <1>2, <1>3, ContinueNews
<1>5. run[r].todo \subseteq Channels
  BY <1>1 DEF RunRecords
<1>6. delivered' = delivered \/ delivered' = [delivered EXCEPT ![run[r].to] = @ \union run[r].msg.upd]
  BY DEF SendStep, SendSucceeds, SendFails, MarkDelivered
<1>7. delivered \in [Channels -> SUBSET Updates]
  BY DEF TypeOK
<1> QED
  BY <1>1, <1>4, <1>5, <1>6, <1>7

LEMMA NextNews ==
  ASSUME TypeOK, AppMessages, Next
  PROVE  SendsNews /\ AppMessages'
<1> DEFINE Starts(q) == run'[q] # run[q] /\ run'[q].pc \in Sending
           AppsSent == \A q \in Runs : (Starts(q) /\ run'[q].pc = "app") => run'[q].msg.app # 0
<1>1. ASSUME NewsFor(Channels), UNCHANGED delivered
      PROVE  SendsNews /\ AppsSent
  BY <1>1 DEF NewsFor, News, SendsNews
<1>2. ASSUME NEW r \in Runs, SendStep(r)
      PROVE  SendsNews /\ AppsSent
  <2>1. /\ NewsFor(run[r].todo)
        /\ \A c \in run[r].todo : delivered'[c] = delivered[c]
    BY <1>2, SendStepNews
  <2> QED
    BY <2>1 DEF NewsFor, News, SendsNews
<1>3. ASSUME UNCHANGED run \/ run' = [r \in Runs |-> Idle]
      PROVE  SendsNews /\ AppsSent
  BY <1>3 DEF SendsNews, Idle, Sending
<1>4. ASSUME AppsSent
      PROVE  AppMessages'
  BY <1>4 DEF AppMessages, Sending
<1>5. ASSUME \/ Release \/ Restart \/ \E s \in Systems : Checked(s)
             \/ \E c \in Channels : ToggleChannel(c) \/ ResetDedupe(c)
             \/ \E c \in Channels, S \in SUBSET Schedules : AssignSchedules(c, S)
             \/ \E d \in Schedules : DeleteSchedule(d) \/ UpdateSchedule(d)
      PROVE  UNCHANGED run \/ run' = [r \in Runs |-> Idle]
  BY <1>5 DEF Release, Checked, ToggleChannel, ResetDedupe, AssignSchedules, DeleteSchedule, UpdateSchedule, Restart
<1> HIDE DEF AppsSent
<1>6. SendsNews /\ AppsSent
  BY <1>1, <1>2, <1>3, <1>5, CheckStepNews, StartDigestNews DEF Next
<1> QED
  BY <1>4, <1>6

\* No message merely repeats updates: what a run begins to send was not marked, and
\* no other step can have marked it meanwhile.
THEOREM MessagesAreNews == Spec => MessagesHaveNews
<1>1. Init => AppMessages
  BY DEF Init, AppMessages, Idle
<1>2. TypeOK /\ AppMessages /\ [Next]_vars => AppMessages' /\ [SendsNews]_vars
  <2> SUFFICES ASSUME TypeOK, AppMessages, [Next]_vars PROVE AppMessages' /\ [SendsNews]_vars
    OBVIOUS
  <2>1. CASE UNCHANGED vars
    BY <2>1 DEF vars, AppMessages
  <2>2. CASE Next
    BY <2>2, NextNews
  <2> QED
    BY <2>1, <2>2
<1> QED
  BY <1>1, <1>2, TypeCorrect, PTL DEF Spec, MessagesHaveNews
=============================================================================
