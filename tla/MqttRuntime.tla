------------------------------ MODULE MqttRuntime ------------------------------
(***************************************************************************)
(* The MQTT client of one notification channel for Home Assistant          *)
(* (services/mqtt-runtime.ts): a record with its client in a map by        *)
(* channel, reconciliations that replace it when the channel is edited,    *)
(* and the syncs each record runs one after the other to publish one       *)
(* retained discovery topic per system.  A broker may go away and come     *)
(* back between any two steps.                                             *)
(***************************************************************************)
EXTENDS Integers, FiniteSets

CONSTANTS Systems,
          Reconcilers,  \* edits of the channel in progress at a time (and the startup)
          MaxRecords,   \* bound: clients ever created
          MaxEdits,     \* bound: edits of the channel
          MaxQueued     \* bound: syncs that wait for the one in progress

VARIABLES row,          \* the channel: saved, enabled, and the systems in its scope
          visible,      \* systems that are not hidden
          current,      \* runtimeRecords: the channel's record, 0 for none
          record,       \* each record: its client, what it published, its syncs
          reconciler,   \* each run of syncAllChannels
          retained,     \* on the broker: the discovery topics
          edits,
          overlap       \* history: has an edit met a reconciliation in progress, and
                        \* was it the last edit that did?

vars == <<row, visible, current, record, reconciler, retained, edits, overlap>>

Records == 1 .. MaxRecords
Deleted == [saved |-> FALSE, on |-> FALSE, scope |-> {}]
Row == {Deleted} \cup [saved : {TRUE}, on : BOOLEAN, scope : SUBSET Systems]

\* The fingerprint of a row is the row itself.  A record also tells whether its
\* last sync was refused by the broker.
Unused == [client |-> "none", fingerprint |-> Deleted, published |-> {}, queued |-> 0,
           phase |-> "idle", next |-> {}, left |-> {}, stops |-> 0, refused |-> FALSE]
Done == [pc |-> "idle", snapshot |-> Deleted, target |-> 0, active |-> FALSE]

Alive(i) == record[i].client \in {"down", "up"}

TypeOK ==
  /\ row \in Row /\ visible \subseteq Systems /\ retained \subseteq Systems
  /\ current \in Records \cup {0}
  /\ \A i \in Records :
       /\ record[i].client \in {"none", "down", "up", "ended"}
       /\ record[i].queued \in 0 .. MaxQueued
       /\ record[i].phase \in {"idle", "removing", "publishing", "clearing", "ending"}
       /\ record[i].refused \in BOOLEAN
  /\ overlap \in {"never", "earlier", "now"}

\* The process starts: start() is the first reconciliation.
Init ==
  /\ row \in Row /\ row.saved
  /\ visible = Systems /\ retained = {} /\ current = 0 /\ edits = 0 /\ overlap = "never"
  /\ record = [i \in Records |-> Unused]
  /\ \E first \in Reconcilers :
       reconciler = [r \in Reconcilers |-> IF r = first THEN [Done EXCEPT !.pc = "saved"] ELSE Done]

CanQueue(i) == record[i].queued < MaxQueued
Queue(i) == record' = [record EXCEPT ![i].queued = @ + 1]

-------------------------------------------------------------------------------
(* syncAllChannels, for one channel; the channels before it take their time *)
(* between the snapshot of the rows and this channel's turn.  Nothing keeps *)
(* an edit from coming while the reconciliation of another is in progress.  *)

Go(r, pc) == reconciler' = [reconciler EXCEPT ![r].pc = pc]

\* An edit that leaves the row as it is stands for one of another MQTT channel: the save
\* of any of them reconciles them all.
Edit(r) ==
  /\ reconciler[r].pc = "idle" /\ edits < MaxEdits
  /\ row' \in IF row.saved THEN Row ELSE {row}
  /\ edits' = edits + 1
  /\ overlap' = IF \E q \in Reconcilers : reconciler[q].pc # "idle" THEN "now"
                ELSE IF overlap = "never" THEN "never" ELSE "earlier"
  /\ Go(r, "saved")
  /\ UNCHANGED <<visible, current, record, retained>>

Snapshot(r) ==
  /\ reconciler[r].pc = "saved"
  /\ reconciler' = [reconciler EXCEPT ![r] = [Done EXCEPT !.pc = "turn", !.snapshot = row]]
  /\ UNCHANGED <<row, visible, current, record, retained, edits, overlap>>

(* stopRecord: the record leaves the map at once; its topics are removed,  *)
(* through a client of its own when the record's is not connected, and the *)
(* client is ended.  `then` is what the caller waits with.                 *)
StopCurrent(r, then) ==
  /\ current' = 0
  /\ reconciler' = [reconciler EXCEPT ![r].pc = then, ![r].target = current]

(* The channel's turn, with the row of the snapshot.                       *)
Turn(r) ==
  LET snap == reconciler[r].snapshot IN
  /\ reconciler[r].pc = "turn"
  /\ \/ /\ ~snap.on /\ snap.saved /\ current # 0
        /\ StopCurrent(r, "clearing") /\ UNCHANGED record
     \/ /\ ~snap.on /\ (~snap.saved \/ current = 0)
        /\ Go(r, "sweep") /\ UNCHANGED <<current, record>>
     \/ /\ snap.on /\ current # 0
        /\ IF record[current].fingerprint = snap
           THEN /\ CanQueue(current) /\ Queue(current)
                /\ reconciler' = [reconciler EXCEPT ![r].pc = "sweep", ![r].active = TRUE]
                /\ UNCHANGED current
           ELSE StopCurrent(r, "clearing") /\ UNCHANGED record
     \/ /\ snap.on /\ current = 0
        /\ Go(r, "create") /\ UNCHANGED <<current, record>>
  /\ UNCHANGED <<row, visible, retained, edits, overlap>>

\* Only a client that is not connected may fail to remove the topics.
Cleared(i) ==
  \/ retained' = retained \ record[i].published
  \/ record[i].client # "up" /\ UNCHANGED retained

Clear(r) ==
  /\ reconciler[r].pc \in {"clearing", "sweepClearing"}
  /\ Cleared(reconciler[r].target)
  /\ Go(r, IF reconciler[r].pc = "clearing" THEN "ending" ELSE "sweepEnding")
  /\ UNCHANGED <<row, visible, current, record, edits, overlap>>

EndClient(r) ==
  /\ reconciler[r].pc \in {"ending", "sweepEnding"}
  /\ record' = [record EXCEPT ![reconciler[r].target].client = "ended"]
  /\ reconciler' = IF reconciler[r].pc = "sweepEnding" THEN [reconciler EXCEPT ![r] = Done]
                   ELSE [reconciler EXCEPT ![r].pc = IF reconciler[r].snapshot.on THEN "create"
                                                          ELSE "sweep"]
  /\ UNCHANGED <<row, visible, current, retained, edits, overlap>>

(* A new record takes the channel's place in the map, whatever is there.   *)
Create(r) ==
  /\ reconciler[r].pc = "create"
  /\ \E i \in Records :
       /\ record[i].client = "none" /\ \A j \in Records : j < i => record[j].client # "none"
       /\ record' = [record EXCEPT ![i].client = "down",
                                   ![i].fingerprint = reconciler[r].snapshot]
       /\ current' = i
       /\ reconciler' = [reconciler EXCEPT ![r].pc = "connecting", ![r].target = i,
                                           ![r].active = TRUE]
  /\ UNCHANGED <<row, visible, retained, edits, overlap>>

\* The first connection succeeds or fails, and a sync is queued either way.
Connecting(r) ==
  /\ reconciler[r].pc = "connecting"
  /\ CanQueue(reconciler[r].target) /\ Queue(reconciler[r].target)
  /\ Go(r, "sweep")
  /\ UNCHANGED <<row, visible, current, retained, edits, overlap>>

\* The last loop stops the record of a channel that was not active.
Sweep(r) ==
  /\ reconciler[r].pc = "sweep"
  /\ IF ~reconciler[r].active /\ current # 0
     THEN StopCurrent(r, "sweepClearing")
     ELSE reconciler' = [reconciler EXCEPT ![r] = Done] /\ UNCHANGED current
  /\ UNCHANGED <<row, visible, record, retained, edits, overlap>>

-------------------------------------------------------------------------------
(* syncRecord, one at a time per record (taskChain). *)

(* The row is read anew.  A channel that is not to run stops the record    *)
(* that is in the map by now; a client that is not connected waits for its *)
(* next connection.                                                        *)
SyncBegins(i) ==
  /\ record[i].phase = "idle" /\ record[i].queued > 0
  /\ \/ /\ ~row.on
        /\ record' = [record EXCEPT ![i].queued = @ - 1,
                        ![i].phase = IF current = 0 THEN "idle" ELSE "clearing",
                        ![i].stops = current]
        /\ current' = 0
     \/ /\ row.on
        /\ record' = [record EXCEPT ![i].queued = @ - 1,
                        ![i].phase = IF record[i].client = "up" THEN "removing" ELSE "idle",
                        ![i].next = IF record[i].client = "up" THEN row.scope \cap visible ELSE {},
                        ![i].refused = IF record[i].client = "up" THEN FALSE ELSE @]
        /\ UNCHANGED current
  /\ UNCHANGED <<row, visible, reconciler, retained, edits, overlap>>

SyncClears(i) ==
  \/ /\ record[i].phase = "clearing"
     /\ Cleared(record[i].stops)
     /\ record' = [record EXCEPT ![i].phase = "ending"]
     /\ UNCHANGED <<row, visible, current, reconciler, edits, overlap>>
  \/ /\ record[i].phase = "ending"
     /\ record' = [j \in Records |->
          LET r == IF j = i THEN [record[i] EXCEPT !.phase = "idle", !.stops = 0] ELSE record[j]
          IN IF j = record[i].stops THEN [r EXCEPT !.client = "ended"] ELSE r]
     /\ UNCHANGED <<row, visible, current, reconciler, retained, edits, overlap>>

\* Topics of systems that left are removed, also over a client of its own, whose
\* failure gives the sync up.
SyncRemoves(i) ==
  /\ record[i].phase = "removing"
  /\ \/ /\ retained' = retained \ (record[i].published \ record[i].next)
        /\ record' = [record EXCEPT ![i].phase = "publishing", ![i].left = record[i].next]
     \/ /\ record[i].client # "up"
        /\ record' = [record EXCEPT ![i].phase = "idle", ![i].next = {}]
        /\ UNCHANGED retained
  /\ UNCHANGED <<row, visible, current, reconciler, edits, overlap>>

\* A channel that takes commands subscribes to the topics that are new to it before it
\* publishes any: a broker that refuses, or goes away, gives the sync up as it is.
SyncRefused(i) ==
  /\ record[i].phase = "publishing" /\ record[i].left = record[i].next /\ record[i].next # {}
  /\ record[i].client # "ended"
  /\ record' = [record EXCEPT ![i].phase = "idle", ![i].next = {}, ![i].left = {},
                              ![i].refused = TRUE]
  /\ UNCHANGED <<row, visible, current, reconciler, retained, edits, overlap>>

\* Messages of a client that is away wait for its next connection.
SyncPublishes(i) ==
  /\ record[i].phase = "publishing" /\ record[i].client = "up"
  /\ \E s \in record[i].left :
       /\ retained' = retained \cup {s}
       /\ record' = [record EXCEPT ![i].left = @ \ {s}]
  /\ UNCHANGED <<row, visible, current, reconciler, edits, overlap>>

SyncEnds(i) ==
  /\ record[i].phase = "publishing" /\ record[i].left = {}
  /\ record' = [record EXCEPT ![i].phase = "idle", ![i].published = record[i].next,
                              ![i].next = {}]
  /\ UNCHANGED <<row, visible, current, reconciler, retained, edits, overlap>>

\* Publishing with a client that was ended fails, and the sync is given up.
SyncFails(i) ==
  /\ record[i].phase = "publishing" /\ record[i].client = "ended"
  /\ record' = [record EXCEPT ![i].phase = "idle", ![i].next = {}, ![i].left = {}]
  /\ UNCHANGED <<row, visible, current, reconciler, retained, edits, overlap>>

-------------------------------------------------------------------------------
\* Mutant: a client that comes back waits for the next event.
ConnectUnsynced(i) ==
  /\ record[i].client = "down" /\ CanQueue(i)
  /\ record' = [record EXCEPT ![i].client = "up"]
  /\ UNCHANGED <<row, visible, current, reconciler, retained, edits, overlap>>

Connect(i) ==
  /\ record[i].client = "down" /\ CanQueue(i)
  /\ record' = [record EXCEPT ![i].client = "up", ![i].queued = @ + 1]
  /\ UNCHANGED <<row, visible, current, reconciler, retained, edits, overlap>>

Drop(i) ==
  /\ record[i].client = "up"
  /\ record' = [record EXCEPT ![i].client = "down"]
  /\ UNCHANGED <<row, visible, current, reconciler, retained, edits, overlap>>

\* A system is hidden or shown, and the map's record is told (syncSystemState).
SystemChanges ==
  /\ \E s \in Systems : visible' = IF s \in visible THEN visible \ {s} ELSE visible \cup {s}
  /\ IF current = 0 THEN UNCHANGED record ELSE CanQueue(current) /\ Queue(current)
  /\ UNCHANGED <<row, current, reconciler, retained, edits, overlap>>

Next ==
  \/ SystemChanges
  \/ \E r \in Reconcilers :
       \/ Edit(r) \/ Snapshot(r) \/ Turn(r) \/ Clear(r) \/ EndClient(r)
       \/ Create(r) \/ Connecting(r) \/ Sweep(r)
  \/ \E i \in Records :
       \/ SyncBegins(i) \/ SyncClears(i) \/ SyncRemoves(i) \/ SyncPublishes(i)
       \/ SyncEnds(i) \/ SyncRefused(i) \/ SyncFails(i) \/ Connect(i) \/ Drop(i)

Spec == Init /\ [][Next]_vars

-------------------------------------------------------------------------------
Quiet == /\ \A r \in Reconcilers : reconciler[r].pc = "idle"
         /\ \A i \in Records : record[i].phase = "idle" /\ record[i].queued = 0

Wanted == row.scope \cap visible

\* A client that is connected knows as published what Home Assistant is to see.
KnowsPublished ==
  current # 0 /\ record[current].client = "up" => record[current].published = Wanted

(* Whatever edits, hides, lost connections and syncs came in between, once *)
(* nothing is in progress: a channel that is not to run has no client, and *)
(* the client of one that runs knows as published exactly the systems Home *)
(* Assistant is to see, unless the broker refused its last subscription.   *)
(* When the last edit met no reconciliation in progress, the channel has a *)
(* client when it is to run, made from the row that is stored; when no     *)
(* edit ever did, it has no other.                                         *)
SettledMatchesRow ==
  Quiet => /\ current # 0 => Alive(current) /\ row.on
           /\ current # 0 /\ ~record[current].refused => KnowsPublished
           /\ overlap # "now" /\ row.on => current # 0 /\ record[current].fingerprint = row
           /\ overlap = "never" => \A i \in Records : Alive(i) => i = current

(* Not so: no sync follows one that the broker refused, and the published  *)
(* topics stay those of an earlier one.                                    *)
SettledPublished == Quiet => KnowsPublished

(* Not so: a reconciliation that goes on with an older row puts a client   *)
(* made from it into the map, in the place of one that is never ended.     *)
SettledClient ==
  Quiet => /\ row.on => current # 0 /\ record[current].fingerprint = row
           /\ \A i \in Records : Alive(i) => i = current

(* Not so either: a sync that is publishing when its record is stopped has topics *)
(* retained that stopRecord does not know of.                              *)
NoTopicLeft == Quiet /\ ~row.on => retained = {}

(* Not so either: the removal of a record stopped by its own sync may come *)
(* after the topics of the next one.                                       *)
SettledTopicsThere ==
  Quiet /\ current # 0 /\ record[current].client = "up" => Wanted \subseteq retained
================================================================================
