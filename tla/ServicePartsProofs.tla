--------------------------- MODULE ServicePartsProofs ---------------------------
(***************************************************************************)
(* The services around the systems, and the page of a channel, proved for  *)
(* every number of them.                                                   *)
(***************************************************************************)
EXTENDS Integers, FiniteSets, FiniteSetTheorems, Sequences, SequenceTheorems,
        WellFoundedInduction, TLAPS

CONSTANTS Systems, Channels, None,
          Reconcilers, MaxRecords, MaxMqttEdits, MaxQueued,             \* MqttRuntime
          Bots, Chats, Requests, MaxTokens, MaxLinks, MaxBotEdits,      \* TelegramChannel
          MaxUpdates, MaxConfirmations, MaxWorkers, MaxRestarts,        \* TelegramUpdates
          Watchers, MaxMessages, MaxResets, MaxBreaks,                  \* LiveOutput
          Managers, Builtin, Scopes, ManagerOf, Supplied, Detection, MaxScripts,  \* Scripts
          Schedules, Copies, MaxChanges,                                \* Schedules
          SecretPlaces, OldChannels, OldCrons, MaxCrashes,   \* the migrations
          PageSystems, PageSchedules, Names, Masked, NoText, NoAuth, Token, ChannelSessions
                                                                        \* ChannelForm

VARIABLES mqtt, visible, client, record, reconciler, retained, mqttEdits, overlap,
          saved, bot, tokens, issued, links, op, botEdits, overtaken, late,
          enabled, sync, current, worker, sent, acked, pending, created, handled, executed,
          cancelled, restarts,
          stream, buffer, subscribed, pipe, screen, cleared, published, resets, breaks,
          managers, script, lastScript, override, detected, disabled, search,
          schedule, last, systems, channels, timers, boot, outdated, runs, changes,
          saltFile, table, copy, login, credential, stored, settings, channel, digests,
          startPc, startTodo, startCrashes, promised, legacy,
          columns, row, mail, refreshes, markers, alerts, had, pc, todo, crashes, first,
          server, data, session, told, wire, form, tested

(* one.                                                                    *)
LEMMA HasLeast ==
  ASSUME NEW S, S \subseteq Nat, S # {} PROVE \E x \in S : \A y \in S : x <= y
<1> DEFINE R == OpToRel(<, Nat)
<1>1. IsWellFoundedOn(R, Nat)
  BY NatLessThanWellFounded
<1>2. \A y, x \in Nat : y < x => <<y, x>> \in R
  BY Zenon DEF OpToRel
<1> HIDE DEF R
<1>3. PICK x \in S : \A y \in S : ~ (<<y, x>> \in R)
  BY <1>1, WFMin
<1>4. \A y \in S : ~ (y < x)
  BY <1>2, <1>3
<1>5. \A y \in S : x <= y
  BY <1>4
<1> QED
  BY <1>5

LEMMA HasGreatest ==
  ASSUME NEW n \in Nat, NEW S, S \subseteq 1 .. n, S # {} PROVE \E z \in S : \A y \in S : z >= y
<1> DEFINE T == {n - y : y \in S}
<1>1. \A y \in S : y \in 1 .. n /\ n - y \in Nat /\ n - y \in T
  OBVIOUS
<1>2. T \subseteq Nat /\ T # {}
  BY <1>1
<1>3. PICK x \in T : \A y \in T : x <= y
  BY <1>2, HasLeast
<1>4. PICK z \in S : x = n - z
  BY <1>3
<1> HIDE DEF T
<1>5. \A y \in S : z >= y
  BY <1>1, <1>3, <1>4
<1> QED
  BY <1>5

--------------------------------------------------------------------------------
Discovery == INSTANCE MqttRuntime WITH
  row <- mqtt, current <- client, edits <- mqttEdits, MaxEdits <- MaxMqttEdits

--------------------------------------------------------------------------------
(***************************************************************************)
(* MQTT discovery.  A record that has left the map is the business of      *)
(* whoever took it out, and never comes back.  A record in the map of a    *)
(* channel that is not to run, or that is not synced to what is wanted,    *)
(* has a sync in its queue or a reconciler that still comes to it.  A      *)
(* reconciliation that no other one met has the row to itself.             *)
(***************************************************************************)
Stopping == {"clearing", "ending", "sweepClearing", "sweepEnding"}
RecordRow == [client : {"none", "down", "up", "ended"}, fingerprint : Discovery!Row,
              published : SUBSET Systems, queued : Nat,
              phase : {"idle", "removing", "publishing", "clearing", "ending"},
              next : SUBSET Systems, left : SUBSET Systems, stops : Discovery!Records \cup {0},
              refused : BOOLEAN]
ReconcilerRow == [pc : {"idle", "saved", "turn", "create", "connecting", "sweep"} \cup Stopping,
                  snapshot : Discovery!Row, target : Discovery!Records \cup {0}, active : BOOLEAN]

DiscoveryTyped ==
  /\ mqtt \in Discovery!Row /\ visible \subseteq Systems /\ client \in Discovery!Records \cup {0}
  /\ record \in [Discovery!Records -> RecordRow] /\ reconciler \in [Reconcilers -> ReconcilerRow]

Active(r) == r.client \in {"down", "up"}
Ends(r) == r.phase \in {"clearing", "ending"}

RecordsOwned ==
  /\ client # 0 => Active(record[client]) /\ ~Ends(record[client])
  /\ \A i \in Discovery!Records : record[i].client = "none" => record[i].phase = "idle"
     /\ record[i].queued = 0
  /\ \A i \in Discovery!Records : Ends(record[i]) =>
       /\ record[i].stops \in Discovery!Records /\ record[i].stops # client
       /\ record[record[i].stops].client # "none"

\* A reconciler, of the record in the map.
Owns(c, in) ==
  /\ c.pc \in Stopping \cup {"connecting"} =>
       c.target \in Discovery!Records /\ record[c.target].client # "none"
  /\ c.pc \in Stopping => c.target # in
  /\ c.pc \in {"turn", "clearing", "ending", "create"} => ~c.active

ReconcilersOwn == \A r \in Reconcilers : Owns(reconciler[r], client)

\* A reconciler c that is still to stop the record i, of the row w, or to have it synced.
Serves(c, i, w) ==
  \/ c.pc = "saved"
  \/ c.pc = "turn" /\ c.snapshot = w
  \/ c.pc = "connecting" /\ c.target = i
  \/ c.pc = "sweep" /\ ~c.active /\ ~w.on

Synced(r, wanted) ==
  \/ r.phase \in {"removing", "publishing"} /\ r.next = wanted
  \/ r.phase = "idle" /\ (r.published = wanted \/ r.refused)

Served(r) ==
  \/ r.queued > 0
  \/ \E q \in Reconcilers : Serves(reconciler[q], client, mqtt)
  \/ mqtt.on /\ Synced(r, mqtt.scope \cap visible)

CurrentServed ==
  client # 0 /\ (mqtt.on => record[client].client = "up") => Served(record[client])

\* A reconciler c, of the row w, with the record in the map and its fingerprint.
Agrees(c, w, in, fingerprint) ==
  /\ c.pc \notin {"idle", "saved"} => c.snapshot = w
  /\ c.pc = "idle" => (in # 0 <=> w.on) /\ (in # 0 => fingerprint = w)
  /\ c.pc \in Stopping \cup {"create"} => in = 0
  /\ c.pc = "create" => w.on
  /\ c.pc = "connecting" => w.on /\ in # 0 /\ in = c.target /\ fingerprint = w /\ c.active
  /\ c.pc = "sweep" => IF c.active THEN w.on /\ in # 0 /\ fingerprint = w ELSE ~w.on
  /\ c.pc \in {"sweepClearing", "sweepEnding"} => ~w.on

Alone(r) == \A q \in Reconcilers : q # r => reconciler[q].pc = "idle"

ReconcilersAgree ==
  overlap # "now" =>
    /\ \E r \in Reconcilers : Alone(r)
    /\ \A r \in Reconcilers :
         Alone(r) => Agrees(reconciler[r], mqtt, client, record[client].fingerprint)

RecordsKnown ==
  overlap = "never" =>
    \A i \in Discovery!Records : Active(record[i]) =>
       \/ i = client
       \/ \E r \in Reconcilers : reconciler[r].pc \in Stopping /\ reconciler[r].target = i
       \/ \E j \in Discovery!Records : Ends(record[j]) /\ record[j].stops = i

DiscoveryInv ==
  /\ DiscoveryTyped /\ RecordsOwned /\ ReconcilersOwn /\ CurrentServed
  /\ ReconcilersAgree /\ RecordsKnown

-------------------------------------------------------------------------------
\* One field of a record changes.
LEMMA WithPhase ==
  ASSUME NEW r \in RecordRow, NEW x \in {"idle", "removing", "publishing", "clearing", "ending"}
  PROVE  LET s == [r EXCEPT !.phase = x] IN
         /\ s \in RecordRow /\ s.phase = x /\ s.client = r.client /\ s.fingerprint = r.fingerprint
         /\ s.published = r.published /\ s.queued = r.queued /\ s.next = r.next
         /\ s.left = r.left /\ s.stops = r.stops /\ s.refused = r.refused
BY DEF RecordRow

\* The same of a phase that is not spelled out.
RecordPhases == {"idle", "removing", "publishing", "clearing", "ending"}

LEMMA WithPhaseOf ==
  ASSUME NEW r \in RecordRow, NEW x \in RecordPhases
  PROVE  LET s == [r EXCEPT !.phase = x] IN
         /\ s \in RecordRow /\ s.phase = x /\ s.client = r.client /\ s.fingerprint = r.fingerprint
         /\ s.published = r.published /\ s.queued = r.queued /\ s.next = r.next
         /\ s.left = r.left /\ s.stops = r.stops /\ s.refused = r.refused
BY DEF RecordPhases, RecordRow

LEMMA WithQueued ==
  ASSUME NEW r \in RecordRow, NEW x \in Nat
  PROVE  LET s == [r EXCEPT !.queued = x] IN
         /\ s \in RecordRow /\ s.queued = x /\ s.client = r.client /\ s.fingerprint = r.fingerprint
         /\ s.published = r.published /\ s.phase = r.phase /\ s.next = r.next
         /\ s.left = r.left /\ s.stops = r.stops /\ s.refused = r.refused
BY DEF RecordRow

LEMMA WithNext ==
  ASSUME NEW r \in RecordRow, NEW x \in SUBSET Systems
  PROVE  LET s == [r EXCEPT !.next = x] IN
         /\ s \in RecordRow /\ s.next = x /\ s.client = r.client /\ s.fingerprint = r.fingerprint
         /\ s.published = r.published /\ s.phase = r.phase /\ s.queued = r.queued
         /\ s.left = r.left /\ s.stops = r.stops /\ s.refused = r.refused
BY DEF RecordRow

LEMMA WithLeft ==
  ASSUME NEW r \in RecordRow, NEW x \in SUBSET Systems
  PROVE  LET s == [r EXCEPT !.left = x] IN
         /\ s \in RecordRow /\ s.left = x /\ s.client = r.client /\ s.fingerprint = r.fingerprint
         /\ s.published = r.published /\ s.phase = r.phase /\ s.queued = r.queued
         /\ s.next = r.next /\ s.stops = r.stops /\ s.refused = r.refused
BY DEF RecordRow

LEMMA WithPublished ==
  ASSUME NEW r \in RecordRow, NEW x \in SUBSET Systems
  PROVE  LET s == [r EXCEPT !.published = x] IN
         /\ s \in RecordRow /\ s.published = x /\ s.client = r.client
            /\ s.fingerprint = r.fingerprint
         /\ s.left = r.left /\ s.phase = r.phase /\ s.queued = r.queued
         /\ s.next = r.next /\ s.stops = r.stops /\ s.refused = r.refused
BY DEF RecordRow

LEMMA WithClient ==
  ASSUME NEW r \in RecordRow, NEW x \in {"none", "down", "up", "ended"}
  PROVE  LET s == [r EXCEPT !.client = x] IN
         /\ s \in RecordRow /\ s.client = x /\ s.published = r.published
            /\ s.fingerprint = r.fingerprint
         /\ s.left = r.left /\ s.phase = r.phase /\ s.queued = r.queued
         /\ s.next = r.next /\ s.stops = r.stops /\ s.refused = r.refused
BY DEF RecordRow

LEMMA WithStops ==
  ASSUME NEW r \in RecordRow, NEW x \in Discovery!Records \cup {0}
  PROVE  LET s == [r EXCEPT !.stops = x] IN
         /\ s \in RecordRow /\ s.stops = x /\ s.client = r.client /\ s.fingerprint = r.fingerprint
         /\ s.left = r.left /\ s.phase = r.phase /\ s.queued = r.queued
         /\ s.next = r.next /\ s.published = r.published /\ s.refused = r.refused
BY DEF RecordRow

LEMMA WithRefused ==
  ASSUME NEW r \in RecordRow, NEW x \in BOOLEAN
  PROVE  LET s == [r EXCEPT !.refused = x] IN
         /\ s \in RecordRow /\ s.refused = x /\ s.client = r.client /\ s.fingerprint = r.fingerprint
         /\ s.left = r.left /\ s.phase = r.phase /\ s.queued = r.queued
         /\ s.next = r.next /\ s.published = r.published /\ s.stops = r.stops
BY DEF RecordRow

\* A record with its client and its queue, that keeps what it has to stop.
Continues(new, old) ==
  /\ new.fingerprint = old.fingerprint
  /\ (new.client = old.client \/ (Active(new) /\ Active(old)))
  /\ (Ends(new) <=> Ends(old)) /\ (Ends(old) => new.stops = old.stops)
  /\ (old.client = "none" => new = old)

LEMMA SameContinues == ASSUME NEW x PROVE Continues(x, x)
BY DEF Continues

LEMMA RecordOK ==
  ASSUME DiscoveryInv, NEW i \in Discovery!Records
  PROVE  /\ record[i] \in RecordRow /\ record[i].queued \in Nat /\ record[i].next \in SUBSET Systems
         /\ record[i].left \in SUBSET Systems /\ record[i].published \in SUBSET Systems
         /\ record[i].refused \in BOOLEAN
         /\ record[i].client = "none" => record[i].phase = "idle" /\ record[i].queued = 0
         /\ i # 0
         /\ i = client => Active(record[i]) /\ ~Ends(record[i])
<1>1. record[i] \in RecordRow
  BY DEF DiscoveryInv, DiscoveryTyped
<1>2. /\ record[i].queued \in Nat /\ record[i].next \in SUBSET Systems
      /\ record[i].left \in SUBSET Systems /\ record[i].published \in SUBSET Systems
      /\ record[i].refused \in BOOLEAN
  BY <1>1 DEF RecordRow
<1>3. record[i].client = "none" => record[i].phase = "idle" /\ record[i].queued = 0
  BY DEF DiscoveryInv, RecordsOwned
<1>4. i # 0
  BY DEF Discovery!Records
<1>5. i = client => Active(record[i]) /\ ~Ends(record[i])
  BY <1>4 DEF DiscoveryInv, RecordsOwned
<1> QED
  BY <1>1, <1>2, <1>3, <1>4, <1>5

LEMMA RecordContinues ==
  ASSUME DiscoveryInv, NEW i \in Discovery!Records, NEW new \in RecordRow,
         Continues(new, record[i]),
         record' = [record EXCEPT ![i] = new], UNCHANGED <<mqtt, client, reconciler, overlap>>,
         visible' \subseteq Systems, visible' = visible \/ i = client,
         i = client /\ (mqtt.on => new.client = "up") =>
           \/ new.queued > 0
           \/ \E q \in Reconcilers : Serves(reconciler[q], client, mqtt)
           \/ mqtt.on /\ Synced(new, mqtt.scope \cap visible')
  PROVE  DiscoveryInv'
<1>1. \A j \in Discovery!Records : record'[j] = IF j = i THEN new ELSE record[j]
  BY DEF DiscoveryInv, DiscoveryTyped
<1>2. DiscoveryTyped'
  BY DEF DiscoveryInv, DiscoveryTyped
<1>3. ASSUME NEW j \in Discovery!Records
      PROVE  /\ record'[j].fingerprint = record[j].fingerprint
             /\ record'[j].client = "none" <=> record[j].client = "none"
             /\ Active(record'[j]) <=> Active(record[j])
             /\ Ends(record'[j]) <=> Ends(record[j])
             /\ Ends(record[j]) => record'[j].stops = record[j].stops
             /\ record[j].client = "none" => record'[j] = record[j]
  <2>1. CASE j = i
    BY <1>1, <2>1 DEF Continues, Active
  <2>2. CASE j # i
    BY <1>1, <2>2
  <2> QED
    BY <2>1, <2>2
<1>4. client = 0 \/ client \in Discovery!Records
  BY DEF DiscoveryInv, DiscoveryTyped
<1>5. RecordsOwned'
  BY <1>3, <1>4 DEF DiscoveryInv, RecordsOwned
<1>6. ReconcilersOwn'
  BY <1>3 DEF DiscoveryInv, ReconcilersOwn, Owns
<1>7. CurrentServed'
  <2> SUFFICES ASSUME client # 0, mqtt.on => record'[client].client = "up"
               PROVE  \/ record'[client].queued > 0
                      \/ \E q \in Reconcilers : Serves(reconciler[q], client, mqtt)
                      \/ mqtt.on /\ Synced(record'[client], mqtt.scope \cap visible')
    BY DEF CurrentServed, Served
  <2>1. CASE i = client
    BY <1>1, <2>1
  <2>2. CASE i # client
    <3>1. record'[client] = record[client] /\ visible' = visible
      BY <1>1, <1>4, <2>2
    <3> QED
      BY <3>1 DEF DiscoveryInv, CurrentServed, Served
  <2> QED
    BY <2>1, <2>2
<1>8. ReconcilersAgree'
  <2> SUFFICES ASSUME overlap # "now"
               PROVE  /\ \E r \in Reconcilers : Alone(r)
                      /\ \A r \in Reconcilers : Alone(r) =>
                           Agrees(reconciler[r], mqtt, client, record'[client].fingerprint)
    BY DEF ReconcilersAgree, Alone
  <2>1. /\ \E r \in Reconcilers : Alone(r)
        /\ \A r \in Reconcilers : Alone(r) =>
             Agrees(reconciler[r], mqtt, client, record[client].fingerprint)
    BY DEF DiscoveryInv, ReconcilersAgree
  <2>2. ASSUME NEW r \in Reconcilers, Alone(r)
        PROVE  Agrees(reconciler[r], mqtt, client, record'[client].fingerprint)
    <3>1. Agrees(reconciler[r], mqtt, client, record[client].fingerprint)
      BY <2>1, <2>2
    <3> QED
      BY <1>3, <1>4, <3>1 DEF Agrees
  <2> QED
    BY <2>1, <2>2
<1>9. RecordsKnown'
  BY <1>3 DEF DiscoveryInv, RecordsKnown
<1> QED
  BY <1>2, <1>5, <1>6, <1>7, <1>8, <1>9 DEF DiscoveryInv

\* What the steps of one record have in common: it stays what it is to the others.
LEMMA SameInPhase ==
  ASSUME NEW old \in RecordRow, NEW new \in RecordRow, old.client # "none",
         new.client = old.client, new.fingerprint = old.fingerprint, new.stops = old.stops,
         Ends(new) <=> Ends(old)
  PROVE  Continues(new, old)
BY DEF Continues

\* A step that leaves the queue, and does not lose what the record was synced to.
LEMMA SameService ==
  ASSUME DiscoveryInv, NEW i \in Discovery!Records, NEW new \in RecordRow,
         Continues(new, record[i]),
         record' = [record EXCEPT ![i] = new],
         UNCHANGED <<mqtt, visible, client, reconciler, overlap>>,
         new.queued = record[i].queued,
         i = client /\ mqtt.on /\ new.client = "up" =>
           /\ record[i].client = "up"
           /\ Synced(record[i], mqtt.scope \cap visible) => Synced(new, mqtt.scope \cap visible)
  PROVE  DiscoveryInv'
<1>1. i = client /\ (mqtt.on => new.client = "up") =>
        \/ new.queued > 0
        \/ \E q \in Reconcilers : Serves(reconciler[q], client, mqtt)
        \/ mqtt.on /\ Synced(new, mqtt.scope \cap visible)
  <2> SUFFICES ASSUME i = client, mqtt.on => new.client = "up"
               PROVE  \/ new.queued > 0
                      \/ \E q \in Reconcilers : Serves(reconciler[q], client, mqtt)
                      \/ mqtt.on /\ Synced(new, mqtt.scope \cap visible)
    OBVIOUS
  <2>1. Served(record[i])
    BY RecordOK DEF DiscoveryInv, CurrentServed
  <2> QED
    BY <2>1 DEF Served
<1> QED
  BY <1>1, RecordContinues DEF DiscoveryInv, DiscoveryTyped

LEMMA StepBeginsOn ==
  ASSUME DiscoveryInv, NEW i \in Discovery!Records, record[i].phase = "idle", record[i].queued > 0,
         mqtt.on,
         NEW works \in BOOLEAN, works <=> record[i].client = "up",
         record' = [record EXCEPT ![i].queued = @ - 1,
                      ![i].phase = IF works THEN "removing" ELSE "idle",
                      ![i].next = IF works THEN mqtt.scope \cap visible ELSE {},
                      ![i].refused = IF works THEN FALSE ELSE @],
         UNCHANGED <<mqtt, visible, client, reconciler, overlap>>
  PROVE  DiscoveryInv'
<1> DEFINE to == IF works THEN "removing" ELSE "idle"
<1> DEFINE then == IF works THEN mqtt.scope \cap visible ELSE {}
<1> DEFINE heard == IF works THEN FALSE ELSE record[i].refused
<1> DEFINE a == [record[i] EXCEPT !.queued = record[i].queued - 1]
<1> DEFINE b == [a EXCEPT !.phase = to]
<1> DEFINE d == [b EXCEPT !.next = then]
<1> DEFINE new == [d EXCEPT !.refused = heard]
<1>1. record[i].queued - 1 \in Nat /\ record[i] \in RecordRow /\ record[i].refused \in BOOLEAN
  BY RecordOK
<1>2. /\ to \in RecordPhases /\ to \in {"idle", "removing"}
      /\ works <=> to = "removing"
      /\ then \in SUBSET Systems
      /\ works => then = mqtt.scope \cap visible
      /\ heard \in BOOLEAN
  BY <1>1 DEF DiscoveryInv, DiscoveryTyped, RecordPhases
<1>3. record' = [record EXCEPT ![i] = new]
  BY <1>1 DEF DiscoveryInv, DiscoveryTyped, RecordRow
<1> HIDE DEF to, then, heard
<1>4. /\ a \in RecordRow /\ a.client = record[i].client /\ a.fingerprint = record[i].fingerprint
      /\ a.stops = record[i].stops /\ a.phase = record[i].phase
  BY <1>1, WithQueued
<1> HIDE DEF a
<1>5. /\ b \in RecordRow /\ b.client = a.client /\ b.fingerprint = a.fingerprint
      /\ b.stops = a.stops /\ b.phase = to
  BY <1>2, <1>4, WithPhaseOf
<1> HIDE DEF b
<1>6. /\ d \in RecordRow /\ d.client = b.client /\ d.fingerprint = b.fingerprint
      /\ d.stops = b.stops /\ d.phase = b.phase /\ d.next = then
  BY <1>2, <1>5, WithNext
<1> HIDE DEF d
<1>7. /\ new \in RecordRow /\ new.client = d.client /\ new.fingerprint = d.fingerprint
      /\ new.stops = d.stops /\ new.phase = d.phase /\ new.next = d.next
  BY <1>2, <1>6, WithRefused
<1> HIDE DEF new
<1>8. record[i].client # "none"
  BY RecordOK
<1>9. Continues(new, record[i])
  BY <1>2, <1>4, <1>5, <1>6, <1>7, <1>8 DEF Continues, Ends
<1>10. new.client = "up" => Synced(new, mqtt.scope \cap visible)
  BY <1>2, <1>4, <1>5, <1>6, <1>7 DEF Synced
<1> QED
  BY <1>3, <1>7, <1>9, <1>10, RecordContinues DEF DiscoveryInv, DiscoveryTyped

LEMMA StepClearing ==
  ASSUME DiscoveryInv, NEW i \in Discovery!Records, record[i].phase = "clearing",
         record' = [record EXCEPT ![i].phase = "ending"],
         UNCHANGED <<mqtt, visible, client, reconciler, overlap>>
  PROVE  DiscoveryInv'
<1> DEFINE new == [record[i] EXCEPT !.phase = "ending"]
<1>1. record[i] \in RecordRow /\ record[i].client # "none"
  BY RecordOK
<1>2. record' = [record EXCEPT ![i] = new]
  BY DEF DiscoveryInv, DiscoveryTyped
<1>3. /\ new \in RecordRow /\ new.client = record[i].client
      /\ new.fingerprint = record[i].fingerprint /\ new.stops = record[i].stops
      /\ new.phase = "ending"
  BY <1>1, WithPhase
<1> HIDE DEF new
<1>4. Continues(new, record[i])
  BY <1>1, <1>3, SameInPhase DEF Ends
<1>5. i # client
  BY RecordOK DEF Ends
<1> QED
  BY <1>2, <1>3, <1>4, <1>5, RecordContinues DEF DiscoveryInv, DiscoveryTyped

LEMMA StepRemoved ==
  ASSUME DiscoveryInv, NEW i \in Discovery!Records, record[i].phase = "removing",
         record' = [record EXCEPT ![i].phase = "publishing", ![i].left = record[i].next],
         UNCHANGED <<mqtt, visible, client, reconciler, overlap>>
  PROVE  DiscoveryInv'
<1> DEFINE a == [record[i] EXCEPT !.phase = "publishing"]
<1> DEFINE new == [a EXCEPT !.left = record[i].next]
<1>1. record[i] \in RecordRow /\ record[i].client # "none" /\ record[i].next \in SUBSET Systems
  BY RecordOK
<1>2. record' = [record EXCEPT ![i] = new]
  BY <1>1 DEF DiscoveryInv, DiscoveryTyped, RecordRow
<1>3. /\ a \in RecordRow /\ a.client = record[i].client /\ a.fingerprint = record[i].fingerprint
      /\ a.stops = record[i].stops /\ a.phase = "publishing" /\ a.next = record[i].next
      /\ a.queued = record[i].queued
  BY <1>1, WithPhase
<1> HIDE DEF a
<1>4. /\ new \in RecordRow /\ new.client = a.client /\ new.fingerprint = a.fingerprint
      /\ new.stops = a.stops /\ new.phase = a.phase /\ new.next = a.next /\ new.queued = a.queued
  BY <1>1, <1>3, WithLeft
<1> HIDE DEF new
<1>5. Continues(new, record[i])
  BY <1>1, <1>3, <1>4, SameInPhase DEF Ends
<1>6. Synced(record[i], mqtt.scope \cap visible) => Synced(new, mqtt.scope \cap visible)
  BY <1>3, <1>4 DEF Synced
<1> QED
  BY <1>2, <1>3, <1>4, <1>5, <1>6, SameService

LEMMA StepGivesUp ==
  ASSUME DiscoveryInv, NEW i \in Discovery!Records, record[i].phase = "removing",
         record[i].client # "up",
         record' = [record EXCEPT ![i].phase = "idle", ![i].next = {}],
         UNCHANGED <<mqtt, visible, client, reconciler, overlap>>
  PROVE  DiscoveryInv'
<1> DEFINE a == [record[i] EXCEPT !.phase = "idle"]
<1> DEFINE new == [a EXCEPT !.next = {}]
<1>1. record[i] \in RecordRow /\ record[i].client # "none"
  BY RecordOK
<1>2. record' = [record EXCEPT ![i] = new]
  BY <1>1 DEF DiscoveryInv, DiscoveryTyped, RecordRow
<1>3. /\ a \in RecordRow /\ a.client = record[i].client /\ a.fingerprint = record[i].fingerprint
      /\ a.stops = record[i].stops /\ a.phase = "idle" /\ a.queued = record[i].queued
  BY <1>1, WithPhase
<1> HIDE DEF a
<1>4. /\ new \in RecordRow /\ new.client = a.client /\ new.fingerprint = a.fingerprint
      /\ new.stops = a.stops /\ new.phase = a.phase /\ new.queued = a.queued
  BY <1>3, WithNext
<1> HIDE DEF new
<1>5. Continues(new, record[i]) /\ new.client # "up"
  BY <1>1, <1>3, <1>4, SameInPhase DEF Ends
<1> QED
  BY <1>2, <1>3, <1>4, <1>5, SameService

LEMMA StepPublishes ==
  ASSUME DiscoveryInv, NEW i \in Discovery!Records, record[i].phase = "publishing", NEW s,
         record' = [record EXCEPT ![i].left = @ \ {s}],
         UNCHANGED <<mqtt, visible, client, reconciler, overlap>>
  PROVE  DiscoveryInv'
<1> DEFINE left == record[i].left \ {s}
<1> DEFINE new == [record[i] EXCEPT !.left = left]
<1>1. record[i] \in RecordRow /\ record[i].client # "none" /\ left \in SUBSET Systems
  BY RecordOK
<1>2. record' = [record EXCEPT ![i] = new]
  BY <1>1 DEF DiscoveryInv, DiscoveryTyped, RecordRow
<1> HIDE DEF left
<1>3. /\ new \in RecordRow /\ new.client = record[i].client
      /\ new.fingerprint = record[i].fingerprint /\ new.stops = record[i].stops
      /\ new.phase = record[i].phase /\ new.next = record[i].next
      /\ new.queued = record[i].queued /\ new.published = record[i].published
      /\ new.refused = record[i].refused
  BY <1>1, WithLeft
<1> HIDE DEF new
<1>4. Continues(new, record[i])
  BY <1>1, <1>3, SameInPhase DEF Ends
<1>5. Synced(record[i], mqtt.scope \cap visible) => Synced(new, mqtt.scope \cap visible)
  BY <1>3 DEF Synced
<1> QED
  BY <1>2, <1>3, <1>4, <1>5, SameService

LEMMA StepEnds ==
  ASSUME DiscoveryInv, NEW i \in Discovery!Records, record[i].phase = "publishing",
         record' = [record EXCEPT ![i].phase = "idle", ![i].published = record[i].next,
                                  ![i].next = {}],
         UNCHANGED <<mqtt, visible, client, reconciler, overlap>>
  PROVE  DiscoveryInv'
<1> DEFINE a == [record[i] EXCEPT !.phase = "idle"]
<1> DEFINE b == [a EXCEPT !.published = record[i].next]
<1> DEFINE new == [b EXCEPT !.next = {}]
<1>1. record[i] \in RecordRow /\ record[i].client # "none" /\ record[i].next \in SUBSET Systems
  BY RecordOK
<1>2. record' = [record EXCEPT ![i] = new]
  BY <1>1 DEF DiscoveryInv, DiscoveryTyped, RecordRow
<1>3. /\ a \in RecordRow /\ a.client = record[i].client /\ a.fingerprint = record[i].fingerprint
      /\ a.stops = record[i].stops /\ a.phase = "idle" /\ a.queued = record[i].queued
  BY <1>1, WithPhase
<1> HIDE DEF a
<1>4. /\ b \in RecordRow /\ b.client = a.client /\ b.fingerprint = a.fingerprint
      /\ b.stops = a.stops /\ b.phase = a.phase /\ b.queued = a.queued
      /\ b.published = record[i].next
  BY <1>1, <1>3, WithPublished
<1> HIDE DEF b
<1>5. /\ new \in RecordRow /\ new.client = b.client /\ new.fingerprint = b.fingerprint
      /\ new.stops = b.stops /\ new.phase = b.phase /\ new.queued = b.queued
      /\ new.published = b.published
  BY <1>4, WithNext
<1> HIDE DEF new
<1>6. Continues(new, record[i])
  BY <1>1, <1>3, <1>4, <1>5, SameInPhase DEF Ends
<1>7. Synced(record[i], mqtt.scope \cap visible) => Synced(new, mqtt.scope \cap visible)
  BY <1>3, <1>4, <1>5 DEF Synced
<1>8. new \in RecordRow /\ new.client = record[i].client /\ new.queued = record[i].queued
  BY <1>3, <1>4, <1>5
<1> QED
  BY <1>2, <1>6, <1>7, <1>8, SameService

\* The exits of a sync that publishes: a refused one is known as such, and the other
\* is of a client that was ended.
LEMMA StepGivenUp ==
  ASSUME DiscoveryInv, NEW i \in Discovery!Records, record[i].phase = "publishing",
         NEW heard \in BOOLEAN, heard \/ record[i].client = "ended",
         record' = [record EXCEPT ![i].phase = "idle", ![i].next = {}, ![i].left = {},
                                  ![i].refused = heard],
         UNCHANGED <<mqtt, visible, client, reconciler, overlap>>
  PROVE  DiscoveryInv'
<1> DEFINE a == [record[i] EXCEPT !.phase = "idle"]
<1> DEFINE b == [a EXCEPT !.next = {}]
<1> DEFINE d == [b EXCEPT !.left = {}]
<1> DEFINE new == [d EXCEPT !.refused = heard]
<1>1. record[i] \in RecordRow /\ record[i].client # "none"
      /\ (record[i].client = "ended" => i # client)
  BY RecordOK DEF Active
<1>2. record' = [record EXCEPT ![i] = new]
  BY <1>1 DEF DiscoveryInv, DiscoveryTyped, RecordRow
<1>3. /\ a \in RecordRow /\ a.client = record[i].client /\ a.fingerprint = record[i].fingerprint
      /\ a.stops = record[i].stops /\ a.phase = "idle" /\ a.queued = record[i].queued
  BY <1>1, WithPhase
<1> HIDE DEF a
<1>4. /\ b \in RecordRow /\ b.client = a.client /\ b.fingerprint = a.fingerprint
      /\ b.stops = a.stops /\ b.phase = a.phase /\ b.queued = a.queued
  BY <1>3, WithNext
<1> HIDE DEF b
<1>5. /\ d \in RecordRow /\ d.client = b.client /\ d.fingerprint = b.fingerprint
      /\ d.stops = b.stops /\ d.phase = b.phase /\ d.queued = b.queued
  BY <1>4, WithLeft
<1> HIDE DEF d
<1>6. /\ new \in RecordRow /\ new.client = d.client /\ new.fingerprint = d.fingerprint
      /\ new.stops = d.stops /\ new.phase = d.phase /\ new.queued = d.queued
      /\ new.refused = heard
  BY <1>5, WithRefused
<1> HIDE DEF new
<1>7. Continues(new, record[i])
  BY <1>1, <1>3, <1>4, <1>5, <1>6, SameInPhase DEF Ends
<1>8. i = client => Synced(new, mqtt.scope \cap visible)
  BY <1>1, <1>3, <1>4, <1>5, <1>6 DEF Synced
<1>9. new \in RecordRow /\ new.client = record[i].client /\ new.queued = record[i].queued
  BY <1>3, <1>4, <1>5, <1>6
<1> QED
  BY <1>2, <1>7, <1>8, <1>9, SameService

LEMMA StepConnect ==
  ASSUME DiscoveryInv, NEW i \in Discovery!Records, record[i].client = "down",
         record' = [record EXCEPT ![i].client = "up", ![i].queued = @ + 1],
         UNCHANGED <<mqtt, visible, client, reconciler, overlap>>
  PROVE  DiscoveryInv'
<1> DEFINE a == [record[i] EXCEPT !.client = "up"]
<1> DEFINE new == [a EXCEPT !.queued = record[i].queued + 1]
<1>1. record[i] \in RecordRow /\ record[i].queued + 1 \in Nat /\ record[i].queued + 1 > 0
  BY RecordOK
<1>2. record' = [record EXCEPT ![i] = new]
  BY <1>1 DEF DiscoveryInv, DiscoveryTyped, RecordRow
<1>3. /\ a \in RecordRow /\ a.client = "up" /\ a.fingerprint = record[i].fingerprint
      /\ a.stops = record[i].stops /\ a.phase = record[i].phase
  BY <1>1, WithClient
<1> HIDE DEF a
<1>4. /\ new \in RecordRow /\ new.client = a.client /\ new.fingerprint = a.fingerprint
      /\ new.stops = a.stops /\ new.phase = a.phase /\ new.queued = record[i].queued + 1
  BY <1>1, <1>3, WithQueued
<1> HIDE DEF new
<1>5. Continues(new, record[i])
  BY <1>3, <1>4 DEF Continues, Active, Ends
<1> QED
  BY <1>1, <1>2, <1>4, <1>5, RecordContinues DEF DiscoveryInv, DiscoveryTyped

LEMMA StepDrop ==
  ASSUME DiscoveryInv, NEW i \in Discovery!Records, record[i].client = "up",
         record' = [record EXCEPT ![i].client = "down"],
         UNCHANGED <<mqtt, visible, client, reconciler, overlap>>
  PROVE  DiscoveryInv'
<1> DEFINE new == [record[i] EXCEPT !.client = "down"]
<1>1. record[i] \in RecordRow
  BY RecordOK
<1>2. record' = [record EXCEPT ![i] = new]
  BY <1>1 DEF DiscoveryInv, DiscoveryTyped, RecordRow
<1>3. /\ new \in RecordRow /\ new.client = "down" /\ new.fingerprint = record[i].fingerprint
      /\ new.stops = record[i].stops /\ new.phase = record[i].phase
      /\ new.queued = record[i].queued
  BY <1>1, WithClient
<1> HIDE DEF new
<1>4. Continues(new, record[i])
  BY <1>3 DEF Continues, Active, Ends
<1> QED
  BY <1>2, <1>3, <1>4, SameService

\* A sync of the record in the map is queued when systems change.
LEMMA StepQueues ==
  ASSUME DiscoveryInv, NEW i \in Discovery!Records, Active(record[i]), Discovery!Queue(i),
         visible' \subseteq Systems, visible' = visible \/ i = client,
         UNCHANGED <<mqtt, client, reconciler, overlap>>
  PROVE  DiscoveryInv'
<1> DEFINE new == [record[i] EXCEPT !.queued = record[i].queued + 1]
<1>1. record[i] \in RecordRow /\ record[i].queued + 1 \in Nat /\ record[i].queued + 1 > 0
  BY RecordOK
<1>2. record' = [record EXCEPT ![i] = new]
  BY <1>1 DEF DiscoveryInv, DiscoveryTyped, RecordRow, Discovery!Queue
<1>3. /\ new \in RecordRow /\ new.client = record[i].client
      /\ new.fingerprint = record[i].fingerprint /\ new.stops = record[i].stops
      /\ new.phase = record[i].phase /\ new.queued = record[i].queued + 1
  BY <1>1, WithQueued
<1> HIDE DEF new
<1>4. Continues(new, record[i])
  BY <1>3 DEF Continues, Active, Ends
<1> QED
  BY <1>1, <1>2, <1>3, <1>4, RecordContinues

LEMMA StepSystemChanges == ASSUME DiscoveryInv, Discovery!SystemChanges PROVE DiscoveryInv'
<1>1. visible' \subseteq Systems /\ UNCHANGED <<mqtt, client, reconciler, overlap>>
  BY DEF Discovery!SystemChanges, DiscoveryInv, DiscoveryTyped
<1>2. CASE client = 0
  <2>1. UNCHANGED record
    BY <1>2 DEF Discovery!SystemChanges
  <2> QED
    BY <1>1, <1>2, <2>1
       DEF DiscoveryInv, DiscoveryTyped, RecordsOwned, ReconcilersOwn, Owns, CurrentServed,
           ReconcilersAgree, Agrees, Alone, RecordsKnown
<1>3. CASE client # 0
  <2>1. Discovery!Queue(client) /\ client \in Discovery!Records /\ Active(record[client])
    BY <1>3 DEF Discovery!SystemChanges, DiscoveryInv, DiscoveryTyped, RecordsOwned
  <2> QED
    BY <1>1, <2>1, StepQueues
<1> QED
  BY <1>2, <1>3

\* A sync of a channel that is not to run takes the record out of the map.
LEMMA StepBeginsOff ==
  ASSUME DiscoveryInv, NEW i \in Discovery!Records, record[i].phase = "idle", record[i].queued > 0,
         ~mqtt.on,
         record' = [record EXCEPT ![i].queued = @ - 1,
                      ![i].phase = IF client = 0 THEN "idle" ELSE "clearing",
                      ![i].stops = client],
         client' = 0, UNCHANGED <<mqtt, visible, reconciler, overlap>>
  PROVE  DiscoveryInv'
<1> DEFINE to == IF client = 0 THEN "idle" ELSE "clearing"
<1> DEFINE a == [record[i] EXCEPT !.queued = record[i].queued - 1]
<1> DEFINE b == [a EXCEPT !.phase = to]
<1> DEFINE new == [b EXCEPT !.stops = client]
<1>1. /\ record[i].queued - 1 \in Nat /\ record[i] \in RecordRow /\ record[i].client # "none"
      /\ client \in Discovery!Records \cup {0}
  BY RecordOK DEF DiscoveryInv, DiscoveryTyped
<1>2. /\ to \in RecordPhases
      /\ to \in {"clearing", "ending"} <=> client # 0
  BY DEF RecordPhases
<1>3. record' = [record EXCEPT ![i] = new]
  BY <1>1 DEF DiscoveryInv, DiscoveryTyped, RecordRow
<1> HIDE DEF to
<1>4. /\ a \in RecordRow /\ a.client = record[i].client /\ a.fingerprint = record[i].fingerprint
  BY <1>1, WithQueued
<1> HIDE DEF a
<1>5. /\ b \in RecordRow /\ b.client = a.client /\ b.fingerprint = a.fingerprint /\ b.phase = to
  BY <1>2, <1>4, WithPhaseOf
<1> HIDE DEF b
<1>6. /\ new \in RecordRow /\ new.client = b.client /\ new.fingerprint = b.fingerprint
      /\ new.phase = b.phase /\ new.stops = client
  BY <1>1, <1>5, WithStops
<1> HIDE DEF new
<1>7. /\ new.client = record[i].client
      /\ new.fingerprint = record[i].fingerprint
      /\ new.stops = client
      /\ Ends(new) <=> client # 0
  BY <1>2, <1>4, <1>5, <1>6 DEF Ends
<1>8. \A j \in Discovery!Records : record'[j] = IF j = i THEN new ELSE record[j]
  BY <1>3 DEF DiscoveryInv, DiscoveryTyped
<1>9. ASSUME NEW j \in Discovery!Records
      PROVE  /\ record'[j].client = record[j].client
                 /\ record'[j].fingerprint = record[j].fingerprint
             /\ j # i => record'[j] = record[j]
             /\ j # 0
  BY <1>7, <1>8, RecordOK
<1>10. DiscoveryTyped'
  <2>1. record' \in [Discovery!Records -> RecordRow]
    BY <1>3, <1>6 DEF DiscoveryInv, DiscoveryTyped
  <2> QED
    BY <2>1 DEF DiscoveryInv, DiscoveryTyped
<1>11. RecordsOwned'
  <2>1. ASSUME NEW j \in Discovery!Records, record'[j].client = "none"
        PROVE  record'[j].phase = "idle" /\ record'[j].queued = 0
    BY <1>1, <1>9, <2>1, RecordOK
  <2>2. ASSUME NEW j \in Discovery!Records, Ends(record'[j])
        PROVE  /\ record'[j].stops \in Discovery!Records /\ record'[j].stops # 0
               /\ record'[record'[j].stops].client # "none"
    <3>1. CASE j = i
      <4>1. client # 0 /\ client \in Discovery!Records /\ record'[j].stops = client
        BY <1>1, <1>7, <1>8, <2>2, <3>1
      <4>2. record[client].client # "none"
        BY <4>1 DEF DiscoveryInv, RecordsOwned, Active
      <4> QED
        BY <1>9, <4>1, <4>2
    <3>2. CASE j # i
      <4>1. record'[j] = record[j]
        BY <1>9, <3>2
      <4>2. /\ record[j].stops \in Discovery!Records
            /\ record[record[j].stops].client # "none"
        BY <2>2, <4>1 DEF DiscoveryInv, RecordsOwned
      <4> QED
        BY <1>9, <4>1, <4>2
    <3> QED
      BY <3>1, <3>2
  <2>3. \A j \in Discovery!Records : record'[j].client = "none" =>
             record'[j].phase = "idle" /\ record'[j].queued = 0
    BY <2>1
  <2>4. \A j \in Discovery!Records : Ends(record'[j]) =>
          /\ record'[j].stops \in Discovery!Records /\ record'[j].stops # client'
          /\ record'[record'[j].stops].client # "none"
    BY <2>2
  <2> QED
    BY <2>3, <2>4, Zenon DEF RecordsOwned, Active, Ends
<1>12. ReconcilersOwn'
  <2> SUFFICES ASSUME NEW r \in Reconcilers
               PROVE  /\ reconciler[r].pc \in Stopping \cup {"connecting"} =>
                           /\ reconciler[r].target \in Discovery!Records
                           /\ record'[reconciler[r].target].client # "none"
                      /\ reconciler[r].pc \in Stopping => reconciler[r].target # 0
                      /\ reconciler[r].pc \in {"turn", "clearing", "ending", "create"}
                           => ~reconciler[r].active
    BY DEF ReconcilersOwn, Owns
  <2>1. Owns(reconciler[r], client)
    BY DEF DiscoveryInv, ReconcilersOwn
  <2> QED
    BY <1>9, <2>1 DEF Owns
<1>13. CurrentServed'
  BY DEF CurrentServed
<1>14. ReconcilersAgree'
  <2> SUFFICES ASSUME overlap # "now"
               PROVE  /\ \E r \in Reconcilers : Alone(r)
                      /\ \A r \in Reconcilers : Alone(r) =>
                           Agrees(reconciler[r], mqtt, 0, record'[0].fingerprint)
    BY DEF ReconcilersAgree, Alone
  <2>1. /\ \E r \in Reconcilers : Alone(r)
        /\ \A r \in Reconcilers : Alone(r) =>
             Agrees(reconciler[r], mqtt, client, record[client].fingerprint)
    BY DEF DiscoveryInv, ReconcilersAgree
  <2>2. ASSUME NEW r \in Reconcilers, Alone(r)
        PROVE  Agrees(reconciler[r], mqtt, 0, record'[0].fingerprint)
    <3>1. Agrees(reconciler[r], mqtt, client, record[client].fingerprint)
      BY <2>1, <2>2
    <3> QED
      BY <3>1 DEF Agrees
  <2> QED
    BY <2>1, <2>2
<1>15. RecordsKnown'
  <2> SUFFICES ASSUME overlap = "never", NEW j \in Discovery!Records, Active(record'[j])
               PROVE  \/ \E r \in Reconcilers : reconciler[r].pc \in Stopping
                          /\ reconciler[r].target = j
                      \/ \E k \in Discovery!Records : Ends(record'[k]) /\ record'[k].stops = j
    BY DEF RecordsKnown
  <2>1. Active(record[j])
    BY <1>9 DEF Active
  <2>2. CASE j = client
    <3>1. record'[i] = new /\ client # 0
      BY <1>8, <1>9, <2>2
    <3>2. Ends(record'[i]) /\ record'[i].stops = j
      BY <1>7, <2>2, <3>1
    <3> QED
      BY <3>2
  <2>3. ASSUME NEW k \in Discovery!Records, Ends(record[k]), record[k].stops = j
        PROVE  Ends(record'[k]) /\ record'[k].stops = j
    BY <1>9, <2>3 DEF Ends
  <2> QED
    BY <2>1, <2>2, <2>3 DEF DiscoveryInv, RecordsKnown
<1> QED
  BY <1>10, <1>11, <1>12, <1>13, <1>14, <1>15 DEF DiscoveryInv

LEMMA StepEnding ==
  ASSUME DiscoveryInv, NEW i \in Discovery!Records, record[i].phase = "ending",
         record' = [j \in Discovery!Records |->
          LET r == IF j = i THEN [record[i] EXCEPT !.phase = "idle", !.stops = 0] ELSE record[j]
          IN IF j = record[i].stops THEN [r EXCEPT !.client = "ended"] ELSE r],
         UNCHANGED <<mqtt, visible, client, reconciler, overlap>>
  PROVE  DiscoveryInv'
<1> DEFINE k == record[i].stops
<1> DEFINE a == [record[i] EXCEPT !.phase = "idle"]
<1> DEFINE b == [a EXCEPT !.stops = 0]
<1> DEFINE over(j) == IF j = i THEN b ELSE record[j]
<1>1. /\ k \in Discovery!Records /\ k # client /\ record[k].client # "none" /\ i # client
      /\ record[i] \in RecordRow /\ record[i].client # "none"
  BY RecordOK DEF DiscoveryInv, RecordsOwned, Ends
<1>2. \A j \in Discovery!Records : record'[j] = IF j = k THEN [over(j) EXCEPT !.client = "ended"]
        ELSE over(j)
  BY <1>1 DEF RecordRow
<1> HIDE DEF k
<1>3. a \in RecordRow /\ a.client = record[i].client /\ a.fingerprint = record[i].fingerprint
      /\ a.phase = "idle" /\ a.queued = record[i].queued
  BY <1>1, WithPhase
<1> HIDE DEF a
<1>4. b \in RecordRow /\ b.client = a.client /\ b.fingerprint = a.fingerprint
      /\ b.phase = "idle" /\ b.queued = a.queued
  BY <1>3, WithStops
<1> HIDE DEF b
<1>5. ASSUME NEW j \in Discovery!Records
      PROVE  /\ over(j) \in RecordRow /\ over(j).client = record[j].client
             /\ over(j).fingerprint = record[j].fingerprint
             /\ over(j).queued = record[j].queued
             /\ j = i => over(j).phase = "idle"
             /\ j # i => over(j) = record[j]
  BY <1>3, <1>4, RecordOK
<1> HIDE DEF over
<1>6. ASSUME NEW j \in Discovery!Records
      PROVE  /\ record'[j] \in RecordRow
             /\ record'[j].client = IF j = k THEN "ended" ELSE record[j].client
             /\ record'[j].fingerprint = record[j].fingerprint
             /\ record'[j].queued = record[j].queued
             /\ j = i => record'[j].phase = "idle"
             /\ j # i => record'[j].phase = record[j].phase /\ record'[j].stops = record[j].stops
             /\ j # i /\ j # k => record'[j] = record[j]
  <2>1. CASE j = k
    <3>1. PICK x \in RecordRow : x = over(j)
      BY <1>5
    <3> DEFINE closed == [x EXCEPT !.client = "ended"]
    <3>2. /\ closed \in RecordRow /\ closed.client = "ended" /\ closed.fingerprint = x.fingerprint
          /\ closed.queued = x.queued /\ closed.phase = x.phase /\ closed.stops = x.stops
      BY WithClient
    <3>3. record'[j] = closed
      BY <1>2, <2>1, <3>1
    <3> HIDE DEF closed
    <3> QED
      BY <1>5, <2>1, <3>1, <3>2, <3>3
  <2>2. CASE j # k
    <3>1. record'[j] = over(j)
      BY <1>2, <2>2
    <3> QED
      BY <1>5, <2>2, <3>1
  <2> QED
    BY <2>1, <2>2
<1>7. DiscoveryTyped'
  <2>1. record' \in [Discovery!Records -> RecordRow]
    BY <1>6
  <2> QED
    BY <2>1 DEF DiscoveryInv, DiscoveryTyped
<1>8. client = 0 \/ client \in Discovery!Records
  BY DEF DiscoveryInv, DiscoveryTyped
<1>9. RecordsOwned'
  <2>1. client # 0 => Active(record'[client]) /\ ~Ends(record'[client])
    BY <1>1, <1>6, <1>8 DEF DiscoveryInv, RecordsOwned
  <2>2. ASSUME NEW j \in Discovery!Records, record'[j].client = "none"
        PROVE  record'[j].phase = "idle" /\ record'[j].queued = 0
    BY <1>6, <2>2, RecordOK
  <2>3. ASSUME NEW j \in Discovery!Records, Ends(record'[j])
        PROVE  /\ record'[j].stops \in Discovery!Records /\ record'[j].stops # client
               /\ record'[record'[j].stops].client # "none"
    <3>1. j # i /\ Ends(record[j]) /\ record'[j].stops = record[j].stops
      BY <1>6, <2>3 DEF Ends
    <3>2. /\ record[j].stops \in Discovery!Records /\ record[j].stops # client
          /\ record[record[j].stops].client # "none"
      BY <3>1 DEF DiscoveryInv, RecordsOwned
    <3> QED
      BY <1>6, <3>1, <3>2
  <2>4. /\ \A j \in Discovery!Records : record'[j].client = "none" =>
             record'[j].phase = "idle" /\ record'[j].queued = 0
        /\ \A j \in Discovery!Records : Ends(record'[j]) =>
             /\ record'[j].stops \in Discovery!Records /\ record'[j].stops # client
             /\ record'[record'[j].stops].client # "none"
    BY <2>2, <2>3
  <2> QED
    BY <2>1, <2>4 DEF RecordsOwned, Active, Ends
<1>10. ReconcilersOwn'
  BY <1>6 DEF DiscoveryInv, ReconcilersOwn, Owns
<1>11. CurrentServed'
  <2>1. client # 0 => record'[client] = record[client]
    BY <1>1, <1>6, <1>8
  <2> QED
    BY <2>1 DEF DiscoveryInv, CurrentServed, Served
<1>12. ReconcilersAgree'
  <2> SUFFICES ASSUME overlap # "now"
               PROVE  /\ \E r \in Reconcilers : Alone(r)
                      /\ \A r \in Reconcilers : Alone(r) =>
                           Agrees(reconciler[r], mqtt, client, record'[client].fingerprint)
    BY DEF ReconcilersAgree, Alone
  <2>1. /\ \E r \in Reconcilers : Alone(r)
        /\ \A r \in Reconcilers : Alone(r) =>
             Agrees(reconciler[r], mqtt, client, record[client].fingerprint)
    BY DEF DiscoveryInv, ReconcilersAgree
  <2>2. ASSUME NEW r \in Reconcilers, Alone(r)
        PROVE  Agrees(reconciler[r], mqtt, client, record'[client].fingerprint)
    <3>1. Agrees(reconciler[r], mqtt, client, record[client].fingerprint)
      BY <2>1, <2>2
    <3> QED
      BY <1>6, <1>8, <3>1 DEF Agrees
  <2> QED
    BY <2>1, <2>2
<1>13. RecordsKnown'
  <2> SUFFICES ASSUME overlap = "never", NEW j \in Discovery!Records, Active(record'[j])
               PROVE  \/ j = client
                      \/ \E r \in Reconcilers : reconciler[r].pc \in Stopping
                         /\ reconciler[r].target = j
                      \/ \E l \in Discovery!Records : Ends(record'[l]) /\ record'[l].stops = j
    BY DEF RecordsKnown
  <2>1. record'[j].client = IF j = k THEN "ended" ELSE record[j].client
    BY <1>6
  <2>2. j # k /\ Active(record[j])
    BY <2>1 DEF Active
  <2>3. ASSUME NEW l \in Discovery!Records, Ends(record[l]), record[l].stops = j
        PROVE  Ends(record'[l]) /\ record'[l].stops = j
    <3>1. l # i
      BY <2>2, <2>3 DEF k
    <3> QED
      BY <1>6, <2>3, <3>1 DEF Ends
  <2> QED
    BY <2>2, <2>3 DEF DiscoveryInv, RecordsKnown
<1> QED
  BY <1>7, <1>9, <1>10, <1>11, <1>12, <1>13 DEF DiscoveryInv

-------------------------------------------------------------------------------
\* The reconcilers.
LEMMA WithPc ==
  ASSUME NEW c \in ReconcilerRow,
         NEW x \in {"idle", "saved", "turn", "create", "connecting", "sweep"} \cup Stopping
  PROVE  LET d == [c EXCEPT !.pc = x] IN
         /\ d \in ReconcilerRow /\ d.pc = x /\ d.snapshot = c.snapshot /\ d.target = c.target
         /\ d.active = c.active
BY DEF ReconcilerRow

LEMMA WithTarget ==
  ASSUME NEW c \in ReconcilerRow, NEW x \in Discovery!Records \cup {0}
  PROVE  LET d == [c EXCEPT !.target = x] IN
         /\ d \in ReconcilerRow /\ d.pc = c.pc /\ d.snapshot = c.snapshot /\ d.target = x
         /\ d.active = c.active
BY DEF ReconcilerRow

LEMMA WithActive ==
  ASSUME NEW c \in ReconcilerRow
  PROVE  LET d == [c EXCEPT !.active = TRUE] IN
         /\ d \in ReconcilerRow /\ d.pc = c.pc /\ d.snapshot = c.snapshot /\ d.target = c.target
         /\ d.active
BY DEF ReconcilerRow

LEMMA ReconcilerOK ==
  ASSUME DiscoveryInv, NEW r \in Reconcilers
  PROVE  /\ reconciler[r] \in ReconcilerRow /\ reconciler[r].snapshot \in Discovery!Row
         /\ reconciler[r].target \in Discovery!Records \cup {0}
            /\ client \in Discovery!Records \cup {0}
         /\ reconciler[r].active \in BOOLEAN /\ mqtt \in Discovery!Row
         /\ Owns(reconciler[r], client)
         /\ client # 0 => Active(record[client])
         /\ record \in [Discovery!Records -> RecordRow]
            /\ reconciler \in [Reconcilers -> ReconcilerRow]
<1>1. /\ reconciler[r] \in ReconcilerRow /\ client \in Discovery!Records \cup {0}
          /\ mqtt \in Discovery!Row
      /\ record \in [Discovery!Records -> RecordRow]
         /\ reconciler \in [Reconcilers -> ReconcilerRow]
  BY DEF DiscoveryInv, DiscoveryTyped
<1>2. /\ reconciler[r].snapshot \in Discovery!Row
          /\ reconciler[r].target \in Discovery!Records \cup {0}
      /\ reconciler[r].active \in BOOLEAN
  BY <1>1 DEF ReconcilerRow
<1>3. Owns(reconciler[r], client)
  BY DEF DiscoveryInv, ReconcilersOwn
<1>4. client # 0 => Active(record[client])
  BY DEF DiscoveryInv, RecordsOwned
<1> QED
  BY <1>1, <1>2, <1>3, <1>4

\* A reconciliation that no other one met is the only one, and agrees with the row.
LEMMA NotMet ==
  ASSUME DiscoveryInv, NEW r \in Reconcilers, reconciler[r].pc # "idle", overlap # "now"
  PROVE  Alone(r) /\ Agrees(reconciler[r], mqtt, client, record[client].fingerprint)
<1>1. PICK a \in Reconcilers : Alone(a)
  BY DEF DiscoveryInv, ReconcilersAgree
<1>2. a = r
  BY <1>1 DEF Alone
<1> QED
  BY <1>1, <1>2 DEF DiscoveryInv, ReconcilersAgree

\* One reconciler becomes c.
LEMMA AgreesAgain ==
  ASSUME DiscoveryInv, NEW r \in Reconcilers, NEW c \in ReconcilerRow,
         reconciler' = [reconciler EXCEPT ![r] = c],
         overlap' # "now" =>
           Alone(r) /\ Agrees(c, mqtt', client', record'[client'].fingerprint)
  PROVE  ReconcilersAgree'
<1> SUFFICES ASSUME overlap' # "now"
             PROVE  /\ \E q \in Reconcilers : Alone(q)'
                    /\ \A q \in Reconcilers : Alone(q)' =>
                         Agrees(reconciler'[q], mqtt', client', record'[client'].fingerprint)
  BY DEF ReconcilersAgree, Alone
<1>1. /\ reconciler'[r] = c
      /\ \A q \in Reconcilers : q # r => reconciler'[q] = reconciler[q]
  BY DEF DiscoveryInv, DiscoveryTyped
<1>2. \A q \in Reconcilers : q # r => reconciler'[q].pc = "idle"
  BY <1>1 DEF Alone
<1>3. Alone(r)'
  BY <1>2 DEF Alone
<1>4. ASSUME NEW q \in Reconcilers, Alone(q)'
      PROVE  Agrees(reconciler'[q], mqtt', client', record'[client'].fingerprint)
  <2>1. CASE q = r
    BY <1>1, <2>1
  <2>2. CASE q # r
    <3>1. c.pc = "idle" /\ reconciler'[q].pc = "idle"
      BY <1>1, <1>2, <1>4, <2>2 DEF Alone
    <3> QED
      BY <3>1 DEF Agrees, Stopping
  <2> QED
    BY <2>1, <2>2
<1> QED
  BY <1>3, <1>4

\* One reconciler becomes c, while the records continue.
LEMMA ReconcilerTurns ==
  ASSUME DiscoveryInv, NEW r \in Reconcilers,
         NEW c \in ReconcilerRow, reconciler' = [reconciler EXCEPT ![r] = c],
         mqtt' \in Discovery!Row, mqtt' = mqtt \/ c.pc = "saved", UNCHANGED visible,
             client' \in {0, client},
         record' \in [Discovery!Records -> RecordRow],
             \A j \in Discovery!Records : Continues(record'[j], record[j]),
         \A j \in Discovery!Records : record'[j] = record[j] \/ record'[j].queued > 0,
         Owns(c, client'),
         client # 0 /\ client' = 0 => c.pc \in Stopping /\ c.target = client,
         reconciler[r].pc \in Stopping => c.pc \in Stopping /\ c.target = reconciler[r].target,
         Serves(reconciler[r], client, mqtt) /\ client' # 0 =>
           Serves(c, client, mqtt') \/ record'[client].queued > 0,
         overlap' = "never" => overlap = "never",
         overlap' # "now" =>
           Alone(r) /\ Agrees(c, mqtt', client', record'[client'].fingerprint)
  PROVE  DiscoveryInv'
<1>1. /\ reconciler'[r] = c /\ reconciler' \in [Reconcilers -> ReconcilerRow]
      /\ \A q \in Reconcilers : q # r => reconciler'[q] = reconciler[q]
  BY DEF DiscoveryInv, DiscoveryTyped
<1>2. DiscoveryTyped'
  BY <1>1 DEF DiscoveryInv, DiscoveryTyped
<1>3. ASSUME NEW j \in Discovery!Records
      PROVE  /\ record'[j].client = "none" <=> record[j].client = "none"
             /\ Active(record'[j]) <=> Active(record[j])
             /\ Ends(record'[j]) <=> Ends(record[j])
             /\ Ends(record[j]) => record'[j].stops = record[j].stops
             /\ record[j].client = "none" => record'[j] = record[j]
             /\ j # 0
  BY RecordOK DEF Continues, Active
<1>4. client \in Discovery!Records \cup {0} /\ client' \in Discovery!Records \cup {0}
  BY DEF DiscoveryInv, DiscoveryTyped
<1>5. RecordsOwned'
  <2>1. client' # 0 => Active(record'[client']) /\ ~Ends(record'[client'])
    BY <1>3, <1>4 DEF DiscoveryInv, RecordsOwned
  <2>2. ASSUME NEW j \in Discovery!Records, record'[j].client = "none"
        PROVE  record'[j].phase = "idle" /\ record'[j].queued = 0
    BY <1>3, <2>2, RecordOK
  <2>3. ASSUME NEW j \in Discovery!Records, Ends(record'[j])
        PROVE  /\ record'[j].stops \in Discovery!Records /\ record'[j].stops # client'
               /\ record'[record'[j].stops].client # "none"
    <3>1. Ends(record[j]) /\ record'[j].stops = record[j].stops
      BY <1>3, <2>3
    <3>2. /\ record[j].stops \in Discovery!Records /\ record[j].stops # client
          /\ record[record[j].stops].client # "none"
      BY <3>1 DEF DiscoveryInv, RecordsOwned
    <3> QED
      BY <1>3, <3>1, <3>2
  <2> QED
    BY <2>1, <2>2, <2>3 DEF RecordsOwned, Active, Ends
<1>6. ReconcilersOwn'
  <2> SUFFICES ASSUME NEW q \in Reconcilers
               PROVE  LET d == reconciler'[q] IN
                      /\ d.pc \in Stopping \cup {"connecting"} =>
                           d.target \in Discovery!Records /\ record'[d.target].client # "none"
                      /\ d.pc \in Stopping => d.target # client'
                      /\ d.pc \in {"turn", "clearing", "ending", "create"} => ~d.active
    BY DEF ReconcilersOwn, Owns
  <2>1. CASE q = r
    BY <1>1, <1>3, <2>1 DEF Owns
  <2>2. CASE q # r
    <3>1. Owns(reconciler[q], client) /\ reconciler'[q] = reconciler[q]
      BY <1>1, <2>2, ReconcilerOK
    <3> QED
      BY <1>3, <3>1 DEF Owns
  <2> QED
    BY <2>1, <2>2
<1>7. CurrentServed'
  <2> SUFFICES ASSUME client' # 0, mqtt'.on => record'[client'].client = "up"
               PROVE  \/ record'[client].queued > 0
                      \/ \E q \in Reconcilers : Serves(reconciler'[q], client, mqtt')
                      \/ mqtt'.on /\ Synced(record'[client], mqtt'.scope \cap visible)
    BY DEF CurrentServed, Served
  <2>1. client \in Discovery!Records /\ client' = client /\ client # 0
    BY <1>4
  <2>2. CASE c.pc = "saved"
    BY <1>1, <2>2 DEF Serves
  <2>3. CASE record'[client] = record[client] /\ mqtt' = mqtt
    <3>1. Served(record[client])
      BY <2>1, <2>3 DEF DiscoveryInv, CurrentServed
    <3>2. ASSUME NEW q \in Reconcilers, Serves(reconciler[q], client, mqtt)
          PROVE  \/ record'[client].queued > 0
                 \/ \E p \in Reconcilers : Serves(reconciler'[p], client, mqtt')
      BY <1>1, <2>1, <2>3, <3>2
    <3> QED
      BY <2>3, <3>1, <3>2 DEF Served
  <2> QED
    BY <2>1, <2>2, <2>3
<1>8. ReconcilersAgree'
  BY AgreesAgain
<1>9. RecordsKnown'
  <2> SUFFICES ASSUME overlap' = "never", NEW j \in Discovery!Records, Active(record'[j])
               PROVE  \/ j = client'
                      \/ \E q \in Reconcilers : reconciler'[q].pc \in Stopping
                         /\ reconciler'[q].target = j
                      \/ \E l \in Discovery!Records : Ends(record'[l]) /\ record'[l].stops = j
    BY DEF RecordsKnown
  <2>1. Active(record[j]) /\ overlap = "never"
    BY <1>3
  <2>2. CASE j = client
    BY <1>1, <1>3, <2>2
  <2>3. ASSUME NEW q \in Reconcilers, reconciler[q].pc \in Stopping, reconciler[q].target = j
        PROVE  reconciler'[q].pc \in Stopping /\ reconciler'[q].target = j
    BY <1>1, <2>3
  <2>4. ASSUME NEW l \in Discovery!Records, Ends(record[l]), record[l].stops = j
        PROVE  Ends(record'[l]) /\ record'[l].stops = j
    BY <1>3, <2>4
  <2> QED
    BY <2>1, <2>2, <2>3, <2>4 DEF DiscoveryInv, RecordsKnown
<1> QED
  BY <1>2, <1>5, <1>6, <1>7, <1>8, <1>9 DEF DiscoveryInv

\* The same of a step that leaves the records.
LEMMA ReconcilerGoes ==
  ASSUME DiscoveryInv, NEW r \in Reconcilers,
         NEW c \in ReconcilerRow, reconciler' = [reconciler EXCEPT ![r] = c],
         mqtt' \in Discovery!Row, mqtt' = mqtt \/ c.pc = "saved", UNCHANGED <<visible, record>>,
         client' \in {0, client}, Owns(c, client'),
         client # 0 /\ client' = 0 => c.pc \in Stopping /\ c.target = client,
         reconciler[r].pc \in Stopping => c.pc \in Stopping /\ c.target = reconciler[r].target,
         Serves(reconciler[r], client, mqtt) /\ client' # 0 => Serves(c, client, mqtt'),
         overlap' = "never" => overlap = "never",
         overlap' # "now" =>
           Alone(r) /\ Agrees(c, mqtt', client', record[client'].fingerprint)
  PROVE  DiscoveryInv'
<1>1. record' \in [Discovery!Records -> RecordRow]
        /\ \A j \in Discovery!Records : Continues(record'[j], record[j])
  BY SameContinues DEF DiscoveryInv, DiscoveryTyped
<1>2. record'[client'].fingerprint = record[client'].fingerprint
  OBVIOUS
<1> QED
  BY <1>1, <1>2, ReconcilerTurns

LEMMA StepEditsRow ==
  ASSUME DiscoveryInv, NEW r \in Reconcilers, Discovery!Edit(r)
  PROVE  DiscoveryInv'
<1> DEFINE c == [reconciler[r] EXCEPT !.pc = "saved"]
<1>1. reconciler[r] \in ReconcilerRow /\ reconciler[r].pc = "idle" /\ mqtt \in Discovery!Row
      /\ client \in Discovery!Records \cup {0} /\ Owns(reconciler[r], client)
  BY ReconcilerOK DEF Discovery!Edit
<1>2. reconciler' = [reconciler EXCEPT ![r] = c] /\ UNCHANGED <<visible, client, record>>
        /\ mqtt' \in Discovery!Row
  BY <1>1 DEF Discovery!Edit, Discovery!Go
<1>3. c \in ReconcilerRow /\ c.pc = "saved"
  BY <1>1, WithPc
<1> HIDE DEF c
<1>4. Agrees(c, mqtt', client, record[client].fingerprint) /\ Serves(c, client, mqtt')
      /\ Owns(c, client)
  BY <1>3 DEF Agrees, Stopping, Serves, Owns
<1>5. /\ overlap' = "never" => overlap = "never"
      /\ overlap' # "now" => Alone(r)
  BY DEF Discovery!Edit, Alone
<1>6. c.pc \notin Stopping /\ reconciler[r].pc \notin Stopping
  BY <1>1, <1>3 DEF Stopping
<1> QED
  BY <1>2, <1>3, <1>4, <1>5, <1>6, ReconcilerGoes

LEMMA StepSnapshot ==
  ASSUME DiscoveryInv, NEW r \in Reconcilers, Discovery!Snapshot(r)
  PROVE  DiscoveryInv'
<1> DEFINE c == [Discovery!Done EXCEPT !.pc = "turn", !.snapshot = mqtt]
<1>1. reconciler[r].pc = "saved" /\ mqtt \in Discovery!Row
  BY DEF Discovery!Snapshot, DiscoveryInv, DiscoveryTyped
<1>2. /\ reconciler' = [reconciler EXCEPT ![r] = c]
      /\ UNCHANGED <<mqtt, visible, client, record, overlap>>
  BY DEF Discovery!Snapshot
<1>3. c \in ReconcilerRow /\ c.pc = "turn" /\ c.snapshot = mqtt /\ ~c.active
  BY <1>1 DEF Discovery!Done, ReconcilerRow
<1> HIDE DEF c
<1>4. Agrees(c, mqtt, client, record[client].fingerprint) /\ Serves(c, client, mqtt)
      /\ Owns(c, client)
  BY <1>3 DEF Agrees, Stopping, Serves, Owns
<1>5. overlap # "now" => Alone(r)
  BY <1>1, NotMet
<1>6. c.pc \notin Stopping /\ reconciler[r].pc \notin Stopping
  BY <1>1, <1>3 DEF Stopping
<1> QED
  BY <1>1, <1>2, <1>3, <1>4, <1>5, <1>6, ReconcilerGoes

\* stopRecord, of a reconciler.
LEMMA StepStops ==
  ASSUME DiscoveryInv, NEW r \in Reconcilers, client # 0,
         NEW then \in {"clearing", "sweepClearing"}, Discovery!StopCurrent(r, then),
         then = "clearing" => reconciler[r].pc = "turn",
         then = "sweepClearing" => reconciler[r].pc = "sweep" /\ ~reconciler[r].active,
         UNCHANGED <<mqtt, visible, record, overlap>>
  PROVE  DiscoveryInv'
<1> DEFINE a == [reconciler[r] EXCEPT !.pc = then]
<1> DEFINE c == [a EXCEPT !.target = client]
<1>1. /\ reconciler[r] \in ReconcilerRow /\ client \in Discovery!Records /\ mqtt \in Discovery!Row
      /\ record[client].client # "none" /\ ~reconciler[r].active
      /\ reconciler[r].pc \in {"turn", "sweep"}
  BY ReconcilerOK DEF Owns, Active
<1>2. reconciler' = [reconciler EXCEPT ![r] = c] /\ client' = 0
  BY <1>1 DEF Discovery!StopCurrent, DiscoveryInv, DiscoveryTyped, ReconcilerRow
<1>3. /\ a \in ReconcilerRow /\ a.pc = then /\ a.snapshot = reconciler[r].snapshot /\ ~a.active
  <2>1. then \in {"idle", "saved", "turn", "create", "connecting", "sweep"} \cup Stopping
    BY DEF Stopping
  <2> QED
    BY <1>1, <2>1, WithPc
<1> HIDE DEF a
<1>4. /\ c \in ReconcilerRow /\ c.pc = then /\ c.snapshot = reconciler[r].snapshot /\ ~c.active
      /\ c.target = client
  BY <1>1, <1>3, WithTarget
<1> HIDE DEF c
<1>5. ASSUME overlap # "now"
      PROVE  Alone(r) /\ Agrees(c, mqtt, 0, record[0].fingerprint)
  <2>1. Alone(r) /\ Agrees(reconciler[r], mqtt, client, record[client].fingerprint)
    BY <1>1, <1>5, NotMet
  <2>2. reconciler[r].snapshot = mqtt /\ (then = "sweepClearing" => ~mqtt.on)
    BY <1>1, <2>1 DEF Agrees
  <2> QED
    BY <1>4, <2>1, <2>2 DEF Agrees, Stopping
<1>6. c.pc \in Stopping /\ reconciler[r].pc \notin Stopping /\ Owns(c, 0)
  BY <1>1, <1>4 DEF Stopping, Owns
<1> QED
  BY <1>1, <1>2, <1>4, <1>5, <1>6, ReconcilerGoes

\* A reconciler goes on, and nothing else changes.
LEMMA StepGo ==
  ASSUME DiscoveryInv, NEW r \in Reconcilers,
         NEW to \in {"create", "sweep", "ending", "sweepEnding"}, Discovery!Go(r, to),
         UNCHANGED <<mqtt, visible, client, record, overlap>>,
         to = "create" => reconciler[r].pc = "turn" /\ reconciler[r].snapshot.on /\ client = 0,
         to = "sweep" => reconciler[r].pc = "turn" /\ ~reconciler[r].snapshot.on,
         to = "ending" => reconciler[r].pc = "clearing",
         to = "sweepEnding" => reconciler[r].pc = "sweepClearing"
  PROVE  DiscoveryInv'
<1> DEFINE c == [reconciler[r] EXCEPT !.pc = to]
<1>1. /\ reconciler[r] \in ReconcilerRow /\ Owns(reconciler[r], client)
      /\ mqtt \in Discovery!Row /\ client \in Discovery!Records \cup {0}
  BY ReconcilerOK
<1>2. reconciler' = [reconciler EXCEPT ![r] = c]
  BY DEF Discovery!Go
<1>3. /\ c \in ReconcilerRow /\ c.pc = to /\ c.snapshot = reconciler[r].snapshot
      /\ c.target = reconciler[r].target /\ c.active = reconciler[r].active
  <2>1. to \in {"idle", "saved", "turn", "create", "connecting", "sweep"} \cup Stopping
    BY DEF Stopping
  <2> QED
    BY <1>1, <2>1, WithPc
<1> HIDE DEF c
<1>4. reconciler[r].pc \in {"turn", "clearing", "sweepClearing"}
  OBVIOUS
<1>5. ASSUME overlap # "now"
      PROVE  Alone(r) /\ Agrees(c, mqtt, client, record[client].fingerprint)
  <2>1. Alone(r) /\ Agrees(reconciler[r], mqtt, client, record[client].fingerprint)
    BY <1>4, <1>5, NotMet
  <2>2. to \in {"create", "sweep", "ending"} => ~c.active
    BY <1>1, <1>3 DEF Owns
  <2> QED
    BY <1>3, <1>4, <2>1, <2>2 DEF Agrees, Stopping
<1>6. Owns(c, client)
  BY <1>1, <1>3, <1>4 DEF Owns, Stopping
<1>7. Serves(reconciler[r], client, mqtt) /\ client # 0 => Serves(c, client, mqtt)
  BY <1>1, <1>3, <1>4 DEF Serves, Owns
<1>8. reconciler[r].pc \in Stopping => c.pc \in Stopping /\ c.target = reconciler[r].target
  BY <1>3, <1>4 DEF Stopping
<1> QED
  BY <1>1, <1>2, <1>3, <1>5, <1>6, <1>7, <1>8, ReconcilerGoes

\* A reconciler queues a sync of the record i, and comes to the end of its rows.
LEMMA StepWakes ==
  ASSUME DiscoveryInv, NEW r \in Reconcilers, NEW i \in Discovery!Records,
         record[i].client # "none",
         \/ reconciler[r].pc = "turn" /\ i = client
         \/ reconciler[r].pc = "connecting" /\ reconciler[r].target = i,
         Discovery!Queue(i), NEW c \in ReconcilerRow, reconciler' = [reconciler EXCEPT ![r] = c],
         c.pc = "sweep", UNCHANGED <<mqtt, visible, client, overlap>>,
         overlap # "now" =>
           /\ c.active /\ c.snapshot = mqtt /\ mqtt.on /\ i = client
           /\ record[client].fingerprint = mqtt
  PROVE  DiscoveryInv'
<1> DEFINE new == [record[i] EXCEPT !.queued = record[i].queued + 1]
<1>1. /\ record[i] \in RecordRow /\ record[i].queued + 1 \in Nat /\ record[i].queued + 1 > 0
      /\ record \in [Discovery!Records -> RecordRow] /\ mqtt \in Discovery!Row /\ i # 0
  BY RecordOK, ReconcilerOK
<1>2. record' = [record EXCEPT ![i] = new]
  BY <1>1 DEF RecordRow, Discovery!Queue
<1>3. /\ new \in RecordRow /\ new.client = record[i].client
      /\ new.fingerprint = record[i].fingerprint /\ new.stops = record[i].stops
      /\ new.phase = record[i].phase /\ new.queued = record[i].queued + 1
  BY <1>1, WithQueued
<1> HIDE DEF new
<1>4. Continues(new, record[i])
  BY <1>3 DEF Continues, Active, Ends
<1>5. /\ record'[i] = new /\ record' \in [Discovery!Records -> RecordRow]
      /\ \A j \in Discovery!Records : j # i => record'[j] = record[j]
  BY <1>1, <1>2, <1>3
<1>6. /\ \A j \in Discovery!Records : Continues(record'[j], record[j])
      /\ \A j \in Discovery!Records : record'[j] = record[j] \/ record'[j].queued > 0
  BY <1>1, <1>3, <1>4, <1>5, SameContinues
<1>7. ASSUME overlap # "now"
      PROVE  Alone(r) /\ Agrees(c, mqtt, client, record'[client].fingerprint)
  <2>1. Alone(r)
    BY <1>7, NotMet
  <2>2. record'[client].fingerprint = mqtt
    BY <1>3, <1>5, <1>7
  <2> QED
    BY <1>1, <1>7, <2>1, <2>2 DEF Agrees, Stopping
<1>8. c.pc \notin Stopping /\ reconciler[r].pc \notin Stopping /\ Owns(c, client)
  BY DEF Stopping, Owns
<1>9. Serves(reconciler[r], client, mqtt) => record'[client].queued > 0
  BY <1>1, <1>3, <1>5 DEF Serves
<1> QED
  BY <1>1, <1>5, <1>6, <1>7, <1>8, <1>9, ReconcilerTurns

LEMMA StepTurn ==
  ASSUME DiscoveryInv, NEW r \in Reconcilers, Discovery!Turn(r)
  PROVE  DiscoveryInv'
<1> DEFINE snap == reconciler[r].snapshot
<1>1. /\ reconciler[r] \in ReconcilerRow /\ reconciler[r].pc = "turn"
      /\ reconciler \in [Reconcilers -> ReconcilerRow]
      /\ client \in Discovery!Records \cup {0} /\ UNCHANGED <<mqtt, visible, overlap>>
  BY ReconcilerOK DEF Discovery!Turn
<1>2. CASE ~snap.on /\ client # 0 /\ Discovery!StopCurrent(r, "clearing") /\ UNCHANGED record
  BY <1>1, <1>2, StepStops
<1>3. CASE ~snap.on /\ Discovery!Go(r, "sweep") /\ UNCHANGED <<client, record>>
  BY <1>1, <1>3, StepGo
<1>4. CASE /\ snap.on /\ client # 0 /\ record[client].fingerprint = snap /\ Discovery!Queue(client)
           /\ reconciler' = [reconciler EXCEPT ![r].pc = "sweep", ![r].active = TRUE]
           /\ UNCHANGED client
  <2> DEFINE a == [reconciler[r] EXCEPT !.pc = "sweep"]
  <2> DEFINE c == [a EXCEPT !.active = TRUE]
  <2>1. reconciler' = [reconciler EXCEPT ![r] = c]
    BY <1>1, <1>4 DEF ReconcilerRow
  <2>2. a \in ReconcilerRow /\ a.pc = "sweep" /\ a.snapshot = snap
    BY <1>1, WithPc
  <2> HIDE DEF a
  <2>3. c \in ReconcilerRow /\ c.pc = "sweep" /\ c.snapshot = snap /\ c.active
    BY <2>2, WithActive
  <2> HIDE DEF c
  <2>4. client \in Discovery!Records /\ record[client].client # "none"
    BY <1>1, <1>4, ReconcilerOK DEF Active
  <2>5. ASSUME overlap # "now"
        PROVE  /\ c.active /\ c.snapshot = mqtt /\ mqtt.on
               /\ record[client].fingerprint = mqtt
    <3>1. snap = mqtt
      BY <1>1, <2>5, NotMet DEF Agrees
    <3> QED
      BY <1>4, <2>3, <3>1
  <2>6. Discovery!Queue(client) /\ UNCHANGED <<mqtt, visible, client, overlap>>
    BY <1>1, <1>4
  <2> HIDE DEF snap
  <2> QED
    BY <1>1, <2>1, <2>3, <2>4, <2>5, <2>6, StepWakes
<1>5. CASE snap.on /\ client # 0 /\ Discovery!StopCurrent(r, "clearing") /\ UNCHANGED record
  BY <1>1, <1>5, StepStops
<1>6. CASE snap.on /\ client = 0 /\ Discovery!Go(r, "create") /\ UNCHANGED <<client, record>>
  BY <1>1, <1>6, StepGo
<1> QED
  BY <1>2, <1>3, <1>4, <1>5, <1>6 DEF Discovery!Turn

LEMMA StepClear ==
  ASSUME DiscoveryInv, NEW r \in Reconcilers, Discovery!Clear(r)
  PROVE  DiscoveryInv'
<1>1. UNCHANGED <<mqtt, visible, client, record, overlap>>
  BY DEF Discovery!Clear
<1>2. CASE reconciler[r].pc = "clearing" /\ Discovery!Go(r, "ending")
  BY <1>1, <1>2, StepGo
<1>3. CASE reconciler[r].pc = "sweepClearing" /\ Discovery!Go(r, "sweepEnding")
  BY <1>1, <1>3, StepGo
<1> QED
  BY <1>2, <1>3 DEF Discovery!Clear

LEMMA StepConnecting ==
  ASSUME DiscoveryInv, NEW r \in Reconcilers, Discovery!Connecting(r)
  PROVE  DiscoveryInv'
<1> DEFINE c == [reconciler[r] EXCEPT !.pc = "sweep"]
<1>1. /\ reconciler[r] \in ReconcilerRow /\ reconciler[r].pc = "connecting"
      /\ reconciler[r].target \in Discovery!Records /\ record[reconciler[r].target].client # "none"
  BY ReconcilerOK DEF Discovery!Connecting, Owns
<1>2. /\ Discovery!Queue(reconciler[r].target) /\ UNCHANGED <<mqtt, visible, client, overlap>>
      /\ reconciler' = [reconciler EXCEPT ![r] = c]
  BY DEF Discovery!Connecting, Discovery!Go
<1>3. /\ c \in ReconcilerRow /\ c.pc = "sweep" /\ c.snapshot = reconciler[r].snapshot
      /\ c.active = reconciler[r].active
  BY <1>1, WithPc
<1> HIDE DEF c
<1>4. ASSUME overlap # "now"
      PROVE  /\ reconciler[r].active /\ reconciler[r].snapshot = mqtt /\ mqtt.on
             /\ reconciler[r].target = client /\ record[client].fingerprint = mqtt
  BY <1>1, <1>4, NotMet DEF Agrees
<1> QED
  BY <1>1, <1>2, <1>3, <1>4, StepWakes

\* The reconciliation is over.
LEMMA StepSwept ==
  ASSUME DiscoveryInv, NEW r \in Reconcilers,
         reconciler[r].pc = "sweep", reconciler[r].active \/ client = 0,
         reconciler' = [reconciler EXCEPT ![r] = Discovery!Done],
         UNCHANGED <<mqtt, visible, client, record, overlap>>
  PROVE  DiscoveryInv'
<1>1. Discovery!Done \in ReconcilerRow /\ Discovery!Done.pc = "idle" /\ mqtt \in Discovery!Row
  BY DEF Discovery!Done, ReconcilerRow, Discovery!Row, DiscoveryInv, DiscoveryTyped
<1>2. ASSUME overlap # "now"
      PROVE  Alone(r) /\ Agrees(Discovery!Done, mqtt, client, record[client].fingerprint)
  <2>1. Alone(r) /\ Agrees(reconciler[r], mqtt, client, record[client].fingerprint)
    BY <1>2, NotMet
  <2> QED
    BY <1>1, <2>1 DEF Agrees, Stopping
<1>3. Discovery!Done.pc \notin Stopping /\ reconciler[r].pc \notin Stopping
        /\ Owns(Discovery!Done, client)
  BY <1>1 DEF Stopping, Owns
<1>4. ~(Serves(reconciler[r], client, mqtt) /\ client # 0)
  BY DEF Serves
<1> QED
  BY <1>1, <1>2, <1>3, <1>4, ReconcilerGoes

LEMMA StepSweep ==
  ASSUME DiscoveryInv, NEW r \in Reconcilers, Discovery!Sweep(r)
  PROVE  DiscoveryInv'
<1>1. /\ reconciler[r].pc = "sweep" /\ UNCHANGED <<mqtt, visible, record, overlap>>
      /\ reconciler[r].active \in BOOLEAN
  BY ReconcilerOK DEF Discovery!Sweep
<1>2. CASE ~reconciler[r].active /\ client # 0
  BY <1>1, <1>2, StepStops DEF Discovery!Sweep
<1>3. CASE reconciler[r].active \/ client = 0
  BY <1>1, <1>3, StepSwept DEF Discovery!Sweep
<1> QED
  BY <1>1, <1>2, <1>3

\* The client of the record that was stopped is ended.
LEMMA StepEndClient ==
  ASSUME DiscoveryInv, NEW r \in Reconcilers, Discovery!EndClient(r)
  PROVE  DiscoveryInv'
<1> DEFINE k == reconciler[r].target
<1> DEFINE to == IF reconciler[r].snapshot.on THEN "create" ELSE "sweep"
<1> DEFINE next == [reconciler[r] EXCEPT !.pc = to]
<1> DEFINE c == IF reconciler[r].pc = "sweepEnding" THEN Discovery!Done ELSE next
<1> DEFINE new == [record[k] EXCEPT !.client = "ended"]
<1>1. /\ reconciler[r] \in ReconcilerRow
      /\ reconciler[r].pc \in {"ending", "sweepEnding"} /\ reconciler[r].pc \in Stopping
      /\ k \in Discovery!Records /\ record[k].client # "none" /\ k # client
      /\ reconciler[r].pc = "ending" => ~reconciler[r].active
      /\ UNCHANGED <<mqtt, visible, client, overlap>>
      /\ mqtt \in Discovery!Row /\ client \in Discovery!Records \cup {0}
  BY ReconcilerOK DEF Discovery!EndClient, Stopping, Owns
<1>2. reconciler' = [reconciler EXCEPT ![r] = c]
  BY <1>1 DEF Discovery!EndClient
<1>3. /\ next \in ReconcilerRow /\ next.pc = to /\ next.snapshot = reconciler[r].snapshot
      /\ next.active = reconciler[r].active
  <2>1. to \in {"idle", "saved", "turn", "create", "connecting", "sweep"} \cup Stopping
    OBVIOUS
  <2> HIDE DEF to
  <2> QED
    BY <1>1, <2>1, WithPc
<1> HIDE DEF next
<1>4. Discovery!Done \in ReconcilerRow /\ Discovery!Done.pc = "idle"
  BY DEF Discovery!Done, ReconcilerRow, Discovery!Row
<1>5. c \in ReconcilerRow /\ c.pc \notin Stopping /\ Owns(c, client)
  BY <1>1, <1>3, <1>4 DEF Stopping, Owns
<1>6. ASSUME overlap # "now"
      PROVE  Alone(r) /\ Agrees(c, mqtt, client, record'[client].fingerprint)
  <2>1. Alone(r) /\ Agrees(reconciler[r], mqtt, client, record[client].fingerprint)
    BY <1>1, <1>6, NotMet
  <2>2. /\ client = 0 /\ reconciler[r].snapshot = mqtt
        /\ reconciler[r].pc = "sweepEnding" => ~mqtt.on
    BY <1>1, <2>1 DEF Agrees, Stopping
  <2> QED
    BY <1>1, <1>3, <1>4, <2>1, <2>2 DEF Agrees, Stopping
<1> HIDE DEF c
<1>7. record' = [record EXCEPT ![k] = new]
  BY <1>1 DEF Discovery!EndClient
<1>8. /\ record[k] \in RecordRow /\ new \in RecordRow /\ new.client = "ended"
      /\ new.phase = record[k].phase /\ new.stops = record[k].stops
  BY <1>1, RecordOK, WithClient
<1> HIDE DEF new
<1>9. /\ record' \in [Discovery!Records -> RecordRow]
          /\ reconciler' \in [Reconcilers -> ReconcilerRow]
      /\ reconciler'[r] = c
      /\ \A q \in Reconcilers : q # r => reconciler'[q] = reconciler[q]
  BY <1>2, <1>5, <1>7, <1>8 DEF DiscoveryInv, DiscoveryTyped
<1>10. ASSUME NEW j \in Discovery!Records
       PROVE  /\ record'[j].client = IF j = k THEN "ended" ELSE record[j].client
              /\ record'[j].phase = record[j].phase /\ record'[j].stops = record[j].stops
              /\ j # k => record'[j] = record[j]
  BY <1>7, <1>8 DEF DiscoveryInv, DiscoveryTyped
<1> HIDE DEF k
<1>11. DiscoveryTyped'
  BY <1>1, <1>9 DEF DiscoveryInv, DiscoveryTyped
<1>12. RecordsOwned'
  <2>1. client # 0 => Active(record'[client]) /\ ~Ends(record'[client])
    BY <1>1, <1>10 DEF DiscoveryInv, RecordsOwned
  <2>2. ASSUME NEW j \in Discovery!Records, record'[j].client = "none"
        PROVE  record'[j].phase = "idle" /\ record'[j].queued = 0
    <3>1. j # k
      BY <1>10, <2>2
    <3> QED
      BY <1>10, <2>2, <3>1, RecordOK
  <2>3. ASSUME NEW j \in Discovery!Records, Ends(record'[j])
        PROVE  /\ record'[j].stops \in Discovery!Records /\ record'[j].stops # client
               /\ record'[record'[j].stops].client # "none"
    <3>1. Ends(record[j]) /\ record'[j].stops = record[j].stops
      BY <1>10, <2>3 DEF Ends
    <3>2. /\ record[j].stops \in Discovery!Records /\ record[j].stops # client
          /\ record[record[j].stops].client # "none"
      BY <3>1 DEF DiscoveryInv, RecordsOwned
    <3> QED
      BY <1>10, <3>1, <3>2
  <2> QED
    BY <1>1, <2>1, <2>2, <2>3 DEF RecordsOwned
<1>13. ReconcilersOwn'
  <2> SUFFICES ASSUME NEW q \in Reconcilers
               PROVE  LET d == reconciler'[q] IN
                      /\ d.pc \in Stopping \cup {"connecting"} =>
                           d.target \in Discovery!Records /\ record'[d.target].client # "none"
                      /\ d.pc \in Stopping => d.target # client
                      /\ d.pc \in {"turn", "clearing", "ending", "create"} => ~d.active
    BY <1>1 DEF ReconcilersOwn, Owns
  <2>1. CASE q = r
    <3>1. reconciler'[q] = c /\ c.pc # "connecting"
      BY <1>3, <1>4, <1>9, <2>1 DEF c
    <3> QED
      BY <1>5, <3>1 DEF Owns
  <2>2. CASE q # r
    <3>1. Owns(reconciler[q], client) /\ reconciler'[q] = reconciler[q]
      BY <1>9, <2>2, ReconcilerOK
    <3> QED
      BY <1>10, <3>1 DEF Owns
  <2> QED
    BY <2>1, <2>2
<1>14. CurrentServed'
  <2> SUFFICES ASSUME client # 0, mqtt.on => record'[client].client = "up"
               PROVE  \/ record'[client].queued > 0
                      \/ \E q \in Reconcilers : Serves(reconciler'[q], client, mqtt)
                      \/ mqtt.on /\ Synced(record'[client], mqtt.scope \cap visible)
    BY <1>1 DEF CurrentServed, Served
  <2>1. record'[client] = record[client]
    BY <1>1, <1>10
  <2>2. Served(record[client])
    BY <2>1 DEF DiscoveryInv, CurrentServed
  <2>3. ~Serves(reconciler[r], client, mqtt)
    BY <1>1 DEF Serves
  <2> QED
    BY <1>9, <2>1, <2>2, <2>3 DEF Served
<1>15. ReconcilersAgree'
  BY <1>1, <1>2, <1>5, <1>6, AgreesAgain
<1>16. RecordsKnown'
  <2> SUFFICES ASSUME overlap = "never", NEW j \in Discovery!Records, Active(record'[j])
               PROVE  \/ j = client
                      \/ \E q \in Reconcilers : reconciler'[q].pc \in Stopping
                         /\ reconciler'[q].target = j
                      \/ \E l \in Discovery!Records : Ends(record'[l]) /\ record'[l].stops = j
    BY <1>1 DEF RecordsKnown
  <2>1. record'[j].client = IF j = k THEN "ended" ELSE record[j].client
    BY <1>10
  <2>2. j # k /\ Active(record[j])
    BY <2>1 DEF Active
  <2>3. ASSUME NEW q \in Reconcilers, reconciler[q].pc \in Stopping, reconciler[q].target = j
        PROVE  reconciler'[q].pc \in Stopping /\ reconciler'[q].target = j
    <3>1. q # r
      BY <2>2, <2>3 DEF k
    <3> QED
      BY <1>9, <2>3, <3>1
  <2>4. ASSUME NEW l \in Discovery!Records, Ends(record[l]), record[l].stops = j
        PROVE  Ends(record'[l]) /\ record'[l].stops = j
    BY <1>10, <2>4 DEF Ends
  <2> QED
    BY <2>2, <2>3, <2>4 DEF DiscoveryInv, RecordsKnown
<1> QED
  BY <1>11, <1>12, <1>13, <1>14, <1>15, <1>16 DEF DiscoveryInv

LEMMA StepCreates ==
  ASSUME DiscoveryInv, NEW r \in Reconcilers, Discovery!Create(r)
  PROVE  DiscoveryInv'
<1> DEFINE snap == reconciler[r].snapshot
<1>1. PICK i \in Discovery!Records :
        /\ record[i].client = "none"
        /\ record' = [record EXCEPT ![i].client = "down", ![i].fingerprint = snap]
        /\ client' = i
        /\ reconciler' = [reconciler EXCEPT ![r].pc = "connecting", ![r].target = i,
                                            ![r].active = TRUE]
  BY DEF Discovery!Create
<1> DEFINE a == [reconciler[r] EXCEPT !.pc = "connecting"]
<1> DEFINE b == [a EXCEPT !.target = i]
<1> DEFINE c == [b EXCEPT !.active = TRUE]
<1> DEFINE started == [record[i] EXCEPT !.client = "down"]
<1> DEFINE new == [started EXCEPT !.fingerprint = snap]
<1>2. /\ reconciler[r] \in ReconcilerRow /\ reconciler[r].pc = "create" /\ snap \in Discovery!Row
      /\ mqtt \in Discovery!Row /\ UNCHANGED <<mqtt, visible, overlap>>
      /\ reconciler \in [Reconcilers -> ReconcilerRow]
  BY ReconcilerOK DEF Discovery!Create
<1>3. reconciler' = [reconciler EXCEPT ![r] = c]
  BY <1>1, <1>2 DEF ReconcilerRow
<1>4. a \in ReconcilerRow /\ a.pc = "connecting" /\ a.snapshot = snap
  BY <1>2, WithPc
<1> HIDE DEF a
<1>5. b \in ReconcilerRow /\ b.pc = "connecting" /\ b.snapshot = snap /\ b.target = i
  BY <1>4, WithTarget
<1> HIDE DEF b
<1>6. c \in ReconcilerRow /\ c.pc = "connecting" /\ c.snapshot = snap /\ c.target = i /\ c.active
  BY <1>5, WithActive
<1> HIDE DEF c
<1>7. record[i] \in RecordRow /\ record[i].phase = "idle" /\ record[i].queued = 0 /\ i # 0
  BY <1>1, RecordOK
<1>8. record' = [record EXCEPT ![i] = new]
  BY <1>1, <1>2, <1>7 DEF RecordRow
<1>9. /\ started \in RecordRow /\ started.client = "down" /\ started.phase = "idle"
  BY <1>7, WithClient
<1> HIDE DEF started
<1>10. /\ new \in RecordRow /\ new.client = "down" /\ new.phase = "idle" /\ new.fingerprint = snap
  BY <1>2, <1>9 DEF RecordRow
<1> HIDE DEF new
<1>11. /\ record' \in [Discovery!Records -> RecordRow]
           /\ reconciler' \in [Reconcilers -> ReconcilerRow]
       /\ reconciler'[r] = c
       /\ \A q \in Reconcilers : q # r => reconciler'[q] = reconciler[q]
  BY <1>3, <1>6, <1>8, <1>10 DEF DiscoveryInv, DiscoveryTyped
<1>12. ASSUME NEW j \in Discovery!Records
       PROVE  /\ j = i => record'[j] = new
              /\ j # i => record'[j] = record[j]
              /\ Ends(record'[j]) => Ends(record[j]) /\ j # i
  <2>1. record'[j] = IF j = i THEN new ELSE record[j]
    BY <1>8 DEF DiscoveryInv, DiscoveryTyped
  <2> QED
    BY <1>10, <2>1 DEF Ends
<1>13. DiscoveryTyped'
  BY <1>1, <1>2, <1>11 DEF DiscoveryInv, DiscoveryTyped
<1>14. RecordsOwned'
  <2>1. Active(record'[i]) /\ ~Ends(record'[i])
    BY <1>10, <1>12 DEF Active, Ends
  <2>2. ASSUME NEW j \in Discovery!Records, record'[j].client = "none"
        PROVE  record'[j].phase = "idle" /\ record'[j].queued = 0
    BY <1>10, <1>12, <2>2, RecordOK
  <2>3. ASSUME NEW j \in Discovery!Records, Ends(record'[j])
        PROVE  /\ record'[j].stops \in Discovery!Records /\ record'[j].stops # i
               /\ record'[record'[j].stops].client # "none"
    <3>1. Ends(record[j]) /\ record'[j] = record[j]
      BY <1>12, <2>3
    <3>2. /\ record[j].stops \in Discovery!Records /\ record[record[j].stops].client # "none"
      BY <3>1 DEF DiscoveryInv, RecordsOwned
    <3>3. record[j].stops # i
      BY <1>1, <3>2
    <3> QED
      BY <1>12, <3>1, <3>2, <3>3
  <2> QED
    BY <1>1, <2>1, <2>2, <2>3 DEF RecordsOwned
<1>15. ReconcilersOwn'
  <2> SUFFICES ASSUME NEW q \in Reconcilers
               PROVE  LET d == reconciler'[q] IN
                      /\ d.pc \in Stopping \cup {"connecting"} =>
                           d.target \in Discovery!Records /\ record'[d.target].client # "none"
                      /\ d.pc \in Stopping => d.target # i
                      /\ d.pc \in {"turn", "clearing", "ending", "create"} => ~d.active
    BY <1>1 DEF ReconcilersOwn, Owns
  <2>1. CASE q = r
    <3>1. record'[i].client = "down"
      BY <1>10, <1>12
    <3> QED
      BY <1>6, <1>11, <2>1, <3>1 DEF Stopping
  <2>2. CASE q # r
    <3>1. Owns(reconciler[q], client) /\ reconciler'[q] = reconciler[q]
      BY <1>11, <2>2, ReconcilerOK
    <3>2. \A j \in Discovery!Records : record[j].client # "none" => j # i /\ record'[j] = record[j]
      BY <1>1, <1>12
    <3> QED
      BY <3>1, <3>2 DEF Owns
  <2> QED
    BY <2>1, <2>2
<1>16. CurrentServed'
  <2>1. Serves(reconciler'[r], i, mqtt)
    BY <1>6, <1>11 DEF Serves
  <2> QED
    BY <1>1, <1>2, <2>1 DEF CurrentServed, Served
<1>17. ASSUME overlap # "now"
       PROVE  /\ Alone(r) /\ client = 0
              /\ Agrees(c, mqtt, i, record'[i].fingerprint)
  <2>1. Alone(r) /\ Agrees(reconciler[r], mqtt, client, record[client].fingerprint)
    BY <1>2, <1>17, NotMet
  <2>2. snap = mqtt /\ mqtt.on /\ client = 0
    BY <1>2, <2>1 DEF Agrees
  <2>3. record'[i].fingerprint = mqtt
    BY <1>10, <1>12, <2>2
  <2> QED
    BY <1>6, <1>7, <2>1, <2>2, <2>3 DEF Agrees, Stopping
<1>18. ReconcilersAgree'
  BY <1>1, <1>2, <1>3, <1>6, <1>17, AgreesAgain
<1>19. RecordsKnown'
  <2> SUFFICES ASSUME overlap = "never", NEW j \in Discovery!Records, Active(record'[j]), j # i
               PROVE  \/ \E q \in Reconcilers : reconciler'[q].pc \in Stopping
                          /\ reconciler'[q].target = j
                      \/ \E l \in Discovery!Records : Ends(record'[l]) /\ record'[l].stops = j
    BY <1>1, <1>2 DEF RecordsKnown
  <2>1. Active(record[j]) /\ j # 0 /\ client = 0
    BY <1>12, <1>17, RecordOK
  <2>2. ASSUME NEW q \in Reconcilers, reconciler[q].pc \in Stopping, reconciler[q].target = j
        PROVE  reconciler'[q].pc \in Stopping /\ reconciler'[q].target = j
    <3>1. q # r
      BY <1>2, <2>2 DEF Stopping
    <3> QED
      BY <1>11, <2>2, <3>1
  <2>3. ASSUME NEW l \in Discovery!Records, Ends(record[l]), record[l].stops = j
        PROVE  Ends(record'[l]) /\ record'[l].stops = j
    <3>1. l # i
      BY <1>7, <2>3 DEF Ends
    <3> QED
      BY <1>12, <2>3, <3>1
  <2> QED
    BY <2>1, <2>2, <2>3 DEF DiscoveryInv, RecordsKnown
<1> QED
  BY <1>13, <1>14, <1>15, <1>16, <1>18, <1>19 DEF DiscoveryInv

-------------------------------------------------------------------------------
LEMMA DiscoveryInit == Discovery!Init => DiscoveryInv
<1> SUFFICES ASSUME Discovery!Init PROVE DiscoveryInv
  OBVIOUS
<1>1. Discovery!Deleted \in Discovery!Row
  BY DEF Discovery!Row
<1>2. /\ Discovery!Unused \in RecordRow /\ Discovery!Unused.client = "none"
         /\ Discovery!Unused.phase = "idle" /\ Discovery!Unused.queued = 0
  BY <1>1 DEF Discovery!Unused, RecordRow
<1>3. Discovery!Done \in ReconcilerRow /\ Discovery!Done.pc = "idle"
  BY <1>1 DEF Discovery!Done, ReconcilerRow
<1> DEFINE c == [Discovery!Done EXCEPT !.pc = "saved"]
<1>4. c \in ReconcilerRow /\ c.pc = "saved"
  BY <1>3, WithPc
<1> HIDE DEF c
<1>5. PICK starts \in Reconcilers : reconciler = [r \in Reconcilers |-> IF r = starts THEN c ELSE Discovery!Done]
  BY DEF Discovery!Init, c
<1>6. reconciler[starts] = c /\ \A r \in Reconcilers : r # starts => reconciler[r] = Discovery!Done
  BY <1>5
<1>7. \A i \in Discovery!Records : record[i] = Discovery!Unused
  BY DEF Discovery!Init
<1>8. DiscoveryTyped
  <2>1. record \in [Discovery!Records -> RecordRow] /\ reconciler \in [Reconcilers -> ReconcilerRow]
    BY <1>2, <1>3, <1>4, <1>5 DEF Discovery!Init
  <2> QED
    BY <2>1 DEF Discovery!Init, DiscoveryTyped
<1>9. RecordsOwned
  BY <1>2, <1>7 DEF Discovery!Init, RecordsOwned, Active, Ends
<1>10. ReconcilersOwn
  BY <1>3, <1>4, <1>6 DEF ReconcilersOwn, Owns, Stopping
<1>11. CurrentServed
  BY DEF Discovery!Init, CurrentServed
<1>12. ReconcilersAgree
  <2>1. Alone(starts)
    BY <1>3, <1>6 DEF Alone
  <2>2. ASSUME NEW r \in Reconcilers, Alone(r) PROVE r = starts
    BY <1>4, <1>6, <2>2 DEF Alone
  <2>3. Agrees(c, mqtt, client, record[client].fingerprint)
    BY <1>4 DEF Agrees, Stopping
  <2> QED
    BY <1>6, <2>1, <2>2, <2>3 DEF ReconcilersAgree
<1>13. RecordsKnown
  BY <1>2, <1>7 DEF RecordsKnown, Active
<1> QED
  BY <1>8, <1>9, <1>10, <1>11, <1>12, <1>13 DEF DiscoveryInv

LEMMA StepSyncs ==
  ASSUME DiscoveryInv, NEW i \in Discovery!Records,
         \/ Discovery!SyncBegins(i) \/ Discovery!SyncClears(i) \/ Discovery!SyncRemoves(i)
            \/ Discovery!SyncPublishes(i)
         \/ Discovery!SyncEnds(i) \/ Discovery!SyncRefused(i) \/ Discovery!SyncFails(i)
            \/ Discovery!Connect(i) \/ Discovery!Drop(i)
  PROVE  DiscoveryInv'
<1>1. CASE Discovery!SyncBegins(i) /\ ~mqtt.on
  BY <1>1, StepBeginsOff DEF Discovery!SyncBegins
<1>2. CASE Discovery!SyncBegins(i) /\ mqtt.on
  <2> DEFINE works == record[i].client = "up"
  <2>1. /\ works \in BOOLEAN
        /\ record' = [record EXCEPT ![i].queued = @ - 1,
                        ![i].phase = IF works THEN "removing" ELSE "idle",
                        ![i].next = IF works THEN mqtt.scope \cap visible ELSE {},
                        ![i].refused = IF works THEN FALSE ELSE @]
        /\ UNCHANGED <<mqtt, visible, client, reconciler, overlap>>
        /\ record[i].phase = "idle" /\ record[i].queued > 0
    BY <1>2 DEF Discovery!SyncBegins
  <2>2. works <=> record[i].client = "up"
    OBVIOUS
  <2> HIDE DEF works
  <2> QED
    BY <1>2, <2>1, <2>2, StepBeginsOn
<1>3. CASE Discovery!SyncClears(i)
  BY <1>3, StepClearing, StepEnding DEF Discovery!SyncClears
<1>4. CASE Discovery!SyncRemoves(i)
  BY <1>4, StepRemoved, StepGivesUp DEF Discovery!SyncRemoves
<1>5. CASE Discovery!SyncPublishes(i)
  BY <1>5, StepPublishes DEF Discovery!SyncPublishes
<1>6. CASE Discovery!SyncEnds(i)
  BY <1>6, StepEnds DEF Discovery!SyncEnds
<1>7. CASE Discovery!SyncRefused(i)
  BY <1>7, StepGivenUp DEF Discovery!SyncRefused
<1>8. CASE Discovery!SyncFails(i)
  <2>1. record[i] \in RecordRow /\ record[i].refused \in BOOLEAN
          /\ record \in [Discovery!Records -> RecordRow]
    BY RecordOK DEF DiscoveryInv, DiscoveryTyped
  <2>2. record' = [record EXCEPT ![i].phase = "idle", ![i].next = {}, ![i].left = {},
                                 ![i].refused = record[i].refused]
    BY <1>8, <2>1 DEF Discovery!SyncFails, RecordRow
  <2> QED
    BY <1>8, <2>1, <2>2, StepGivenUp DEF Discovery!SyncFails
<1>9. CASE Discovery!Connect(i)
  BY <1>9, StepConnect DEF Discovery!Connect
<1>10. CASE Discovery!Drop(i)
  BY <1>10, StepDrop DEF Discovery!Drop
<1> QED
  BY <1>1, <1>2, <1>3, <1>4, <1>5, <1>6, <1>7, <1>8, <1>9, <1>10, Zenon

LEMMA DiscoveryStep == DiscoveryInv /\ [Discovery!Next]_Discovery!vars => DiscoveryInv'
<1> SUFFICES ASSUME DiscoveryInv, [Discovery!Next]_Discovery!vars PROVE DiscoveryInv'
  OBVIOUS
<1>1. CASE UNCHANGED Discovery!vars
  BY <1>1 DEF Discovery!vars, DiscoveryInv, DiscoveryTyped, RecordsOwned, ReconcilersOwn, Owns,
              CurrentServed,
              Served, ReconcilersAgree, Agrees, Alone, RecordsKnown
<1>2. CASE Discovery!SystemChanges
  BY <1>2, StepSystemChanges
<1>3. ASSUME NEW r \in Reconcilers,
             \/ Discovery!Edit(r) \/ Discovery!Snapshot(r) \/ Discovery!Turn(r)
                \/ Discovery!Clear(r) \/ Discovery!EndClient(r)
             \/ Discovery!Create(r) \/ Discovery!Connecting(r) \/ Discovery!Sweep(r)
      PROVE  DiscoveryInv'
  BY <1>3, StepEditsRow, StepSnapshot, StepTurn, StepClear, StepEndClient, StepCreates,
     StepConnecting, StepSweep
<1>4. ASSUME NEW i \in Discovery!Records,
             \/ Discovery!SyncBegins(i) \/ Discovery!SyncClears(i) \/ Discovery!SyncRemoves(i)
                \/ Discovery!SyncPublishes(i)
             \/ Discovery!SyncEnds(i) \/ Discovery!SyncRefused(i) \/ Discovery!SyncFails(i)
                \/ Discovery!Connect(i) \/ Discovery!Drop(i)
      PROVE  DiscoveryInv'
  BY <1>4, StepSyncs
<1> QED
  BY <1>1, <1>2, <1>3, <1>4 DEF Discovery!Next

LEMMA DiscoverySettles == DiscoveryInv => Discovery!SettledMatchesRow
<1> SUFFICES ASSUME DiscoveryInv, Discovery!Quiet
             PROVE  /\ client # 0 => Discovery!Alive(client) /\ mqtt.on
                    /\ client # 0 /\ ~record[client].refused => Discovery!KnowsPublished
                    /\ overlap # "now" /\ mqtt.on => client # 0 /\ record[client].fingerprint = mqtt
                    /\ overlap = "never" => \A i \in Discovery!Records : Discovery!Alive(i)
                       => i = client
  BY DEF Discovery!SettledMatchesRow
<1>1. ASSUME NEW r \in Reconcilers, NEW i, NEW w PROVE ~Serves(reconciler[r], i, w)
  BY DEF Discovery!Quiet, Serves
<1>2. ASSUME client # 0 PROVE Discovery!Alive(client) /\ mqtt.on
  <2>1. client \in Discovery!Records /\ Active(record[client])
    BY <1>2 DEF DiscoveryInv, DiscoveryTyped, RecordsOwned
  <2>2. mqtt.on => record[client].client = "up" \/ mqtt.on
    OBVIOUS
  <2>3. mqtt.on
    BY <1>1, <1>2, <2>1 DEF DiscoveryInv, CurrentServed, Served, Discovery!Quiet
  <2> QED
    BY <2>1, <2>3 DEF Discovery!Alive, Active
<1>3. ASSUME client # 0, ~record[client].refused PROVE Discovery!KnowsPublished
  <2> SUFFICES ASSUME record[client].client = "up"
               PROVE  record[client].published = mqtt.scope \cap visible
    BY DEF Discovery!KnowsPublished, Discovery!Wanted
  <2>1. client \in Discovery!Records /\ Served(record[client])
    BY <1>3 DEF DiscoveryInv, DiscoveryTyped, CurrentServed
  <2>2. record[client].phase = "idle" /\ record[client].queued = 0
    BY <2>1 DEF Discovery!Quiet
  <2> QED
    BY <1>1, <1>3, <2>1, <2>2 DEF Served, Synced
<1>4. ASSUME overlap # "now", mqtt.on PROVE client # 0 /\ record[client].fingerprint = mqtt
  <2>1. PICK r \in Reconcilers : Alone(r)
    BY <1>4 DEF DiscoveryInv, ReconcilersAgree
  <2>2. Agrees(reconciler[r], mqtt, client, record[client].fingerprint) /\ reconciler[r].pc = "idle"
    BY <1>4, <2>1 DEF DiscoveryInv, ReconcilersAgree, Discovery!Quiet
  <2> QED
    BY <1>4, <2>2 DEF Agrees
<1>5. ASSUME overlap = "never", NEW i \in Discovery!Records, Discovery!Alive(i) PROVE i = client
  BY <1>5 DEF DiscoveryInv, RecordsKnown, Discovery!Quiet, Discovery!Alive, Active, Ends, Stopping
<1> QED
  BY <1>2, <1>3, <1>4, <1>5

(* Once nothing is in progress, the channel has the client its row asks    *)
(* for, which published what the row asks for, as far as edits that overlap *)
(* and subscriptions that the broker refuses leave room for it.            *)
THEOREM DiscoveryCorrect == Discovery!Spec => []Discovery!SettledMatchesRow
<1>1. Discovery!Init => DiscoveryInv
  BY DiscoveryInit
<1>2. DiscoveryInv /\ [Discovery!Next]_Discovery!vars => DiscoveryInv'
  BY DiscoveryStep
<1>3. DiscoveryInv => Discovery!SettledMatchesRow
  BY DiscoverySettles
<1> QED
  BY <1>1, <1>2, <1>3, PTL DEF Discovery!Spec

--------------------------------------------------------------------------------
Binding == INSTANCE TelegramChannel WITH row <- bot, edits <- botEdits, MaxEdits <- MaxBotEdits

-------------------------------------------------------------------------------
(***************************************************************************)
(* The token of a Telegram channel.  The worker of a bot never revokes a   *)
(* token: one that is stored belongs to a channel with commands and a bot, *)
(* and it gets a chat then.  So only requests revoke, and the snapshot of  *)
(* a request that no other one overtook is as good as the row, whatever    *)
(* the workers do meanwhile.                                               *)
(***************************************************************************)
Backed(c) == c.token # 0 => c.commands /\ c.bot # None

BindingTyped ==
  /\ saved \in BOOLEAN /\ bot \in Binding!Config /\ tokens \subseteq Binding!Tokens
  /\ issued \in 0 .. MaxTokens
  /\ op \in [Binding!Actors -> [pc : {"idle", "naming", "hashing"}, snapshot : Binding!Config]]

\* Tokens belong to channels that need them.
TokensBacked ==
  /\ Backed(bot)
  /\ \A a \in Binding!Actors : op[a].pc # "idle" => Backed(op[a].snapshot)
  /\ \A a \in Binding!Actors : op[a].pc = "hashing" => op[a].snapshot.commands
     /\ op[a].snapshot.bot # None
  /\ \A b \in Bots : op[b].pc # "naming"

\* The row, and the snapshots of requests that ask for the bot's name and were not overtaken.
TokensValid ==
  saved /\ ~late /\ (\A q \in Requests : op[q].pc # "hashing") =>
    /\ bot.token \in tokens \cup {0}
    /\ \A q \in Requests \ overtaken :
         op[q].pc = "naming" => op[q].snapshot.token \in tokens \cup {0}

BindingInv == BindingTyped /\ TokensBacked /\ TokensValid

LEMMA BindingInit == ASSUME Binding!BindingAssumption PROVE Binding!Init => BindingInv
<1> SUFFICES ASSUME Binding!Init PROVE BindingInv
  OBVIOUS
<1>1. Binding!Fresh \in Binding!Config
  BY DEF Binding!Fresh, Binding!Config
<1>2. bot \in Binding!Config /\ bot.token = 0
  BY DEF Binding!Init, Binding!Config
<1>3. BindingTyped
  BY <1>1, <1>2 DEF Binding!Init, BindingTyped, Binding!Idle, Binding!BindingAssumption,
     Binding!Tokens
<1>4. \A a \in Binding!Actors : op[a].pc = "idle"
  BY DEF Binding!Init, Binding!Idle
<1>5. TokensBacked
  BY <1>2, <1>4 DEF TokensBacked, Backed, Binding!Actors
<1>6. TokensValid
  BY <1>2, <1>4 DEF TokensValid, Binding!Actors
<1> QED
  BY <1>3, <1>5, <1>6 DEF BindingInv

\* The configurations that the actions write.
LEMMA WithToken ==
  ASSUME NEW c \in Binding!Config, NEW t \in Binding!Tokens \cup {0}
  PROVE  /\ [c EXCEPT !.token = t] \in Binding!Config /\ [c EXCEPT !.token = t].token = t
         /\ [c EXCEPT !.token = t].commands = c.commands /\ [c EXCEPT !.token = t].bot = c.bot
BY DEF Binding!Config

LEMMA WithoutChat ==
  ASSUME NEW c \in Binding!Config PROVE Binding!Unbound(c) \in Binding!Config
         /\ Binding!Unbound(c).token = 0
BY DEF Binding!Config, Binding!Unbound

LEMMA WithStatus ==
  ASSUME NEW c \in Binding!Config
  PROVE  /\ [c EXCEPT !.status = "pending"] \in Binding!Config
         /\ [c EXCEPT !.status = "pending"].token = c.token
         /\ [c EXCEPT !.status = "pending"].commands = c.commands
         /\ [c EXCEPT !.status = "pending"].bot = c.bot
BY DEF Binding!Config

LEMMA WithBot ==
  ASSUME NEW c \in Binding!Config, NEW b \in Bots \cup {None}, NEW on \in BOOLEAN
  PROVE  /\ [c EXCEPT !.bot = b, !.commands = on] \in Binding!Config
         /\ [c EXCEPT !.bot = b, !.commands = on].token = c.token
BY DEF Binding!Config

LEMMA WithChat ==
  ASSUME NEW c \in Binding!Config, NEW chat \in Chats
  PROVE  /\ [c EXCEPT !.chat = chat, !.status = "bound"] \in Binding!Config
         /\ [c EXCEPT !.chat = chat, !.status = "bound"].token = c.token
         /\ [c EXCEPT !.chat = chat, !.status = "bound"].bot = c.bot
         /\ [c EXCEPT !.chat = chat, !.status = "bound"].commands = c.commands
         /\ [c EXCEPT !.chat = chat, !.status = "bound"].chat = chat
BY DEF Binding!Config

\* What an actor waits for is all that changes in op.
LEMMA WaitsFor ==
  ASSUME BindingInv, NEW a \in Binding!Actors, NEW step \in {"idle", "naming", "hashing"},
         NEW c \in Binding!Config,
         Binding!Waits(a, step, c)
  PROVE  /\ op' \in [Binding!Actors -> [pc : {"idle", "naming", "hashing"},
                                        snapshot : Binding!Config]]
         /\ op'[a].pc = step /\ op'[a].snapshot = c
         /\ \A z \in Binding!Actors : z # a => op'[z] = op[z]
BY DEF BindingInv, BindingTyped, Binding!Waits

LEMMA GoesIdle ==
  ASSUME BindingInv, NEW a \in Binding!Actors, op' = [op EXCEPT ![a] = Binding!Idle]
  PROVE  /\ op' \in [Binding!Actors -> [pc : {"idle", "naming", "hashing"},
                                        snapshot : Binding!Config]]
         /\ op'[a].pc = "idle"
         /\ \A z \in Binding!Actors : z # a => op'[z] = op[z]
<1>1. Binding!Idle \in [pc : {"idle", "naming", "hashing"}, snapshot : Binding!Config]
        /\ Binding!Idle.pc = "idle"
  BY DEF Binding!Idle, Binding!Fresh, Binding!Config
<1> QED
  BY <1>1 DEF BindingInv, BindingTyped

\* A request that overtakes the others leaves no snapshot that matters.
LEMMA OthersOvertaken ==
  ASSUME NEW q \in Requests, overtaken' = {r \in Requests \ {q} : op[r].pc = "naming"},
         op'[q].pc # "naming", \A z \in Binding!Actors : z # q => op'[z] = op[z]
  PROVE  \A r \in Requests \ overtaken' : op'[r].pc # "naming"
BY DEF Binding!Actors

\* A request reconciles a configuration that has the token of the row.
LEMMA RequestReconciles ==
  ASSUME Binding!BindingAssumption, BindingInv, NEW q \in Requests, op[q].pc = "idle", saved,
         NEW previousBot, NEW c \in Binding!Config, c.token = bot.token,
             Binding!Reconcile(q, previousBot, c),
         UNCHANGED <<saved, issued>>, Binding!Overtakes(q)
  PROVE  BindingInv'
<1>0. /\ q \in Binding!Actors /\ q \notin Bots
      /\ overtaken' = {r \in Requests \ {q} : op[r].pc = "naming"}
      /\ late' = (late /\ bot'.token # 0)
  BY DEF Binding!Actors, Binding!BindingAssumption, Binding!Overtakes
<1>1. CASE previousBot # c.bot \/ ~Binding!NeedsToken(c)
  <2>1. bot' = Binding!Unbound(c) \/ bot' = [c EXCEPT !.token = 0]
    BY <1>1 DEF Binding!Reconcile
  <2>2. tokens' = tokens \ {c.token} /\ op' = op
    BY <1>1 DEF Binding!Reconcile
  <2>3. bot' \in Binding!Config /\ bot'.token = 0
    <3>1. [c EXCEPT !.token = 0] \in Binding!Config /\ [c EXCEPT !.token = 0].token = 0
      BY WithToken
    <3>2. Binding!Unbound(c) \in Binding!Config /\ Binding!Unbound(c).token = 0
      BY WithoutChat
    <3> QED
      BY <2>1, <3>1, <3>2, Zenon
  <2>4. BindingTyped' /\ TokensBacked'
    BY <2>2, <2>3 DEF BindingInv, BindingTyped, TokensBacked, Backed
  <2>5. \A r \in Requests \ overtaken' : op'[r].pc # "naming"
    BY <1>0, <2>2, OthersOvertaken
  <2>6. TokensValid'
    BY <2>3, <2>5 DEF TokensValid
  <2> QED
    BY <2>4, <2>6 DEF BindingInv
<1>2. CASE ~(previousBot # c.bot \/ ~Binding!NeedsToken(c))
  <2>1. bot' = c /\ tokens' = tokens /\ c.commands /\ c.bot # None
    BY <1>2 DEF Binding!Reconcile, Binding!NeedsToken
  <2>2. CASE c.token # 0
    <3>1. op' = op
      BY <1>2, <2>2 DEF Binding!Reconcile
    <3>2. BindingTyped' /\ TokensBacked'
      BY <2>1, <3>1 DEF BindingInv, BindingTyped, TokensBacked, Backed
    <3>3. \A r \in Requests \ overtaken' : op'[r].pc # "naming"
      BY <1>0, <3>1, OthersOvertaken
    <3>4. TokensValid'
      BY <1>0, <2>1, <3>1, <3>3 DEF BindingInv, TokensValid
    <3> QED
      BY <3>2, <3>4 DEF BindingInv
  <2>3. CASE c.token = 0
    <3>1. Binding!Waits(q, "hashing", c)
      BY <1>2, <2>3 DEF Binding!Reconcile
    <3>2. /\ op' \in [Binding!Actors -> [pc : {"idle", "naming", "hashing"},
                                         snapshot : Binding!Config]]
          /\ op'[q].pc = "hashing" /\ op'[q].snapshot = c
          /\ \A z \in Binding!Actors : z # q => op'[z] = op[z]
      BY <1>0, <3>1, WaitsFor
    <3>3. BindingTyped'
      BY <2>1, <3>2 DEF BindingInv, BindingTyped
    <3>4. TokensBacked'
      BY <1>0, <2>1, <2>3, <3>2 DEF BindingInv, TokensBacked, Backed, Binding!Actors
    <3>5. TokensValid'
      BY <3>2 DEF TokensValid
    <3> QED
      BY <3>3, <3>4, <3>5 DEF BindingInv
  <2> QED
    BY <2>2, <2>3
<1> QED
  BY <1>1, <1>2

LEMMA StepEdit == ASSUME Binding!BindingAssumption, BindingInv, NEW q \in Requests, Binding!Edit(q)
      PROVE BindingInv'
<1>1. PICK b \in Bots \cup {None}, on \in BOOLEAN :
        Binding!Reconcile(q, bot.bot, [bot EXCEPT !.bot = b, !.commands = on])
  BY DEF Binding!Edit
<1>2. bot \in Binding!Config
  BY DEF BindingInv, BindingTyped
<1> DEFINE c == [bot EXCEPT !.bot = b, !.commands = on]
<1>3. c \in Binding!Config /\ c.token = bot.token
  BY <1>2, WithBot
<1>4. Binding!Reconcile(q, bot.bot, c)
  BY <1>1
<1> HIDE DEF c
<1> QED
  BY <1>3, <1>4, RequestReconciles DEF Binding!Edit

\* A request revokes the token of a row that is deleted, or loses it.
LEMMA StepRevoke ==
  ASSUME Binding!BindingAssumption, BindingInv, NEW q \in Requests, Binding!Delete(q)
         \/ Binding!Unlink(q) \/ Binding!Reissue(q)
  PROVE  BindingInv'
<1>0. /\ q \in Binding!Actors /\ q \notin Bots /\ bot \in Binding!Config /\ op[q].pc = "idle"
      /\ overtaken' = {r \in Requests \ {q} : op[r].pc = "naming"}
      /\ late' = (late /\ bot'.token # 0)
  BY DEF Binding!Actors, Binding!BindingAssumption, BindingInv, BindingTyped, Binding!Delete,
     Binding!Unlink, Binding!Reissue, Binding!Overtakes
<1>1. CASE Binding!Delete(q)
  BY <1>1 DEF Binding!Delete, BindingInv, BindingTyped, TokensBacked, TokensValid
<1>2. CASE Binding!Unlink(q)
  <2>1. bot' \in Binding!Config /\ bot'.token = 0
    BY <1>0, <1>2, WithoutChat DEF Binding!Unlink
  <2>2. tokens' = tokens \ {bot.token} /\ UNCHANGED <<saved, issued, op>>
    BY <1>2 DEF Binding!Unlink
  <2>3. BindingTyped' /\ TokensBacked'
    BY <2>1, <2>2 DEF BindingInv, BindingTyped, TokensBacked, Backed
  <2>4. \A r \in Requests \ overtaken' : op'[r].pc # "naming"
    BY <1>0, <2>2, OthersOvertaken
  <2>5. TokensValid'
    BY <2>1, <2>4 DEF TokensValid
  <2> QED
    BY <2>3, <2>5 DEF BindingInv
<1>3. CASE Binding!Reissue(q)
  <2> DEFINE c == [bot EXCEPT !.token = 0]
  <2>1. c \in Binding!Config /\ c.token = 0 /\ c.commands /\ c.bot # None
    BY <1>0, <1>3, WithToken DEF Binding!Reissue, Binding!NeedsToken
  <2>2. Binding!Waits(q, "hashing", c) /\ tokens' = tokens \ {bot.token}
          /\ UNCHANGED <<saved, bot, issued>>
    BY <1>3 DEF Binding!Reissue
  <2> HIDE DEF c
  <2>3. /\ op' \in [Binding!Actors -> [pc : {"idle", "naming", "hashing"},
                                       snapshot : Binding!Config]]
        /\ op'[q].pc = "hashing" /\ op'[q].snapshot = c
        /\ \A z \in Binding!Actors : z # q => op'[z] = op[z]
    BY <1>0, <2>1, <2>2, WaitsFor
  <2>4. BindingTyped'
    BY <2>2, <2>3 DEF BindingInv, BindingTyped
  <2>5. TokensBacked'
    BY <1>0, <2>1, <2>2, <2>3 DEF BindingInv, TokensBacked, Backed, Binding!Actors
  <2>6. TokensValid'
    BY <2>3 DEF TokensValid
  <2> QED
    BY <2>4, <2>5, <2>6 DEF BindingInv
<1> QED
  BY <1>1, <1>2, <1>3

LEMMA StepLink ==
  ASSUME Binding!BindingAssumption, BindingInv, NEW q \in Requests, Binding!LinkBegins(q)
         \/ Binding!LinkEnds(q)
  PROVE  BindingInv'
<1>0. q \in Binding!Actors /\ q \notin Bots /\ bot \in Binding!Config
  BY DEF Binding!Actors, Binding!BindingAssumption, BindingInv, BindingTyped
<1>1. CASE Binding!LinkBegins(q)
  <2>1. /\ op' \in [Binding!Actors -> [pc : {"idle", "naming", "hashing"},
                                       snapshot : Binding!Config]]
        /\ op'[q].pc = "naming" /\ op'[q].snapshot = bot
        /\ \A z \in Binding!Actors : z # q => op'[z] = op[z]
    BY <1>0, <1>1, WaitsFor DEF Binding!LinkBegins
  <2>2. UNCHANGED <<saved, bot, tokens, issued, overtaken, late>> /\ op[q].pc = "idle"
    BY <1>1 DEF Binding!LinkBegins, Binding!history
  <2>3. BindingTyped'
    BY <2>1, <2>2 DEF BindingInv, BindingTyped
  <2>4. TokensBacked'
    BY <1>0, <2>1, <2>2 DEF BindingInv, TokensBacked, Backed, Binding!Actors
  <2>5. TokensValid'
    <3> SUFFICES ASSUME saved, ~late, \A r \in Requests : op'[r].pc # "hashing"
                 PROVE  /\ bot.token \in tokens \cup {0}
                        /\ \A r \in Requests \ overtaken :
                             op'[r].pc = "naming" => op'[r].snapshot.token \in tokens \cup {0}
      BY <2>2 DEF TokensValid
    <3>1. \A r \in Requests : op[r].pc # "hashing"
      BY <2>1, <2>2 DEF Binding!Actors
    <3> QED
      BY <2>1, <3>1 DEF BindingInv, TokensValid, Binding!Actors
  <2> QED
    BY <2>3, <2>4, <2>5 DEF BindingInv
<1>2. CASE Binding!LinkEnds(q)
  <2> DEFINE c == op[q].snapshot
  <2>1. /\ op[q].pc = "naming" /\ UNCHANGED <<saved, tokens, issued>>
            /\ op' = [op EXCEPT ![q] = Binding!Idle]
        /\ overtaken' = overtaken \ {q}
    BY <1>2 DEF Binding!LinkEnds
  <2>2. \/ bot' = bot /\ late' = late
        \/ bot' = bot /\ late' = (late \/ q \in overtaken)
        \/ saved /\ bot' = [c EXCEPT !.status = "pending"] /\ late' = (late \/ q \in overtaken)
    BY <1>2 DEF Binding!LinkEnds
  <2>3. c \in Binding!Config /\ Backed(c)
    BY <1>0, <2>1 DEF BindingInv, BindingTyped, TokensBacked
  <2>4. /\ op' \in [Binding!Actors -> [pc : {"idle", "naming", "hashing"},
                                       snapshot : Binding!Config]]
        /\ op'[q].pc = "idle"
        /\ \A z \in Binding!Actors : z # q => op'[z] = op[z]
    BY <1>0, <2>1, GoesIdle
  <2>5. ASSUME saved, ~late', \A r \in Requests : op'[r].pc # "hashing"
        PROVE  /\ bot.token \in tokens \cup {0}
               /\ \A r \in Requests \ overtaken :
                    op[r].pc = "naming" => op[r].snapshot.token \in tokens \cup {0}
    <3>1. ~late
      BY <2>2, <2>5, Zenon
    <3>2. \A r \in Requests : op[r].pc # "hashing"
      BY <2>1, <2>4, <2>5 DEF Binding!Actors
    <3> QED
      BY <2>5, <3>1, <3>2 DEF BindingInv, TokensValid
  <2> HIDE DEF c
  <2>6. bot' \in Binding!Config /\ Backed(bot')
    <3>1. CASE bot' = bot
      BY <1>0, <3>1 DEF BindingInv, TokensBacked
    <3>2. CASE bot' = [c EXCEPT !.status = "pending"]
      BY <2>3, <3>2, WithStatus DEF Backed
    <3> QED
      BY <2>2, <3>1, <3>2
  <2>7. BindingTyped'
    BY <2>1, <2>4, <2>6 DEF BindingInv, BindingTyped
  <2>8. TokensBacked'
    BY <1>0, <2>4, <2>6 DEF BindingInv, TokensBacked, Backed, Binding!Actors
  <2>9. TokensValid'
    <3> SUFFICES ASSUME saved, ~late', \A r \in Requests : op'[r].pc # "hashing"
                 PROVE  /\ bot'.token \in tokens \cup {0}
                        /\ \A r \in Requests \ overtaken' :
                             op'[r].pc = "naming" => op'[r].snapshot.token \in tokens \cup {0}
      BY <2>1 DEF TokensValid
    <3>1. \A r \in Requests \ overtaken' :
            op'[r].pc = "naming" => op'[r].snapshot.token \in tokens \cup {0}
      BY <2>1, <2>4, <2>5 DEF Binding!Actors
    <3>2. CASE bot' = bot
      BY <2>5, <3>1, <3>2
    <3>3. CASE bot' = [c EXCEPT !.status = "pending"] /\ q \notin overtaken
      <4>1. c.token \in tokens \cup {0}
        BY <2>1, <2>5, <3>3 DEF c
      <4> QED
        BY <2>3, <3>1, <3>3, <4>1, WithStatus
    <3>4. bot' = bot \/ (bot' = [c EXCEPT !.status = "pending"] /\ q \notin overtaken)
      BY <2>2, Zenon
    <3> QED
      BY <3>2, <3>3, <3>4
  <2> QED
    BY <2>7, <2>8, <2>9 DEF BindingInv
<1> QED
  BY <1>1, <1>2

\* A token is issued and written with what the actor holds.
LEMMA StepIssue == ASSUME Binding!BindingAssumption, BindingInv, NEW a \in Binding!Actors,
      Binding!Issue(a) PROVE BindingInv'
<1>1. /\ op[a].pc = "hashing" /\ issued' = issued + 1 /\ issued + 1 \in Binding!Tokens
      /\ tokens' = tokens \cup {issued + 1} /\ saved' = saved
         /\ op' = [op EXCEPT ![a] = Binding!Idle]
  BY DEF Binding!Issue, BindingInv, BindingTyped, Binding!Tokens, Binding!BindingAssumption
<1> DEFINE c == op[a].snapshot
<1>2. c \in Binding!Config /\ c.commands /\ c.bot # None
  BY <1>1 DEF BindingInv, BindingTyped, TokensBacked
<1>3. bot' = IF saved THEN [c EXCEPT !.token = issued + 1] ELSE bot
  BY <1>1 DEF Binding!Issue
<1> HIDE DEF c
<1>4. /\ op' \in [Binding!Actors -> [pc : {"idle", "naming", "hashing"}, snapshot : Binding!Config]]
      /\ op'[a].pc = "idle"
      /\ \A z \in Binding!Actors : z # a => op'[z] = op[z]
  BY <1>1, GoesIdle
<1>5. bot' \in Binding!Config /\ Backed(bot') /\ (saved => bot'.token \in tokens')
  <2>1. CASE saved
    <3>1. bot' = [c EXCEPT !.token = issued + 1]
      BY <1>3, <2>1
    <3>2. /\ bot' \in Binding!Config /\ bot'.token = issued + 1
          /\ bot'.commands /\ bot'.bot # None
      BY <1>1, <1>2, <3>1, WithToken
    <3> QED
      BY <1>1, <3>2 DEF Backed
  <2>2. CASE ~saved
    BY <1>3, <2>2 DEF BindingInv, BindingTyped, TokensBacked
  <2> QED
    BY <2>1, <2>2
<1>6. BindingTyped'
  BY <1>1, <1>4, <1>5 DEF BindingInv, BindingTyped, Binding!Tokens, Binding!BindingAssumption
<1>7. TokensBacked'
  BY <1>4, <1>5 DEF BindingInv, TokensBacked, Backed, Binding!Actors
<1>8. TokensValid'
  <2>1. CASE a \in Requests
    <3>1. overtaken' = {r \in Requests \ {a} : op[r].pc = "naming"}
      BY <2>1 DEF Binding!Issue
    <3>2. \A r \in Requests \ overtaken' : op'[r].pc # "naming"
      BY <1>4, <2>1, <3>1, OthersOvertaken
    <3> QED
      BY <1>1, <1>5, <3>2 DEF TokensValid
  <2>2. CASE a \notin Requests
    <3>1. UNCHANGED <<overtaken, late>> /\ \A r \in Requests : op'[r] = op[r]
      BY <1>4, <2>2 DEF Binding!Issue, Binding!history, Binding!Actors
    <3> QED
      BY <1>1, <1>5, <3>1 DEF BindingInv, TokensValid
  <2> QED
    BY <2>1, <2>2
<1> QED
  BY <1>6, <1>7, <1>8 DEF BindingInv

\* The worker of a bot binds the chat: it revokes nothing that the row has.
LEMMA StepStart == ASSUME Binding!BindingAssumption, BindingInv, NEW b \in Bots,
      Binding!LinkStart(b) PROVE BindingInv'
<1>0. /\ b \in Binding!Actors /\ b \notin Requests /\ bot \in Binding!Config /\ Backed(bot)
      /\ UNCHANGED <<saved, issued, overtaken, late>>
  BY DEF Binding!Actors, Binding!BindingAssumption, BindingInv, BindingTyped, TokensBacked,
     Binding!LinkStart, Binding!history
<1>1. CASE UNCHANGED <<bot, tokens, op>>
  BY <1>0, <1>1 DEF BindingInv, BindingTyped, TokensBacked, TokensValid
<1>2. CASE saved /\ \E chat \in Chats :
            Binding!Reconcile(b, bot.bot, [bot EXCEPT !.chat = chat, !.status = "bound"])
  <2>1. PICK chat \in Chats : Binding!Reconcile(b, bot.bot,
                                                [bot EXCEPT !.chat = chat, !.status = "bound"])
    BY <1>2
  <2> DEFINE c == [bot EXCEPT !.chat = chat, !.status = "bound"]
  <2>2. c \in Binding!Config /\ c.token = bot.token /\ c.bot = bot.bot /\ c.commands = bot.commands
        /\ c.chat = chat /\ chat # None
    BY <1>0, WithChat DEF Binding!BindingAssumption
  <2>3. Binding!Reconcile(b, bot.bot, c) /\ UNCHANGED <<saved, issued>>
    BY <2>1 DEF Binding!LinkStart
  <2> HIDE DEF c
  <2>4. CASE ~Binding!NeedsToken(c)
    <3>1. bot.token = 0
      BY <1>0, <2>2, <2>4 DEF Backed, Binding!NeedsToken
    <3>2. bot' = [c EXCEPT !.token = 0] /\ tokens' = tokens \ {0} /\ op' = op
      BY <2>2, <2>3, <2>4, <3>1 DEF Binding!Reconcile
    <3>3. bot' \in Binding!Config /\ bot'.token = 0
      BY <2>2, <3>2, WithToken
    <3> QED
      BY <1>0, <2>3, <3>2, <3>3 DEF BindingInv, BindingTyped, TokensBacked, TokensValid, Backed
  <2>5. CASE Binding!NeedsToken(c)
    <3>1. bot' = c /\ tokens' = tokens /\ c.commands /\ c.bot # None
          /\ (IF c.token = 0 THEN Binding!Waits(b, "hashing", c) ELSE op' = op)
      BY <2>2, <2>3, <2>5 DEF Binding!Reconcile, Binding!NeedsToken
    <3>2. CASE op' = op
      BY <1>0, <2>2, <2>3, <3>1, <3>2 DEF BindingInv, BindingTyped, TokensBacked, TokensValid,
         Backed
    <3>3. CASE c.token = 0 /\ Binding!Waits(b, "hashing", c)
      <4>1. /\ op' \in [Binding!Actors -> [pc : {"idle", "naming", "hashing"},
                                           snapshot : Binding!Config]]
            /\ op'[b].pc = "hashing" /\ op'[b].snapshot = c
            /\ \A z \in Binding!Actors : z # b => op'[z] = op[z]
        BY <1>0, <2>2, <3>3, WaitsFor
      <4>2. BindingTyped'
        BY <2>2, <2>3, <3>1, <4>1 DEF BindingInv, BindingTyped
      <4>3. TokensBacked'
        BY <3>1, <3>3, <4>1 DEF BindingInv, TokensBacked, Backed, Binding!Actors
      <4>4. TokensValid'
        BY <1>0, <2>3, <3>1, <3>3, <4>1 DEF BindingInv, TokensValid, Binding!Actors
      <4> QED
        BY <4>2, <4>3, <4>4 DEF BindingInv
    <3> QED
      BY <3>1, <3>2, <3>3
  <2> QED
    BY <2>4, <2>5
<1> QED
  BY <1>1, <1>2 DEF Binding!LinkStart

LEMMA BindingStep == ASSUME Binding!BindingAssumption PROVE BindingInv
      /\ [Binding!Next]_Binding!vars => BindingInv'
<1> SUFFICES ASSUME BindingInv, [Binding!Next]_Binding!vars PROVE BindingInv'
  OBVIOUS
<1>1. CASE Binding!LinkExpires \/ UNCHANGED Binding!vars
  BY <1>1 DEF Binding!LinkExpires, Binding!vars, Binding!history, BindingInv, BindingTyped,
     TokensBacked, TokensValid
<1>2. ASSUME NEW q \in Requests,
             Binding!Edit(q) \/ Binding!Delete(q) \/ Binding!LinkBegins(q) \/ Binding!LinkEnds(q)
                 \/ Binding!Unlink(q) \/ Binding!Reissue(q)
      PROVE  BindingInv'
  BY <1>2, StepEdit, StepRevoke, StepLink
<1>3. ASSUME NEW b \in Bots, Binding!LinkStart(b) PROVE BindingInv'
  BY <1>3, StepStart
<1>4. ASSUME NEW a \in Binding!Actors, Binding!Issue(a) PROVE BindingInv'
  BY <1>4, StepIssue
<1> QED
  BY <1>1, <1>2, <1>3, <1>4 DEF Binding!Next

LEMMA BindingHolds == BindingInv => Binding!CommandTokenValid
BY DEF BindingInv, TokensValid, Binding!CommandTokenValid

(* The token that a channel's commands run with is one that the API        *)
(* accepts, unless it is being reissued, or was brought back by a request  *)
(* that another one overtook.                                              *)
THEOREM BindingCorrect == ASSUME Binding!BindingAssumption PROVE Binding!Spec
        => []Binding!CommandTokenValid
<1>1. Binding!Init => BindingInv
  BY BindingInit
<1>2. BindingInv /\ [Binding!Next]_Binding!vars => BindingInv'
  BY BindingStep
<1>3. BindingInv => Binding!CommandTokenValid
  BY BindingHolds
<1> QED
  BY <1>1, <1>2, <1>3, PTL DEF Binding!Spec

--------------------------------------------------------------------------------
Commands == INSTANCE TelegramUpdates

-------------------------------------------------------------------------------
(***************************************************************************)
(* Telegram updates.  A worker has handled all that is before its offset,  *)
(* except for the update it is at: so an acknowledgement forgets nothing.  *)
(* A confirmation leaves the pending ones before its command is started,   *)
(* and it was neither used nor cancelled until then.                       *)
(***************************************************************************)
Phases == {"none", "loop", "polling", "batch", "asking", "confirmed", "gone"}
WorkerRow == [pc : Phases, stop : BOOLEAN, offset : Nat, next : Nat, last : Nat]

\* A worker's record r fits the handled updates h, of n that were sent.
Follows(r, h, n) ==
  /\ r \in WorkerRow /\ r.offset <= n + 1
  /\ r.pc = "none" => r.offset = 0
  /\ r.pc \in {"loop", "polling"} => 1 .. r.offset - 1 \subseteq h
  /\ r.pc \in {"batch", "asking", "confirmed"} =>
       r.next >= 1 /\ r.offset <= r.next /\ r.next <= r.last + 1 /\ r.last <= n
  /\ r.pc = "batch" => 1 .. r.next - 1 \subseteq h
  /\ r.pc \in {"asking", "confirmed"} => r.next >= 2 /\ 1 .. r.next - 2 \subseteq h

HandledInv ==
  /\ worker = [w \in Commands!Workers |-> worker[w]]
  /\ sent \in Seq(Commands!Update)
  /\ acked \in Nat /\ acked <= Len(sent) /\ 1 .. acked \subseteq handled
  /\ \A w \in Commands!Workers : Follows(worker[w], handled, Len(sent))

\* The confirmation of the press that a worker is at.
PressOf(r, messages) == messages[r.next - 1][2]

OnceInv ==
  /\ created \in Nat /\ pending \subseteq 1 .. created
  /\ executed \in [Commands!Confirmations -> Nat]
  /\ \A c \in Commands!Confirmations :
       /\ executed[c] <= 1 /\ (c \in cancelled => executed[c] = 0)
       /\ c \in pending \/ c > created => executed[c] = 0 /\ c \notin cancelled
  /\ \A w \in Commands!Workers : worker[w].pc = "confirmed" =>
       /\ PressOf(worker[w], sent) \in Commands!Confirmations /\ PressOf(worker[w], sent) <= created
       /\ PressOf(worker[w], sent) \notin pending \cup cancelled
          /\ executed[PressOf(worker[w], sent)] = 0
  /\ \A v, w \in Commands!Workers :
       worker[v].pc = "confirmed" /\ worker[w].pc = "confirmed"
           /\ PressOf(worker[v], sent) = PressOf(worker[w], sent)
         => v = w

CommandsInv == HandledInv /\ OnceInv

LEMMA UnusedFollows == ASSUME NEW h, NEW n \in Nat PROVE Follows(Commands!Unused, h, n)
      /\ Commands!Unused.pc = "none"
<1>1. Commands!Unused \in WorkerRow
  BY DEF Commands!Unused, WorkerRow, Phases
<1> QED
  BY <1>1 DEF Follows, Commands!Unused

LEMMA CommandsInit == Commands!Init => CommandsInv
<1> SUFFICES ASSUME Commands!Init PROVE CommandsInv
  OBVIOUS
<1>1. sent = <<>> /\ Len(sent) = 0 /\ acked = 0 /\ created = 0
  BY DEF Commands!Init
<1> DEFINE fresh == [Commands!Unused EXCEPT !.pc = "loop"]
<1>2. fresh \in WorkerRow /\ fresh.pc = "loop" /\ fresh.offset = 0
  BY DEF Commands!Unused, WorkerRow, Phases
<1>3. Follows(fresh, handled, 0)
  BY <1>2 DEF Follows
<1>4. \A w \in Commands!Workers : worker[w] = IF w = 1 THEN fresh ELSE Commands!Unused
  BY DEF Commands!Init
<1> HIDE DEF fresh
<1>5. \A w \in Commands!Workers : Follows(worker[w], handled, 0) /\ worker[w].pc # "confirmed"
  BY <1>2, <1>3, <1>4, UnusedFollows
<1>6. HandledInv
  BY <1>1, <1>5 DEF HandledInv, Commands!Init
<1>7. OnceInv
  BY <1>1, <1>5 DEF OnceInv, Commands!Init, Commands!Confirmations
<1> QED
  BY <1>6, <1>7 DEF CommandsInv

LEMMA FollowsOn ==
  ASSUME NEW r, NEW h, NEW k, NEW n \in Nat, NEW m \in Nat, Follows(r, h, n), h \subseteq k, n <= m
  PROVE  Follows(r, k, m)
BY DEF Follows, WorkerRow

\* One worker moves.
LEMMA HandledKeeps ==
  ASSUME HandledInv, NEW w \in Commands!Workers, NEW new, Follows(new, handled', Len(sent)),
         worker' = [worker EXCEPT ![w] = new], handled \subseteq handled', sent' = sent,
         acked' \in Nat, acked' <= Len(sent), 1 .. acked' \subseteq handled'
  PROVE  HandledInv'
<1>1. Len(sent) \in Nat
  BY DEF HandledInv
<1>2. worker' = [v \in Commands!Workers |-> worker'[v]]
        /\ \A v \in Commands!Workers : worker'[v] = IF v = w THEN new ELSE worker[v]
  BY DEF HandledInv
<1>3. \A v \in Commands!Workers : Follows(worker'[v], handled', Len(sent))
  BY <1>1, <1>2, FollowsOn DEF HandledInv
<1> QED
  BY <1>2, <1>3 DEF HandledInv

\* What was confirmed stays as it was, and nothing else is confirmed.
LEMMA OnceKeeps ==
  ASSUME OnceInv, pending' \subseteq pending, UNCHANGED <<created, executed, cancelled>>,
         \A w \in Commands!Workers : worker'[w].pc = "confirmed" =>
           worker[w].pc = "confirmed" /\ PressOf(worker'[w], sent') = PressOf(worker[w], sent)
  PROVE  OnceInv'
BY DEF OnceInv

LEMMA Update2 == ASSUME NEW u \in Commands!Update PROVE u[1] # "ask"
      => u[2] \in Commands!Confirmations
BY DEF Commands!Update

-------------------------------------------------------------------------------
\* Steps of one worker that neither confirm nor execute.
LEMMA WorkerKeeps ==
  ASSUME CommandsInv, NEW w \in Commands!Workers, NEW new, Follows(new, handled', Len(sent)),
         worker' = [worker EXCEPT ![w] = new], handled \subseteq handled', sent' = sent,
         acked' \in Nat, acked' <= Len(sent), 1 .. acked' \subseteq handled',
         new.pc # "confirmed", pending' \subseteq pending,
             UNCHANGED <<created, executed, cancelled>>
  PROVE  CommandsInv'
<1>1. HandledInv'
  BY HandledKeeps DEF CommandsInv
<1>2. \A v \in Commands!Workers : worker'[v] = IF v = w THEN new ELSE worker[v]
  BY DEF CommandsInv, HandledInv
<1>3. OnceInv'
  BY <1>2, OnceKeeps DEF CommandsInv, PressOf
<1> QED
  BY <1>1, <1>3 DEF CommandsInv

LEMMA Acked ==
  ASSUME CommandsInv, NEW w \in Commands!Workers, worker[w].pc = "polling", Commands!Acknowledge(w)
         \/ UNCHANGED acked
  PROVE  acked' \in Nat /\ acked' <= Len(sent) /\ 1 .. acked' \subseteq handled
<1>1. Follows(worker[w], handled, Len(sent)) /\ Len(sent) \in Nat
  BY DEF CommandsInv, HandledInv
<1>2. worker[w].offset \in Nat /\ worker[w].offset <= Len(sent) + 1
      /\ 1 .. worker[w].offset - 1 \subseteq handled
  BY <1>1 DEF Follows, WorkerRow
<1>3. acked \in Nat /\ acked <= Len(sent) /\ 1 .. acked \subseteq handled
  BY DEF CommandsInv, HandledInv
<1> QED
  BY <1>1, <1>2, <1>3 DEF Commands!Acknowledge

\* Some worker goes on as pc says, and nothing else of it changes.
LEMMA Goes ==
  ASSUME CommandsInv, NEW w \in Commands!Workers, NEW step \in Phases, Commands!Go(w, step)
  PROVE  \E new \in WorkerRow :
           /\ worker' = [worker EXCEPT ![w] = new] /\ new.pc = step /\ new.offset = worker[w].offset
           /\ new.next = worker[w].next /\ new.last = worker[w].last
<1>1. worker[w] \in WorkerRow
  BY DEF CommandsInv, HandledInv, Follows
<1> DEFINE new == [worker[w] EXCEPT !.pc = step]
<1>2. /\ new \in WorkerRow /\ new.pc = step /\ new.offset = worker[w].offset
      /\ new.next = worker[w].next /\ new.last = worker[w].last
  BY <1>1 DEF WorkerRow
<1>3. worker' = [worker EXCEPT ![w] = new]
  BY DEF Commands!Go
<1> QED
  BY <1>2, <1>3

\* A worker takes the next update of its batch.
LEMMA Takes1 ==
  ASSUME CommandsInv, NEW w \in Commands!Workers, NEW step \in Phases, Commands!Taken(w, step)
  PROVE  \E new \in WorkerRow :
           /\ worker' = [worker EXCEPT ![w] = new] /\ new.pc = step
           /\ new.offset = worker[w].next + 1
           /\ new.next = worker[w].next + 1 /\ new.last = worker[w].last
<1>1. worker[w] \in WorkerRow
  BY DEF CommandsInv, HandledInv, Follows
<1> DEFINE a == [worker[w] EXCEPT !.pc = step]
<1> DEFINE b == [a EXCEPT !.offset = worker[w].next + 1]
<1> DEFINE new == [b EXCEPT !.next = worker[w].next + 1]
<1>2. /\ new \in WorkerRow /\ new.pc = step /\ new.offset = worker[w].next + 1
      /\ new.next = worker[w].next + 1 /\ new.last = worker[w].last
  <2>1. worker[w].next + 1 \in Nat
    BY <1>1 DEF WorkerRow
  <2>2. a \in WorkerRow /\ a.pc = step /\ a.last = worker[w].last
    BY <1>1 DEF WorkerRow
  <2> HIDE DEF a
  <2>3. b \in WorkerRow /\ b.pc = step /\ b.last = a.last /\ b.offset = worker[w].next + 1
    BY <2>1, <2>2 DEF WorkerRow
  <2> HIDE DEF b
  <2> QED
    BY <2>1, <2>2, <2>3 DEF WorkerRow
<1>3. worker' = [worker EXCEPT ![w] = new]
  BY <1>1 DEF Commands!Taken, CommandsInv, HandledInv, WorkerRow
<1> QED
  BY <1>2, <1>3

LEMMA WorkerOK ==
  ASSUME CommandsInv, NEW w \in Commands!Workers
  PROVE  /\ Follows(worker[w], handled, Len(sent)) /\ Len(sent) \in Nat /\ worker[w] \in WorkerRow
         /\ worker[w].offset \in Nat /\ worker[w].next \in Nat /\ worker[w].last \in Nat
         /\ acked \in Nat /\ acked <= Len(sent) /\ 1 .. acked \subseteq handled
BY DEF CommandsInv, HandledInv, Follows, WorkerRow

LEMMA StepPoll == ASSUME CommandsInv, NEW w \in Commands!Workers, Commands!Poll(w)
      PROVE CommandsInv'
<1>1. PICK step \in {"gone", "polling"} : Commands!Go(w, step)
  BY DEF Commands!Poll
<1>2. PICK new \in WorkerRow :
        /\ worker' = [worker EXCEPT ![w] = new] /\ new.pc = step /\ new.offset = worker[w].offset
        /\ new.next = worker[w].next /\ new.last = worker[w].last
  BY <1>1, Goes DEF Phases
<1>3. Follows(new, handled, Len(sent)) /\ new.pc # "confirmed"
  BY <1>1, <1>2, WorkerOK DEF Follows, Commands!Poll
<1> QED
  BY <1>2, <1>3, WorkerOK, WorkerKeeps DEF Commands!Poll

LEMMA StepReceive == ASSUME CommandsInv, NEW w \in Commands!Workers, Commands!Receive(w)
      PROVE CommandsInv'
<1>1. acked' \in Nat /\ acked' <= Len(sent) /\ 1 .. acked' \subseteq handled
  BY Acked DEF Commands!Receive
<1>0. PICK k \in Nat : acked' = k
  BY <1>1
<1> DEFINE a == [worker[w] EXCEPT !.pc = "batch"]
<1> DEFINE b == [a EXCEPT !.next = k + 1]
<1> DEFINE new == [b EXCEPT !.last = Len(sent)]
<1>2. worker[w].offset <= k + 1 /\ k <= Len(sent) /\ 1 .. k \subseteq handled
  BY <1>0, <1>1, WorkerOK DEF Commands!Receive, Commands!Acknowledge
<1>3. /\ new \in WorkerRow /\ new.pc = "batch" /\ new.offset = worker[w].offset
      /\ new.next = k + 1 /\ new.last = Len(sent)
  <2>1. k + 1 \in Nat /\ Len(sent) \in Nat
    BY WorkerOK
  <2>2. a \in WorkerRow /\ a.pc = "batch" /\ a.offset = worker[w].offset
    BY WorkerOK DEF WorkerRow, Phases
  <2> HIDE DEF a
  <2>3. /\ b \in WorkerRow /\ b.pc = "batch" /\ b.offset = a.offset
        /\ b.next = k + 1
    BY <2>1, <2>2 DEF WorkerRow
  <2> HIDE DEF b
  <2> QED
    BY <2>1, <2>2, <2>3 DEF WorkerRow
<1>4. worker' = [worker EXCEPT ![w] = new]
  BY <1>0, WorkerOK DEF Commands!Receive, CommandsInv, HandledInv, WorkerRow
<1> HIDE DEF new
<1>5. Follows(new, handled, Len(sent))
  <2>1. new.next - 1 = k /\ 1 .. new.next - 1 \subseteq handled
    BY <1>2, <1>3
  <2>2. /\ new.next >= 1 /\ new.offset <= new.next /\ new.next <= new.last + 1
        /\ new.last <= Len(sent) /\ new.offset <= Len(sent) + 1
    BY <1>2, <1>3, WorkerOK
  <2> QED
    BY <1>3, <2>1, <2>2 DEF Follows
<1> QED
  BY <1>1, <1>3, <1>4, <1>5, WorkerKeeps DEF Commands!Receive, Commands!Stays

LEMMA StepPollFails == ASSUME CommandsInv, NEW w \in Commands!Workers, Commands!PollFails(w)
      PROVE CommandsInv'
<1>1. acked' \in Nat /\ acked' <= Len(sent) /\ 1 .. acked' \subseteq handled
  BY Acked DEF Commands!PollFails
<1>2. PICK new \in WorkerRow :
        /\ worker' = [worker EXCEPT ![w] = new] /\ new.pc = "loop" /\ new.offset = worker[w].offset
        /\ new.next = worker[w].next /\ new.last = worker[w].last
  BY Goes DEF Phases, Commands!PollFails
<1>3. Follows(new, handled, Len(sent))
  BY <1>2, WorkerOK DEF Follows, Commands!PollFails
<1> QED
  BY <1>1, <1>2, <1>3, WorkerKeeps DEF Commands!PollFails

LEMMA StepBatchEnds == ASSUME CommandsInv, NEW w \in Commands!Workers, Commands!BatchEnds(w)
      PROVE CommandsInv'
<1>1. PICK new \in WorkerRow :
        /\ worker' = [worker EXCEPT ![w] = new] /\ new.pc = "loop" /\ new.offset = worker[w].offset
        /\ new.next = worker[w].next /\ new.last = worker[w].last
  BY Goes DEF Phases, Commands!BatchEnds
<1>2. Follows(new, handled, Len(sent))
  BY <1>1, WorkerOK DEF Follows, Commands!BatchEnds
<1> QED
  BY <1>1, <1>2, WorkerOK, WorkerKeeps DEF Commands!BatchEnds

\* The update is handled as it is taken.
LEMMA TakenAndHandled ==
  ASSUME CommandsInv, NEW w \in Commands!Workers, worker[w].pc = "batch",
         worker[w].next <= worker[w].last,
         NEW step \in {"batch", "loop"}, Commands!Taken(w, step),
             handled' = handled \cup {worker[w].next}
  PROVE  \E new \in WorkerRow : /\ worker' = [worker EXCEPT ![w] = new] /\ new.pc = step
                                /\ Follows(new, handled', Len(sent))
<1>1. PICK new \in WorkerRow :
        /\ worker' = [worker EXCEPT ![w] = new] /\ new.pc = step
        /\ new.offset = worker[w].next + 1
        /\ new.next = worker[w].next + 1 /\ new.last = worker[w].last
  BY Takes1 DEF Phases
<1>2. /\ 1 .. worker[w].next - 1 \subseteq handled /\ worker[w].last <= Len(sent)
      /\ worker[w].next >= 1
  BY WorkerOK DEF Follows
<1>3. 1 .. worker[w].next \subseteq handled'
  BY <1>2, WorkerOK
<1>4. Follows(new, handled', Len(sent))
  BY <1>1, <1>2, <1>3, WorkerOK DEF Follows
<1> QED
  BY <1>1, <1>4

LEMMA StepDropped ==
  ASSUME CommandsInv, NEW w \in Commands!Workers, Commands!Throws(w) \/ Commands!Expired(w)
         PROVE CommandsInv'
<1>1. PICK step \in {"batch", "loop"} :
        /\ worker[w].pc = "batch" /\ worker[w].next <= worker[w].last
        /\ Commands!Taken(w, step) /\ handled' = handled \cup {worker[w].next}
        /\ UNCHANGED <<sent, acked, pending, created, executed, cancelled>>
  BY DEF Commands!Throws, Commands!Expired, Commands!Takes
<1>2. PICK new \in WorkerRow : /\ worker' = [worker EXCEPT ![w] = new] /\ new.pc = step
                               /\ Follows(new, handled', Len(sent))
  BY <1>1, TakenAndHandled
<1>3. 1 .. acked \subseteq handled' /\ new.pc # "confirmed"
  BY <1>1, <1>2, WorkerOK
<1> QED
  BY <1>1, <1>2, <1>3, WorkerOK, WorkerKeeps

LEMMA StepTakeCommand == ASSUME CommandsInv, NEW w \in Commands!Workers, Commands!TakeCommand(w)
      PROVE CommandsInv'
<1>1. PICK new \in WorkerRow :
        /\ worker' = [worker EXCEPT ![w] = new] /\ new.pc = "asking"
        /\ new.offset = worker[w].next + 1
        /\ new.next = worker[w].next + 1 /\ new.last = worker[w].last
  BY Takes1 DEF Phases, Commands!TakeCommand
<1>2. Follows(new, handled, Len(sent))
  BY <1>1, WorkerOK DEF Follows, Commands!TakeCommand, Commands!Takes
<1> QED
  BY <1>1, <1>2, WorkerOK, WorkerKeeps DEF Commands!TakeCommand

\* The answer to the update that a worker is at.
LEMMA AnsweredFollows ==
  ASSUME CommandsInv, NEW w \in Commands!Workers, worker[w].pc \in {"asking", "confirmed"},
         Commands!Answered(w)
  PROVE  \E new \in WorkerRow :
           /\ worker' = [worker EXCEPT ![w] = new] /\ new.pc \in {"batch", "loop"}
           /\ Follows(new, handled', Len(sent)) /\ handled \subseteq handled'
<1>1. PICK step \in {"batch", "loop"} : Commands!Go(w, step)
  BY DEF Commands!Answered
<1>2. PICK new \in WorkerRow :
        /\ worker' = [worker EXCEPT ![w] = new] /\ new.pc = step /\ new.offset = worker[w].offset
        /\ new.next = worker[w].next /\ new.last = worker[w].last
  BY <1>1, Goes DEF Phases
<1>3. handled' = handled \cup {worker[w].next - 1}
  BY DEF Commands!Answered, Commands!Now
<1>4. /\ worker[w].next >= 2 /\ 1 .. worker[w].next - 2 \subseteq handled
      /\ worker[w].offset <= worker[w].next /\ worker[w].next <= worker[w].last + 1
      /\ worker[w].last <= Len(sent)
  BY WorkerOK DEF Follows
<1>5. 1 .. worker[w].next - 1 \subseteq handled'
  BY <1>3, <1>4, WorkerOK
<1>6. Follows(new, handled', Len(sent))
  BY <1>2, <1>4, <1>5, WorkerOK DEF Follows
<1> QED
  BY <1>2, <1>3, <1>6

LEMMA StepAsk == ASSUME CommandsInv, NEW w \in Commands!Workers, Commands!Ask(w) PROVE CommandsInv'
<1>1. PICK new \in WorkerRow :
        /\ worker' = [worker EXCEPT ![w] = new] /\ new.pc \in {"batch", "loop"}
        /\ Follows(new, handled', Len(sent)) /\ handled \subseteq handled'
  BY AnsweredFollows DEF Commands!Ask
<1>2. /\ UNCHANGED <<sent, acked, executed, cancelled>>
      /\ \/ created' = created + 1 /\ pending' = pending \cup {created + 1}
         \/ UNCHANGED <<created, pending>>
  BY DEF Commands!Ask
<1>3. HandledInv'
  BY <1>1, <1>2, WorkerOK, HandledKeeps DEF CommandsInv
<1>4. \A v \in Commands!Workers : worker'[v] = IF v = w THEN new ELSE worker[v]
  BY <1>1 DEF CommandsInv, HandledInv
<1>5. \A v \in Commands!Workers : worker'[v].pc = "confirmed" => worker'[v] = worker[v]
        /\ PressOf(worker'[v], sent') = PressOf(worker[v], sent)
  BY <1>1, <1>2, <1>4 DEF PressOf
<1>6. OnceInv'
  <2>0. created \in Nat /\ pending \subseteq 1 .. created
    BY DEF CommandsInv, OnceInv
  <2>1. created' \in Nat /\ created' >= created /\ pending' \subseteq 1 .. created'
    <3>1. created + 1 \in Nat /\ created + 1 >= created
          /\ pending \cup {created + 1} \subseteq 1 .. created + 1
      BY <2>0
    <3>2. created >= created
      BY <2>0
    <3> QED
      BY <1>2, <2>0, <3>1, <3>2
  <2>2. \A c \in Commands!Confirmations : c \in pending' => c \in pending \/ c > created
    BY <1>2 DEF CommandsInv, OnceInv
  <2>3. \A c \in Commands!Confirmations : c \in Nat
    BY DEF Commands!Confirmations
  <2>4. \A c \in Commands!Confirmations : c > created' => c > created
    BY <2>1, <2>3 DEF CommandsInv, OnceInv
  <2>5. \A c \in Commands!Confirmations : c <= created /\ c \notin pending => c <= created'
          /\ c \notin pending'
    BY <2>1, <2>2, <2>3 DEF CommandsInv, OnceInv
  <2>6. \A c \in Commands!Confirmations :
       /\ executed'[c] <= 1 /\ (c \in cancelled' => executed'[c] = 0)
       /\ c \in pending' \/ c > created' => executed'[c] = 0 /\ c \notin cancelled'
    BY <1>2, <2>2, <2>4 DEF CommandsInv, OnceInv
  <2>7. \A v \in Commands!Workers : worker'[v].pc = "confirmed" =>
       /\ PressOf(worker'[v], sent') \in Commands!Confirmations
          /\ PressOf(worker'[v], sent') <= created'
       /\ PressOf(worker'[v], sent') \notin pending' \cup cancelled'
          /\ executed'[PressOf(worker'[v], sent')] = 0
    BY <1>2, <1>5, <2>5 DEF CommandsInv, OnceInv
  <2>8. \A u, v \in Commands!Workers :
       worker'[u].pc = "confirmed" /\ worker'[v].pc = "confirmed"
           /\ PressOf(worker'[u], sent') = PressOf(worker'[v], sent')
         => u = v
    BY <1>5 DEF CommandsInv, OnceInv
  <2> QED
    BY <1>2, <2>1, <2>6, <2>7, <2>8 DEF CommandsInv, OnceInv
<1> QED
  BY <1>3, <1>6 DEF CommandsInv

\* The button that a worker takes is one of a confirmation.
LEMMA ButtonOf ==
  ASSUME CommandsInv, NEW w \in Commands!Workers, Commands!Takes(w, "confirm")
         \/ Commands!Takes(w, "cancel")
  PROVE  /\ worker[w].next \in 1 .. Len(sent) /\ Commands!Button(w) \in Commands!Confirmations
         /\ worker[w].pc = "batch" /\ worker[w].next <= worker[w].last
<1>1. worker[w].next \in 1 .. Len(sent)
  BY WorkerOK DEF Commands!Takes, Follows
<1>2. sent[worker[w].next] \in Commands!Update
  BY <1>1 DEF CommandsInv, HandledInv
<1>3. sent[worker[w].next][1] # "ask"
  BY DEF Commands!Takes
<1> QED
  BY <1>1, <1>2, <1>3, Update2 DEF Commands!Takes, Commands!Button

LEMMA StepCancel == ASSUME CommandsInv, NEW w \in Commands!Workers, Commands!Cancel(w)
      PROVE CommandsInv'
<1> DEFINE c == Commands!Button(w)
<1>1. /\ c \in Commands!Confirmations /\ worker[w].pc = "batch" /\ worker[w].next <= worker[w].last
  BY ButtonOf DEF Commands!Cancel
<1>2. /\ c \in pending /\ pending' = pending \ {c} /\ cancelled' = cancelled \cup {c}
      /\ UNCHANGED <<sent, acked, created, executed>>
  BY DEF Commands!Cancel
<1>3. PICK new \in WorkerRow : /\ worker' = [worker EXCEPT ![w] = new] /\ new.pc = "batch"
                               /\ Follows(new, handled', Len(sent))
  BY <1>1, TakenAndHandled DEF Commands!Cancel
<1> HIDE DEF c
<1>4. handled \subseteq handled'
  BY DEF Commands!Cancel
<1>5. HandledInv'
  BY <1>2, <1>3, <1>4, WorkerOK, HandledKeeps DEF CommandsInv
<1>6. \A v \in Commands!Workers : worker'[v] = IF v = w THEN new ELSE worker[v]
  BY <1>3 DEF CommandsInv, HandledInv
<1>7. \A v \in Commands!Workers : worker'[v].pc = "confirmed" => worker'[v] = worker[v]
        /\ PressOf(worker'[v], sent') = PressOf(worker[v], sent)
  BY <1>2, <1>3, <1>6 DEF PressOf
<1>8. OnceInv'
  <2>1. \A v \in Commands!Workers : worker'[v].pc = "confirmed" => PressOf(worker[v], sent) # c
    BY <1>2, <1>7 DEF CommandsInv, OnceInv
  <2> QED
    BY <1>1, <1>2, <1>7, <2>1 DEF CommandsInv, OnceInv
<1> QED
  BY <1>5, <1>8 DEF CommandsInv

LEMMA StepConfirm == ASSUME CommandsInv, NEW w \in Commands!Workers, Commands!Confirm(w)
      PROVE CommandsInv'
<1> DEFINE c == Commands!Button(w)
<1>1. /\ c \in Commands!Confirmations /\ worker[w].pc = "batch" /\ worker[w].next <= worker[w].last
      /\ worker[w].next \in 1 .. Len(sent)
  BY ButtonOf DEF Commands!Confirm
<1>2. /\ c \in pending /\ pending' = pending \ {c}
      /\ UNCHANGED <<sent, acked, created, handled, executed, cancelled>>
  BY DEF Commands!Confirm
<1>3. PICK new \in WorkerRow :
        /\ worker' = [worker EXCEPT ![w] = new] /\ new.pc = "confirmed"
        /\ new.offset = worker[w].next + 1
        /\ new.next = worker[w].next + 1 /\ new.last = worker[w].last
  BY Takes1 DEF Phases, Commands!Confirm
<1>4. PressOf(new, sent) = c
  BY <1>1, <1>3 DEF PressOf, Commands!Button
<1> HIDE DEF c
<1>5. Follows(new, handled, Len(sent))
  BY <1>1, <1>3, WorkerOK DEF Follows
<1>6. HandledInv'
  BY <1>2, <1>3, <1>5, WorkerOK, HandledKeeps DEF CommandsInv
<1>7. \A v \in Commands!Workers : worker'[v] = IF v = w THEN new ELSE worker[v]
  BY <1>3 DEF CommandsInv, HandledInv
<1>8. \A v \in Commands!Workers : PressOf(worker'[v], sent') = PressOf(worker'[v], sent)
  BY <1>2 DEF PressOf
<1>9. OnceInv'
  <2>0. created \in Nat /\ pending \subseteq 1 .. created
    BY DEF CommandsInv, OnceInv
  <2>1. executed[c] = 0 /\ c \notin cancelled /\ c <= created
    <3>1. executed[c] = 0 /\ c \notin cancelled
      BY <1>1, <1>2 DEF CommandsInv, OnceInv
    <3> QED
      BY <1>2, <2>0, <3>1
  <2>2. \A v \in Commands!Workers \ {w} : worker[v].pc = "confirmed" => PressOf(worker[v], sent) # c
    BY <1>2 DEF CommandsInv, OnceInv
  <2>3. \A v \in Commands!Workers : worker'[v].pc = "confirmed" =>
       /\ PressOf(worker'[v], sent') \in Commands!Confirmations
          /\ PressOf(worker'[v], sent') <= created'
       /\ PressOf(worker'[v], sent') \notin pending' \cup cancelled'
          /\ executed'[PressOf(worker'[v], sent')] = 0
    BY <1>1, <1>2, <1>4, <1>7, <1>8, <2>1 DEF CommandsInv, OnceInv
  <2>4. \A u, v \in Commands!Workers :
       worker'[u].pc = "confirmed" /\ worker'[v].pc = "confirmed"
           /\ PressOf(worker'[u], sent') = PressOf(worker'[v], sent')
         => u = v
    BY <1>4, <1>7, <1>8, <2>2 DEF CommandsInv, OnceInv
  <2> QED
    BY <1>2, <2>3, <2>4 DEF CommandsInv, OnceInv
<1> QED
  BY <1>6, <1>9 DEF CommandsInv

LEMMA StepExecute == ASSUME CommandsInv, NEW w \in Commands!Workers, Commands!Execute(w)
      PROVE CommandsInv'
<1> DEFINE c == PressOf(worker[w], sent)
<1>1. worker[w].pc = "confirmed"
  BY DEF Commands!Execute
<1>2. /\ executed' = executed \/ executed' = [executed EXCEPT ![c] = @ + 1]
      /\ pending' = pending \ {c} /\ UNCHANGED <<sent, acked, created, cancelled>>
  BY DEF Commands!Execute, PressOf, Commands!Now
<1>3. PICK new \in WorkerRow :
        /\ worker' = [worker EXCEPT ![w] = new] /\ new.pc \in {"batch", "loop"}
        /\ Follows(new, handled', Len(sent)) /\ handled \subseteq handled'
  BY <1>1, AnsweredFollows DEF Commands!Execute
<1>4. /\ c \in Commands!Confirmations /\ c <= created /\ c \notin pending \cup cancelled
          /\ executed[c] = 0
      /\ \A v \in Commands!Workers \ {w} : worker[v].pc = "confirmed"
         => PressOf(worker[v], sent) # c
  BY <1>1 DEF CommandsInv, OnceInv
<1> HIDE DEF c
<1>5. HandledInv'
  BY <1>2, <1>3, WorkerOK, HandledKeeps DEF CommandsInv
<1>6. \A v \in Commands!Workers : worker'[v] = IF v = w THEN new ELSE worker[v]
  BY <1>3 DEF CommandsInv, HandledInv
<1>7. \A v \in Commands!Workers : worker'[v].pc = "confirmed" =>
        v # w /\ worker'[v] = worker[v] /\ PressOf(worker'[v], sent') = PressOf(worker[v], sent)
  BY <1>2, <1>3, <1>6 DEF PressOf
<1>8. /\ executed' \in [Commands!Confirmations -> Nat] /\ executed'[c] <= 1
      /\ \A d \in Commands!Confirmations : d # c => executed'[d] = executed[d]
  BY <1>2, <1>4 DEF CommandsInv, OnceInv
<1>9. ~(c > created)
  BY <1>4 DEF CommandsInv, OnceInv, Commands!Confirmations
<1>10. OnceInv'
  <2>1. \A d \in Commands!Confirmations :
       /\ executed'[d] <= 1 /\ (d \in cancelled' => executed'[d] = 0)
       /\ d \in pending' \/ d > created' => executed'[d] = 0 /\ d \notin cancelled'
    BY <1>2, <1>4, <1>8, <1>9 DEF CommandsInv, OnceInv
  <2>2. \A v \in Commands!Workers : worker'[v].pc = "confirmed" =>
       /\ PressOf(worker'[v], sent') \in Commands!Confirmations
          /\ PressOf(worker'[v], sent') <= created'
       /\ PressOf(worker'[v], sent') \notin pending' \cup cancelled'
          /\ executed'[PressOf(worker'[v], sent')] = 0
    BY <1>2, <1>4, <1>7, <1>8 DEF CommandsInv, OnceInv
  <2>3. \A u, v \in Commands!Workers :
       worker'[u].pc = "confirmed" /\ worker'[v].pc = "confirmed"
           /\ PressOf(worker'[u], sent') = PressOf(worker'[v], sent')
         => u = v
    BY <1>7 DEF CommandsInv, OnceInv
  <2> QED
    BY <1>2, <1>8, <2>1, <2>2, <2>3 DEF CommandsInv, OnceInv
<1> QED
  BY <1>5, <1>10 DEF CommandsInv

-------------------------------------------------------------------------------
LEMMA StepSend == ASSUME CommandsInv, Commands!Send PROVE CommandsInv'
<1>1. PICK u \in Commands!Update : sent' = Append(sent, u)
  BY DEF Commands!Send
<1>2. UNCHANGED <<worker, acked, pending, created, handled, executed, cancelled>>
  BY DEF Commands!Send
<1>3. /\ sent' \in Seq(Commands!Update) /\ Len(sent') = Len(sent) + 1 /\ Len(sent) \in Nat
      /\ \A i \in 1 .. Len(sent) : sent'[i] = sent[i]
  BY <1>1 DEF CommandsInv, HandledInv
<1>4. HandledInv'
  <2>1. \A w \in Commands!Workers : Follows(worker[w], handled, Len(sent) + 1)
    BY <1>3, FollowsOn DEF CommandsInv, HandledInv
  <2> QED
    BY <1>2, <1>3, <2>1 DEF CommandsInv, HandledInv
<1>5. \A w \in Commands!Workers : worker[w].pc = "confirmed"
        => PressOf(worker'[w], sent') = PressOf(worker[w], sent)
  <2>1. \A w \in Commands!Workers : worker[w].pc = "confirmed"
          => worker[w].next - 1 \in 1 .. Len(sent)
    BY WorkerOK DEF Follows
  <2> QED
    BY <1>2, <1>3, <2>1 DEF PressOf
<1>6. OnceInv'
  BY <1>2, <1>5, OnceKeeps DEF CommandsInv
<1> QED
  BY <1>4, <1>6 DEF CommandsInv

LEMMA StepStop ==
  ASSUME CommandsInv, NEW q \in Requests, Commands!Edit(q) PROVE CommandsInv'
<1>1. UNCHANGED <<sent, acked, pending, created, handled, executed, cancelled>>
  BY DEF Commands!Edit
<1>2. CASE worker' = worker
  BY <1>1, <1>2 DEF CommandsInv, HandledInv, OnceInv, PressOf
<1>3. CASE current # 0 /\ worker' = [worker EXCEPT ![current].stop = TRUE]
  <2>1. ASSUME NEW v \in Commands!Workers
        PROVE  /\ Follows(worker'[v], handled, Len(sent)) /\ worker'[v].pc = worker[v].pc
               /\ worker'[v].next = worker[v].next
    <3>0. worker[v] \in WorkerRow /\ Follows(worker[v], handled, Len(sent))
      BY WorkerOK
    <3>1. CASE v # current
      BY <1>3, <3>0, <3>1 DEF CommandsInv, HandledInv
    <3>2. CASE v = current
      <4> DEFINE new == [worker[v] EXCEPT !.stop = TRUE]
      <4>1. worker'[v] = new
        BY <1>3, <3>2 DEF CommandsInv, HandledInv
      <4>2. /\ new \in WorkerRow /\ new.pc = worker[v].pc /\ new.offset = worker[v].offset
            /\ new.next = worker[v].next /\ new.last = worker[v].last
        BY <3>0 DEF WorkerRow
      <4> HIDE DEF new
      <4> QED
        BY <3>0, <4>1, <4>2 DEF Follows
    <3> QED
      BY <3>1, <3>2
  <2>2. worker' = [v \in Commands!Workers |-> worker'[v]]
    BY <1>3 DEF CommandsInv, HandledInv
  <2>3. HandledInv'
    BY <1>1, <2>1, <2>2 DEF CommandsInv, HandledInv
  <2>4. OnceInv'
    BY <1>1, <2>1, OnceKeeps DEF CommandsInv, PressOf
  <2> QED
    BY <2>3, <2>4 DEF CommandsInv
<1> QED
  BY <1>2, <1>3 DEF Commands!Edit

LEMMA StepStartWorker ==
  ASSUME CommandsInv, NEW q \in Requests, Commands!StartWorker(q) PROVE CommandsInv'
<1>1. UNCHANGED <<sent, acked, pending, created, handled, executed, cancelled>>
  BY DEF Commands!StartWorker
<1>2. CASE worker' = worker
  BY <1>1, <1>2 DEF CommandsInv, HandledInv, OnceInv, PressOf
<1>3. CASE \E w \in Commands!Workers : worker[w].pc = "none"
        /\ worker' = [worker EXCEPT ![w].pc = "loop"]
  <2>1. PICK w \in Commands!Workers : worker[w].pc = "none"
          /\ worker' = [worker EXCEPT ![w].pc = "loop"]
    BY <1>3
  <2>2. PICK new \in WorkerRow :
        /\ worker' = [worker EXCEPT ![w] = new] /\ new.pc = "loop" /\ new.offset = worker[w].offset
        /\ new.next = worker[w].next /\ new.last = worker[w].last
    BY <2>1, Goes DEF Phases, Commands!Go
  <2>3. worker[w].offset = 0
    BY <2>1, WorkerOK DEF Follows, Commands!Unused
  <2>4. Follows(new, handled, Len(sent))
    BY <2>2, <2>3, WorkerOK DEF Follows
  <2> QED
    BY <1>1, <2>2, <2>4, WorkerOK, WorkerKeeps
<1> QED
  BY <1>2, <1>3 DEF Commands!StartWorker

LEMMA StepRestart == ASSUME CommandsInv, Commands!Restart PROVE CommandsInv'
<1>1. UNCHANGED <<sent, acked, created, handled, executed, cancelled>> /\ pending' = {}
  BY DEF Commands!Restart
<1> DEFINE gone == [Commands!Unused EXCEPT !.pc = "gone"]
<1>2. gone \in WorkerRow /\ gone.pc = "gone" /\ gone.offset = 0
  BY DEF Commands!Unused, WorkerRow, Phases
<1>3. /\ worker' = [w \in Commands!Workers |-> worker'[w]]
      /\ \A w \in Commands!Workers : worker'[w] = Commands!Unused \/ worker'[w] = gone
  BY DEF Commands!Restart
<1> HIDE DEF gone
<1>4. Len(sent) \in Nat /\ Follows(gone, handled, Len(sent))
  BY <1>2 DEF Follows, CommandsInv, HandledInv
<1>5. \A w \in Commands!Workers : Follows(worker'[w], handled, Len(sent))
        /\ worker'[w].pc # "confirmed"
  BY <1>2, <1>3, <1>4, UnusedFollows
<1>6. HandledInv'
  BY <1>1, <1>3, <1>5 DEF CommandsInv, HandledInv
<1>7. OnceInv'
  BY <1>1, <1>5, OnceKeeps DEF CommandsInv
<1> QED
  BY <1>6, <1>7 DEF CommandsInv

LEMMA CommandsStep == CommandsInv /\ [Commands!Next]_Commands!vars => CommandsInv'
<1> SUFFICES ASSUME CommandsInv, [Commands!Next]_Commands!vars PROVE CommandsInv'
  OBVIOUS
<1>1. CASE Commands!Expire \/ UNCHANGED Commands!vars
  <2>1. UNCHANGED <<worker, sent, acked, created, handled, executed, cancelled>>
          /\ pending' \subseteq pending
    BY <1>1 DEF Commands!Expire, Commands!vars
  <2> QED
    BY <2>1, OnceKeeps DEF CommandsInv, HandledInv, PressOf
<1>2. ASSUME NEW q \in Requests, Commands!Edit(q) \/ Commands!StartWorker(q) PROVE CommandsInv'
  BY <1>2, StepStop, StepStartWorker
<1>3. ASSUME NEW w \in Commands!Workers,
             \/ Commands!Poll(w) \/ Commands!Receive(w) \/ Commands!PollFails(w)
                \/ Commands!BatchEnds(w) \/ Commands!Throws(w)
             \/ Commands!TakeCommand(w) \/ Commands!Ask(w) \/ Commands!Expired(w)
                \/ Commands!Cancel(w) \/ Commands!Confirm(w) \/ Commands!Execute(w)
      PROVE  CommandsInv'
  BY <1>3, StepPoll, StepReceive, StepPollFails, StepBatchEnds, StepDropped, StepTakeCommand,
     StepAsk,
     StepCancel, StepConfirm, StepExecute
<1> QED
  BY <1>1, <1>2, <1>3, StepSend, StepRestart DEF Commands!Next

LEMMA CommandsHold == CommandsInv => Commands!UpdatesSound
BY DEF CommandsInv, HandledInv, OnceInv, Commands!UpdatesSound, Commands!ConfirmedOnce,
   Commands!AckedWereHandled

(* A confirmation starts its command at most once and never when it was    *)
(* cancelled, and Telegram forgets no update that was not handled.         *)
THEOREM CommandsCorrect == Commands!Spec => []Commands!UpdatesSound
<1>1. Commands!Init => CommandsInv
  BY CommandsInit
<1>2. CommandsInv /\ [Commands!Next]_Commands!vars => CommandsInv'
  BY CommandsStep
<1>3. CommandsInv => Commands!UpdatesSound
  BY CommandsHold
<1> QED
  BY <1>1, <1>2, <1>3, PTL DEF Commands!Spec

--------------------------------------------------------------------------------
Scripting == INSTANCE Scripts WITH created <- lastScript

-------------------------------------------------------------------------------
(***************************************************************************)
(* Scripts.  The proof keeps that an override names a script that exists,  *)
(* or a built-in one that exists, and that the defaults of a scope are one *)
(* at most.  That a deletion spares what is used follows from the usages   *)
(* alone: what a system resolves is either counted, or excepted.           *)
(***************************************************************************)
ScriptRow == [scope : Scopes, default : BOOLEAN]

ScriptsTyped ==
  /\ script \in [Scripting!Ids -> ScriptRow \cup {None}]
  /\ lastScript \in 0 .. MaxScripts
  /\ override \in [Systems -> [Scopes -> Scripting!Ids \cup {Scripting!Shipped, None}]]

OneDefault == \A k \in Scopes : \A i, j \in Scripting!Defaults(k) : i = j

OverridesExist ==
  \A s \in Systems, k \in Scopes :
    /\ override[s][k] \in Scripting!Ids => script[override[s][k]] # None
    /\ override[s][k] = Scripting!Shipped => k \in Supplied

ScriptsInv == ScriptsTyped /\ OneDefault /\ OverridesExist

LEMMA ScriptsInit == ASSUME Scripting!ScriptsAssumption PROVE Scripting!Init => ScriptsInv
<1> SUFFICES ASSUME Scripting!Init PROVE ScriptsInv
  OBVIOUS
<1>1. ScriptsTyped
  BY DEF Scripting!Init, ScriptsTyped, Scripting!ScriptsAssumption, Scripting!Unassigned
<1>2. OneDefault
  BY DEF Scripting!Init, OneDefault, Scripting!Defaults, Scripting!Of
<1>3. OverridesExist
  BY DEF Scripting!Init, OverridesExist, Scripting!ScriptsAssumption, Scripting!Unassigned
<1> QED
  BY <1>1, <1>2, <1>3 DEF ScriptsInv

LEMMA ScriptRowIsThere == ASSUME Scripting!ScriptsAssumption PROVE None \notin ScriptRow
BY DEF Scripting!ScriptsAssumption, ScriptRow

\* Numbers of scripts are neither the built-in one nor none.
LEMMA IdsAreOwn ==
  ASSUME Scripting!ScriptsAssumption PROVE Scripting!Ids \subseteq Nat
         /\ Scripting!Shipped \notin Scripting!Ids
         /\ None \notin Scripting!Ids \cup {Scripting!Shipped}
BY DEF Scripting!ScriptsAssumption, Scripting!Ids, Scripting!Shipped

\* A script that is written is the only default of its scope, or none at all.
LEMMA WrittenKeeps ==
  ASSUME Scripting!ScriptsAssumption, ScriptsInv, NEW i \in Scripting!Ids, NEW k \in Scopes,
         NEW default \in BOOLEAN,
         script' = Scripting!Written(i, k, default), lastScript' \in 0 .. MaxScripts,
             UNCHANGED override
  PROVE  ScriptsInv' /\ \A j \in Scripting!Ids : script[j] # None => script'[j] # None
<1>1. /\ script' \in [Scripting!Ids -> ScriptRow \cup {None}]
      /\ \A j \in Scripting!Ids : script[j] # None => script'[j] # None
      /\ script'[i] = [scope |-> k, default |-> default]
      /\ \A j \in Scripting!Ids \ {i} :
           script'[j] = IF default /\ j \in Scripting!Of(k) THEN [scope |-> k, default |-> FALSE]
               ELSE script[j]
  <2>1. \A b \in BOOLEAN : [scope |-> k, default |-> b] \in ScriptRow
    BY DEF ScriptRow
  <2>2. script \in [Scripting!Ids -> ScriptRow \cup {None}]
    BY DEF ScriptsInv, ScriptsTyped
  <2> QED
    BY <2>1, <2>2, ScriptRowIsThere DEF Scripting!Written
<1>2. OneDefault'
  <2> SUFFICES ASSUME NEW z \in Scopes, NEW a \in Scripting!Defaults(z)',
                      NEW b \in Scripting!Defaults(z)' PROVE a = b
    BY DEF OneDefault
  <2>1. /\ a \in Scripting!Ids /\ script'[a] # None /\ script'[a].scope = z /\ script'[a].default
        /\ b \in Scripting!Ids /\ script'[b] # None /\ script'[b].scope = z /\ script'[b].default
    BY DEF Scripting!Defaults, Scripting!Of
  <2>2. ASSUME NEW c \in Scripting!Ids \ {i}, script'[c] # None, script'[c].scope = z,
        script'[c].default
        PROVE  c \in Scripting!Defaults(z) /\ (default => z # k)
    <3>1. ~ (default /\ c \in Scripting!Of(k))
      BY <1>1, <2>2
    <3> QED
      BY <1>1, <2>2, <3>1 DEF Scripting!Defaults, Scripting!Of
  <2>3. \A c, d \in Scripting!Defaults(z) : c = d
    BY DEF ScriptsInv, OneDefault
  <2>4. CASE a # i /\ b # i
    BY <2>1, <2>2, <2>3, <2>4
  <2>5. CASE a = i \/ b = i
    <3>1. z = k /\ default
      BY <1>1, <2>1, <2>5
    <3> QED
      BY <2>1, <2>2, <3>1
  <2> QED
    BY <2>4, <2>5
<1>3. OverridesExist'
  BY <1>1 DEF ScriptsInv, OverridesExist
<1> QED
  BY <1>1, <1>2, <1>3 DEF ScriptsInv, ScriptsTyped

\* Some scripts are deleted, and with them the overrides that name them.
LEMMA DeletedKeep ==
  ASSUME Scripting!ScriptsAssumption, ScriptsInv, NEW ids \in SUBSET Scripting!Ids,
         NEW scopes \in SUBSET Scopes,
         script' = [i \in Scripting!Ids |-> IF i \in ids THEN None ELSE script[i]],
         override' = Scripting!Without(ids, scopes), UNCHANGED lastScript
  PROVE  ScriptsInv'
<1>1. ScriptsTyped'
  BY DEF ScriptsInv, ScriptsTyped, Scripting!Without
<1>2. OneDefault'
  <2>1. \A k \in Scopes : Scripting!Defaults(k)' \subseteq Scripting!Defaults(k)
    BY DEF Scripting!Defaults, Scripting!Of
  <2> QED
    BY <2>1 DEF ScriptsInv, OneDefault
<1>3. OverridesExist'
  <2> SUFFICES ASSUME NEW s \in Systems, NEW k \in Scopes
               PROVE  /\ override'[s][k] \in Scripting!Ids => script'[override'[s][k]] # None
                      /\ override'[s][k] = Scripting!Shipped => k \in Supplied
    BY DEF OverridesExist
  <2>1. override'[s][k] =
          IF override[s][k] \in ids \/ k \in scopes THEN None ELSE override[s][k]
    BY DEF Scripting!Without
  <2> QED
    BY <2>1, IdsAreOwn DEF ScriptsInv, OverridesExist
<1> QED
  BY <1>1, <1>2, <1>3 DEF ScriptsInv

LEMMA StepOverride ==
  ASSUME Scripting!ScriptsAssumption, ScriptsInv, NEW s \in Systems, NEW k \in Scopes,
         Scripting!SetOverride(s, k) \/ Scripting!ReplaceOverrides(s)
  PROVE  ScriptsInv'
<1>1. OneDefault'
  BY DEF Scripting!SetOverride, Scripting!ReplaceOverrides, ScriptsInv, OneDefault,
     Scripting!Defaults, Scripting!Of
<1>2. ASSUME NEW z \in Scopes, NEW i \in Scripting!Assignable(z)
      PROVE  i \in Scripting!Ids \cup {Scripting!Shipped}
             /\ (i \in Scripting!Ids => script[i] # None)
             /\ (i = Scripting!Shipped => z \in Supplied)
  BY IdsAreOwn DEF Scripting!Assignable, Scripting!Of
<1>3. CASE Scripting!SetOverride(s, k)
  <2>1. PICK i \in Scripting!Assignable(k) \cup {None} : override' = [override EXCEPT ![s][k] = i]
    BY <1>3 DEF Scripting!SetOverride
  <2>2. script' = script /\ lastScript' = lastScript
    BY <1>3 DEF Scripting!SetOverride
  <2>3. ScriptsTyped'
    BY <1>2, <2>1, <2>2 DEF ScriptsInv, ScriptsTyped
  <2>4. OverridesExist'
    <3> SUFFICES ASSUME NEW r \in Systems, NEW z \in Scopes
                 PROVE  /\ override'[r][z] \in Scripting!Ids => script'[override'[r][z]] # None
                        /\ override'[r][z] = Scripting!Shipped => z \in Supplied
      BY DEF OverridesExist
    <3>1. override'[r][z] = IF r = s /\ z = k THEN i ELSE override[r][z]
      BY <2>1 DEF ScriptsInv, ScriptsTyped
    <3> QED
      BY <1>2, <2>2, <3>1, IdsAreOwn DEF ScriptsInv, OverridesExist
  <2> QED
    BY <1>1, <2>3, <2>4 DEF ScriptsInv
<1>4. CASE Scripting!ReplaceOverrides(s)
  <2>1. PICK z \in Scopes : \E i \in Scripting!Assignable(z) \cup {None} :
          override' = [override EXCEPT ![s] = [Scripting!Unassigned EXCEPT ![z] = i]]
    BY <1>4 DEF Scripting!ReplaceOverrides
  <2>2. PICK i \in Scripting!Assignable(z) \cup {None} :
          override' = [override EXCEPT ![s] = [Scripting!Unassigned EXCEPT ![z] = i]]
    BY <2>1
  <2>3. script' = script /\ lastScript' = lastScript
    BY <1>4 DEF Scripting!ReplaceOverrides
  <2>4. [Scripting!Unassigned EXCEPT ![z] = i] \in [Scopes -> Scripting!Ids \cup {Scripting!Shipped,
                                                                                  None}]
    BY <1>2 DEF Scripting!Unassigned
  <2>5. ScriptsTyped'
    BY <2>2, <2>3, <2>4 DEF ScriptsInv, ScriptsTyped
  <2>6. OverridesExist'
    <3> SUFFICES ASSUME NEW r \in Systems, NEW x \in Scopes
                 PROVE  /\ override'[r][x] \in Scripting!Ids => script'[override'[r][x]] # None
                        /\ override'[r][x] = Scripting!Shipped => x \in Supplied
      BY DEF OverridesExist
    <3>1. override'[r][x] = IF r # s THEN override[r][x] ELSE IF x = z THEN i ELSE None
      BY <2>2 DEF ScriptsInv, ScriptsTyped, Scripting!Unassigned
    <3> QED
      BY <1>2, <2>3, <3>1, IdsAreOwn DEF ScriptsInv, OverridesExist
  <2> QED
    BY <1>1, <2>5, <2>6 DEF ScriptsInv
<1> QED
  BY <1>3, <1>4

\* The other actions leave the scripts and the overrides alone.
LEMMA OthersKeep ==
  ASSUME ScriptsInv, UNCHANGED <<script, lastScript, override>> PROVE ScriptsInv'
BY DEF ScriptsInv, ScriptsTyped, OneDefault, OverridesExist, Scripting!Defaults, Scripting!Of

LEMMA StepCreate ==
  ASSUME Scripting!ScriptsAssumption, ScriptsInv, NEW k \in Scopes, NEW default \in BOOLEAN,
         lastScript < MaxScripts, lastScript' = lastScript + 1,
             script' = Scripting!Written(lastScript', k, default),
         UNCHANGED override
  PROVE  ScriptsInv' /\ \A j \in Scripting!Ids : script[j] # None => script'[j] # None
<1>1. lastScript + 1 \in Scripting!Ids /\ lastScript + 1 \in 0 .. MaxScripts
  BY DEF ScriptsInv, ScriptsTyped, Scripting!Ids, Scripting!ScriptsAssumption
<1> QED
  BY <1>1, WrittenKeeps

LEMMA StepImport ==
  ASSUME Scripting!ScriptsAssumption, ScriptsInv, NEW m \in Managers, Scripting!ImportManager(m)
  PROVE  ScriptsInv' /\ \A j \in Scripting!Ids : script[j] # None => script'[j] # None
<1>0. override' = override
  BY DEF Scripting!ImportManager
<1>1. CASE UNCHANGED <<script, lastScript>>
  BY <1>0, <1>1, OthersKeep
<1>2. CASE \E k \in Scripting!ScopesOf(m), default \in BOOLEAN :
             \/ \E i \in Scripting!Of(k) : script' = Scripting!Written(i, k, default)
                /\ UNCHANGED lastScript
             \/ /\ lastScript < MaxScripts
                /\ lastScript' = lastScript + 1
                /\ script' = Scripting!Written(lastScript', k, default)
  <2>1. PICK k \in Scripting!ScopesOf(m), default \in BOOLEAN :
             \/ \E i \in Scripting!Of(k) : script' = Scripting!Written(i, k, default)
                /\ UNCHANGED lastScript
             \/ /\ lastScript < MaxScripts
                /\ lastScript' = lastScript + 1
                /\ script' = Scripting!Written(lastScript', k, default)
    BY <1>2
  <2>2. k \in Scopes /\ Scripting!Of(k) \subseteq Scripting!Ids
    BY DEF Scripting!ScopesOf, Scripting!Of
  <2>3. CASE \E i \in Scripting!Of(k) : script' = Scripting!Written(i, k, default)
          /\ UNCHANGED lastScript
    <3>1. lastScript' \in 0 .. MaxScripts
      BY <2>3 DEF ScriptsInv, ScriptsTyped
    <3> QED
      BY <1>0, <2>2, <2>3, <3>1, WrittenKeeps
  <2>4. CASE lastScript < MaxScripts /\ lastScript' = lastScript + 1
          /\ script' = Scripting!Written(lastScript', k, default)
    BY <1>0, <2>2, <2>4, StepCreate
  <2> QED
    BY <2>1, <2>3, <2>4
<1> QED
  BY <1>1, <1>2 DEF Scripting!ImportManager

LEMMA StepDeleteScript ==
  ASSUME Scripting!ScriptsAssumption, ScriptsInv, NEW i \in Scripting!Ids,
         Scripting!DeleteScript(i) PROVE ScriptsInv'
<1>1. script' = [j \in Scripting!Ids |-> IF j \in {i} THEN None ELSE script[j]]
  BY DEF Scripting!DeleteScript, ScriptsInv, ScriptsTyped
<1>2. override' = Scripting!Without({i}, {}) /\ UNCHANGED lastScript
  BY DEF Scripting!DeleteScript
<1>3. {i} \in SUBSET Scripting!Ids /\ {} \in SUBSET Scopes
  OBVIOUS
<1> QED
  BY <1>1, <1>2, <1>3, DeletedKeep

LEMMA StepDeleteManager ==
  ASSUME Scripting!ScriptsAssumption, ScriptsInv, NEW m \in Managers, NEW withScripts \in BOOLEAN,
         Scripting!DeleteManager(m, withScripts)
  PROVE  ScriptsInv'
<1> DEFINE own == UNION {Scripting!Of(k) : k \in Scripting!ScopesOf(m)}
<1>1. own \subseteq Scripting!Ids /\ Scripting!ScopesOf(m) \subseteq Scopes
  BY DEF Scripting!Of, Scripting!ScopesOf
<1>2. /\ script' = [i \in Scripting!Ids |-> IF i \in own THEN None ELSE script[i]]
      /\ override' = Scripting!Without(own, Scripting!ScopesOf(m))
      /\ lastScript' = lastScript
  BY DEF Scripting!DeleteManager
<1> HIDE DEF own
<1> QED
  BY <1>1, <1>2, DeletedKeep

LEMMA ScriptsStep ==
  ASSUME Scripting!ScriptsAssumption PROVE ScriptsInv /\ [Scripting!Next]_Scripting!vars
         => ScriptsInv'
<1> SUFFICES ASSUME ScriptsInv, [Scripting!Next]_Scripting!vars PROVE ScriptsInv'
  OBVIOUS
<1>1. ASSUME NEW k \in Scopes, NEW default \in BOOLEAN, Scripting!CreateScript(k, default)
             PROVE ScriptsInv'
  BY <1>1, StepCreate DEF Scripting!CreateScript
<1>2. ASSUME NEW i \in Scripting!Ids, Scripting!DeleteScript(i) PROVE ScriptsInv'
  BY <1>2, StepDeleteScript
<1>3. ASSUME NEW i \in Scripting!Ids, NEW k \in Scopes, NEW default \in BOOLEAN,
      Scripting!UpdateScript(i, k, default)
      PROVE  ScriptsInv'
  <2>1. lastScript' \in 0 .. MaxScripts
    BY <1>3 DEF Scripting!UpdateScript, ScriptsInv, ScriptsTyped
  <2> QED
    BY <1>3, <2>1, WrittenKeeps DEF Scripting!UpdateScript
<1>4. ASSUME NEW m \in Managers, Scripting!CreateManager(m) PROVE ScriptsInv'
  BY <1>4, OthersKeep DEF Scripting!CreateManager
<1>5. ASSUME NEW m \in Managers, Scripting!ImportManager(m) PROVE ScriptsInv'
  BY <1>5, StepImport
<1>6. ASSUME NEW m \in Managers, NEW withScripts \in BOOLEAN,
      Scripting!DeleteManager(m, withScripts)
      PROVE  ScriptsInv'
  BY <1>6, StepDeleteManager
<1>7. ASSUME NEW s \in Systems, Scripting!ReplaceOverrides(s) PROVE ScriptsInv'
  BY <1>7, StepOverride DEF Scripting!ReplaceOverrides
<1>8. ASSUME NEW s \in Systems, NEW k \in Scopes, Scripting!SetOverride(s, k) PROVE ScriptsInv'
  BY <1>8, StepOverride
<1>9. ASSUME NEW s \in Systems, Scripting!EditDetected(s) \/ Scripting!StartDetection(s)
      \/ Scripting!EndDetection(s)
      PROVE  ScriptsInv'
  BY <1>9, OthersKeep DEF Scripting!EditDetected, Scripting!StartDetection, Scripting!EndDetection
<1>10. ASSUME NEW s \in Systems, NEW m \in Managers, Scripting!SwitchManager(s, m)
       \/ Scripting!Detect(s, m)
       PROVE  ScriptsInv'
  BY <1>10, OthersKeep DEF Scripting!SwitchManager, Scripting!Detect
<1>11. CASE UNCHANGED Scripting!vars
  BY <1>11, OthersKeep DEF Scripting!vars
<1> QED
  BY <1>1, <1>2, <1>3, <1>4, <1>5, <1>6, <1>7, <1>8, <1>9, <1>10, <1>11 DEF Scripting!Next

LEMMA ScriptsAreSound == ScriptsInv => Scripting!ScriptsSound
BY DEF ScriptsInv, OneDefault, OverridesExist, Scripting!ScriptsSound

-------------------------------------------------------------------------------
\* The first of some scripts is still the first when another one is gone.
LEMMA FirstStays ==
  ASSUME Scripting!ScriptsAssumption, NEW ids \in SUBSET Scripting!Ids, ids # {}, NEW i,
         i # Scripting!First(ids)
  PROVE  Scripting!First(ids) \in ids \ {i} /\ Scripting!First(ids \ {i}) = Scripting!First(ids)
<1>1. \E x \in ids : \A y \in ids : x <= y
  BY IdsAreOwn, HasLeast
<1>2. Scripting!First(ids) \in ids /\ \A y \in ids : Scripting!First(ids) <= y
  BY <1>1 DEF Scripting!First
<1>3. \A x \in ids \ {i} : (\A y \in ids \ {i} : x <= y) => x = Scripting!First(ids)
  BY <1>2, IdsAreOwn
<1>4. Scripting!First(ids) \in ids \ {i} /\ \A y \in ids \ {i} : Scripting!First(ids) <= y
  BY <1>2
<1> QED
  BY <1>3, <1>4 DEF Scripting!First

\* What a scope runs hangs on its scripts and on the override only.
LEMMA SameScopeSameScript ==
  ASSUME NEW s \in Systems, NEW k \in Scopes, Scripting!Of(k)' = Scripting!Of(k),
         Scripting!Defaults(k)' = Scripting!Defaults(k),
         override'[s][k] = override[s][k]
  PROVE  Scripting!Resolve(s, k)' = Scripting!Resolve(s, k)
<1>1. Scripting!Assignable(k)' = Scripting!Assignable(k)
  BY DEF Scripting!Assignable
<1>2. Scripting!Standard(k)' = Scripting!Standard(k)
  BY DEF Scripting!Standard
<1> QED
  BY <1>1, <1>2 DEF Scripting!Resolve

LEMMA ReliedCounts == ASSUME NEW s \in Systems, NEW k \in Scopes PROVE Scripting!Relied(s, k)
      => Scripting!Counts(s, k)
BY DEF Scripting!Relied, Scripting!Counts, Scripting!Active

LEMMA DeleteScriptSpares ==
  ASSUME Scripting!ScriptsAssumption, ScriptsInv, NEW i \in Scripting!Ids,
         Scripting!DeleteScript(i),
         NEW s \in Systems, NEW k \in Scopes, Scripting!Relied(s, k), ~Scripting!Stale(s, k),
             ~Scripting!Fallback(k)
  PROVE  Scripting!Resolve(s, k)' = Scripting!Resolve(s, k)
<1>1. /\ script[i] # None
      /\ script' = [j \in Scripting!Ids |-> IF j = i THEN None ELSE script[j]]
      /\ override' = Scripting!Without({i}, {})
  BY DEF Scripting!DeleteScript, ScriptsInv, ScriptsTyped
<1>2. ~Scripting!UsedByOverride(i) /\ ~Scripting!UsedByDefault(i)
  BY DEF Scripting!DeleteScript, Scripting!Used
<1>3. Scripting!Counts(s, k)
  BY ReliedCounts
<1>4. override[s][k] # i
  BY <1>2, <1>3 DEF Scripting!UsedByOverride
<1>5. override'[s][k] = override[s][k]
  BY <1>1, <1>4 DEF Scripting!Without
<1>6. Scripting!Of(k)' = Scripting!Of(k) \ {i}
        /\ Scripting!Defaults(k)' = Scripting!Defaults(k) \ {i}
  BY <1>1 DEF Scripting!Of, Scripting!Defaults
<1>7. CASE i \notin Scripting!Of(k)
  <2>1. i \notin Scripting!Defaults(k)
    BY <1>7 DEF Scripting!Defaults
  <2> QED
    BY <1>5, <1>6, <1>7, <2>1, SameScopeSameScript
<1>8. CASE i \in Scripting!Of(k)
  <2>1. script[i].scope = k
    BY <1>8 DEF Scripting!Of
  <2>2. Scripting!Assignable(k)' = Scripting!Assignable(k) \ {i}
    BY <1>6, IdsAreOwn DEF Scripting!Assignable
  <2>3. CASE override[s][k] \in Scripting!Assignable(k)
    <3>1. override[s][k] \in Scripting!Assignable(k)'
      BY <1>4, <2>2, <2>3
    <3> QED
      BY <1>5, <2>3, <3>1 DEF Scripting!Resolve
  <2>4. CASE override[s][k] \notin Scripting!Assignable(k)
    <3>1. override[s][k] \in Scripting!Ids \cup {Scripting!Shipped, None}
      BY DEF ScriptsInv, ScriptsTyped
    <3>2. override[s][k] \notin Scripting!Ids
      BY <2>4 DEF Scripting!Stale, Scripting!Assignable
    <3>3. override[s][k] # Scripting!Shipped
      BY <2>4 DEF ScriptsInv, OverridesExist, Scripting!Assignable
    <3>4. ~Scripting!IsStandard(i)
      BY <1>2, <1>3, <2>1, <3>1, <3>2, <3>3 DEF Scripting!UsedByDefault
    <3>5. i \notin Scripting!Defaults(k)
      BY <3>4 DEF Scripting!IsStandard, Scripting!Defaults
    <3>6. Scripting!Standard(k)' = Scripting!Standard(k)
      <4>1. Scripting!Defaults(k)' = Scripting!Defaults(k)
        BY <1>6, <3>5
      <4>2. CASE Scripting!Defaults(k) # {} \/ k \in Supplied
        BY <4>1, <4>2 DEF Scripting!Standard
      <4>3. CASE Scripting!Defaults(k) = {} /\ k \notin Supplied
        <5>1. i # Scripting!First(Scripting!Of(k))
          BY <2>1, <3>4, <4>3 DEF Scripting!Fallback, Scripting!IsStandard
        <5>2. Scripting!Of(k) \subseteq Scripting!Ids /\ Scripting!Of(k) # {}
          BY <1>8 DEF Scripting!Of
        <5>3. Scripting!First(Scripting!Of(k)) \in Scripting!Of(k)'
                /\ Scripting!First(Scripting!Of(k)') = Scripting!First(Scripting!Of(k))
          BY <1>6, <5>1, <5>2, FirstStays
        <5>4. Scripting!Standard(k) = Scripting!First(Scripting!Of(k))
          BY <4>3, <5>2 DEF Scripting!Standard
        <5>5. Scripting!Standard(k)' = Scripting!First(Scripting!Of(k)')
          BY <4>1, <4>3, <5>3 DEF Scripting!Standard, Scripting!First
        <5> QED
          BY <5>3, <5>4, <5>5
      <4> QED
        BY <4>2, <4>3
    <3>7. override[s][k] \notin Scripting!Assignable(k)'
      BY <2>2, <2>4
    <3> QED
      BY <1>5, <2>4, <3>6, <3>7 DEF Scripting!Resolve
  <2> QED
    BY <2>3, <2>4
<1> QED
  BY <1>7, <1>8

LEMMA DeleteManagerSpares ==
  ASSUME Scripting!ScriptsAssumption, ScriptsInv, NEW m \in Managers, NEW withScripts \in BOOLEAN,
         Scripting!DeleteManager(m, withScripts),
         NEW s \in Systems, NEW k \in Scopes, Scripting!Relied(s, k), ~Scripting!Stale(s, k)
  PROVE  Scripting!Resolve(s, k)' = Scripting!Resolve(s, k)
<1> DEFINE own == UNION {Scripting!Of(z) : z \in Scripting!ScopesOf(m)}
<1>1. /\ script' = [i \in Scripting!Ids |-> IF i \in own THEN None ELSE script[i]]
      /\ override' = Scripting!Without(own, Scripting!ScopesOf(m))
      /\ ~Scripting!Active(s, m)
  BY DEF Scripting!DeleteManager
<1>2. \A i : i \in own <=> i \in Scripting!Ids /\ script[i] # None
        /\ script[i].scope \in Scripting!ScopesOf(m)
  BY DEF Scripting!Of
<1> HIDE DEF own
<1>3. k \notin Scripting!ScopesOf(m)
  <2>1. m # None
    BY DEF Scripting!ScriptsAssumption
  <2>2. ManagerOf[k] # m
    BY <1>1, <2>1 DEF Scripting!Relied, Scripting!Active
  <2> QED
    BY <2>2 DEF Scripting!ScopesOf
<1>4. Scripting!Of(k)' = Scripting!Of(k)
  BY <1>1, <1>2, <1>3 DEF Scripting!Of
<1>5. Scripting!Defaults(k)' = Scripting!Defaults(k)
  BY <1>1, <1>2, <1>3, <1>4 DEF Scripting!Defaults, Scripting!Of
<1>6. override[s][k] \notin own
  BY <1>2, <1>3 DEF Scripting!Stale, Scripting!Of
<1>7. override'[s][k] = override[s][k]
  BY <1>1, <1>3, <1>6 DEF Scripting!Without
<1> QED
  BY <1>4, <1>5, <1>7, SameScopeSameScript

LEMMA ScriptsSpare ==
  ASSUME Scripting!ScriptsAssumption PROVE ScriptsInv /\ [Scripting!Next]_Scripting!vars
         => Scripting!SparesUsed
<1> SUFFICES ASSUME ScriptsInv, [Scripting!Next]_Scripting!vars, NEW s \in Systems,
                    NEW k \in Scopes, Scripting!Gone # {},
                    Scripting!Relied(s, k), ~Scripting!Stale(s, k), ~Scripting!Fallback(k)
             PROVE  Scripting!Resolve(s, k)' = Scripting!Resolve(s, k)
  BY DEF Scripting!SparesUsed
<1>1. PICK g \in Scripting!Ids : script[g] # None /\ script'[g] = None
  BY DEF Scripting!Gone
<1>2. script' # script
  BY <1>1
<1>3. ASSUME NEW i \in Scripting!Ids, Scripting!DeleteScript(i)
             PROVE Scripting!Resolve(s, k)' = Scripting!Resolve(s, k)
  BY <1>3, DeleteScriptSpares
<1>4. ASSUME NEW m \in Managers, NEW withScripts \in BOOLEAN,
      Scripting!DeleteManager(m, withScripts)
      PROVE  Scripting!Resolve(s, k)' = Scripting!Resolve(s, k)
  BY <1>4, DeleteManagerSpares
<1>5. ASSUME NEW z \in Scopes, NEW default \in BOOLEAN, Scripting!CreateScript(z, default)
             PROVE FALSE
  BY <1>1, <1>5, StepCreate DEF Scripting!CreateScript
<1>6. ASSUME NEW i \in Scripting!Ids, NEW z \in Scopes, NEW default \in BOOLEAN,
      Scripting!UpdateScript(i, z, default)
      PROVE  FALSE
  <2>1. lastScript' \in 0 .. MaxScripts
    BY <1>6 DEF Scripting!UpdateScript, ScriptsInv, ScriptsTyped
  <2> QED
    BY <1>1, <1>6, <2>1, WrittenKeeps DEF Scripting!UpdateScript
<1>7. ASSUME NEW m \in Managers, Scripting!ImportManager(m) PROVE FALSE
  BY <1>1, <1>7, StepImport
<1>9. ASSUME NEW m \in Managers, Scripting!CreateManager(m) PROVE FALSE
  BY <1>2, <1>9 DEF Scripting!CreateManager
<1>10. ASSUME NEW r \in Systems,
              \/ Scripting!ReplaceOverrides(r) \/ Scripting!EditDetected(r)
                 \/ Scripting!StartDetection(r) \/ Scripting!EndDetection(r)
       PROVE  FALSE
  BY <1>2, <1>10 DEF Scripting!ReplaceOverrides, Scripting!EditDetected, Scripting!StartDetection,
     Scripting!EndDetection
<1>11. ASSUME NEW r \in Systems, NEW z \in Scopes, Scripting!SetOverride(r, z) PROVE FALSE
  BY <1>2, <1>11 DEF Scripting!SetOverride
<1>12. ASSUME NEW r \in Systems, NEW m \in Managers, Scripting!SwitchManager(r, m)
       \/ Scripting!Detect(r, m)
       PROVE  FALSE
  BY <1>2, <1>12 DEF Scripting!SwitchManager, Scripting!Detect
<1>13. CASE UNCHANGED Scripting!vars
  BY <1>2, <1>13 DEF Scripting!vars
<1> QED
  BY <1>3, <1>4, <1>5, <1>6, <1>7, <1>9, <1>10, <1>11, <1>12, <1>13 DEF Scripting!Next

(* An operation has at most one default among the custom scripts, and an   *)
(* override names a script that exists.                                    *)
THEOREM ScriptsCorrect == ASSUME Scripting!ScriptsAssumption PROVE Scripting!Spec
        => []Scripting!ScriptsSound
<1>1. Scripting!Init => ScriptsInv
  BY ScriptsInit
<1>2. ScriptsInv /\ [Scripting!Next]_Scripting!vars => ScriptsInv'
  BY ScriptsStep
<1>3. ScriptsInv => Scripting!ScriptsSound
  BY ScriptsAreSound
<1> QED
  BY <1>1, <1>2, <1>3, PTL DEF Scripting!Spec

--------------------------------------------------------------------------------
Planning == INSTANCE Schedules WITH Absent <- None

-------------------------------------------------------------------------------
\* Only digests have channels.
DigestsDeliver ==
  \A s \in Schedules :
    schedule[s] # None /\ schedule[s].type # "digest" => schedule[s].channels = {}

SchedulesInv == Planning!TypeOK /\ DigestsDeliver /\ Planning!SchedulesSound

\* The timers of a table whose rows name channels that exist.
LEMMA TimersAnew ==
  ASSUME Planning!SchedulesAssumption, NEW base \in [Schedules -> Planning!Row \cup {None}],
         NEW existing,
         \A s \in Schedules : base[s] # None => base[s].channels \subseteq existing
  PROVE  /\ Planning!TimersOf(base) \in [Schedules -> Planning!Row \cup {None}]
         /\ \A s \in Schedules :
              Planning!TimersOf(base)[s] =
                IF Planning!TimersOf(base)[s] = None THEN None
                ELSE [Planning!TimersOf(base)[s] EXCEPT !.channels = @ \cap existing]
<1>1. Planning!TimersOf(base) \in [Schedules -> Planning!Row \cup {None}]
  BY DEF Planning!TimersOf
<1>2. ASSUME NEW s \in Schedules, Planning!TimersOf(base)[s] # None
      PROVE  Planning!TimersOf(base)[s] = [Planning!TimersOf(base)[s] EXCEPT !.channels = @ \cap existing]
  <2>1. Planning!TimersOf(base)[s] = base[s] /\ base[s] \in Planning!Row
    BY <1>2 DEF Planning!TimersOf
  <2>2. base[s].channels \cap existing = base[s].channels
    BY <1>2, <2>1, Planning!SchedulesAssumption
  <2>3. base[s] = [base[s] EXCEPT !.channels = base[s].channels]
    BY <2>1 DEF Planning!Row
  <2> QED
    BY <2>1, <2>2, <2>3
<1> QED
  BY <1>1, <1>2

LEMMA SchedulesInit == ASSUME Planning!SchedulesAssumption PROVE Planning!Init => SchedulesInv
<1> SUFFICES ASSUME Planning!Init PROVE SchedulesInv
  OBVIOUS
<1>1. PICK s \in Schedules :
        schedule = [d \in Schedules |->
          IF d = s THEN [type |-> "refresh", enabled |-> TRUE, systems |-> None, channels |-> {}]
          ELSE None]
  BY DEF Planning!Init
<1>2. [type |-> "refresh", enabled |-> TRUE, systems |-> None, channels |-> {}] \in Planning!Row
  BY DEF Planning!Row, Planning!Types
<1>3. schedule \in [Schedules -> Planning!Row \cup {None}]
  BY <1>1, <1>2
<1>4. \A d \in Schedules : schedule[d] # None => schedule[d].channels = {}
  BY <1>1
<1>5. timers = Planning!TimersOf(schedule)
  BY DEF Planning!Init
<1>6. timers \in [Schedules -> Planning!Row \cup {None}] /\ Planning!TimersMatchRows
  BY <1>3, <1>4, <1>5, TimersAnew DEF Planning!TimersMatchRows
<1>7. Planning!TypeOK
  <2>1. last \in [Schedules -> Planning!Statuses \cup {None}] /\ boot \in BOOLEAN
        /\ runs \in [Schedules \X Copies -> Planning!Run \cup {None}] /\ outdated \subseteq Systems
    BY DEF Planning!Init
  <2>2. systems \subseteq Systems /\ channels \subseteq Channels
    BY DEF Planning!Init
  <2>3. changes \in 0 .. MaxChanges
    BY DEF Planning!Init, Planning!SchedulesAssumption
  <2> QED
    BY <1>3, <1>6, <2>1, <2>2, <2>3 DEF Planning!TypeOK
<1> QED
  BY <1>4, <1>6, <1>7 DEF SchedulesInv, DigestsDeliver, Planning!SchedulesSound,
     Planning!TargetsExist

\* An edit after which the scheduler is restarted.
LEMMA Restarted ==
  ASSUME Planning!SchedulesAssumption, SchedulesInv, Planning!Change, Planning!Restart(schedule'),
         schedule' \in [Schedules -> Planning!Row \cup {None}],
             last' \in [Schedules -> Planning!Statuses \cup {None}],
         \A s \in Schedules : schedule'[s] # None =>
           /\ schedule'[s].channels \subseteq channels
           /\ schedule'[s].type # "digest" => schedule'[s].channels = {},
         UNCHANGED <<systems, channels, outdated, runs>>
  PROVE  SchedulesInv'
<1>1. timers' = Planning!TimersOf(schedule')
  BY DEF Planning!Restart
<1>2. timers' \in [Schedules -> Planning!Row \cup {None}] /\ Planning!TimersMatchRows'
  BY <1>1, TimersAnew DEF Planning!TimersMatchRows
<1>3. changes' \in 0 .. MaxChanges
  BY DEF Planning!Change, SchedulesInv, Planning!TypeOK, Planning!SchedulesAssumption
<1>4. Planning!TypeOK'
  BY <1>2, <1>3 DEF SchedulesInv, Planning!TypeOK, Planning!Restart
<1> QED
  BY <1>2, <1>4 DEF SchedulesInv, DigestsDeliver, Planning!SchedulesSound, Planning!TargetsExist

LEMMA RowSaved ==
  ASSUME Planning!SchedulesAssumption, SchedulesInv, NEW s \in Schedules, NEW new \in Planning!Row,
         Planning!CreateSchedule(s, new) \/ Planning!UpdateSchedule(s, new)
  PROVE  SchedulesInv'
<1>1. /\ Planning!Change /\ Planning!Valid(new) /\ Planning!Restart(schedule')
      /\ schedule' = [schedule EXCEPT ![s] = new]
      /\ UNCHANGED <<last, systems, channels, outdated, runs>>
  BY DEF Planning!CreateSchedule, Planning!UpdateSchedule
<1>2. new.channels \subseteq channels /\ (new.type # "digest" => new.channels = {})
  BY <1>1 DEF Planning!Valid
<1>3. schedule' \in [Schedules -> Planning!Row \cup {None}]
        /\ last' \in [Schedules -> Planning!Statuses \cup {None}]
  BY <1>1 DEF SchedulesInv, Planning!TypeOK
<1>4. ASSUME NEW d \in Schedules, schedule'[d] # None
      PROVE  /\ schedule'[d].channels \subseteq channels
             /\ schedule'[d].type # "digest" => schedule'[d].channels = {}
  BY <1>1, <1>2, <1>4 DEF SchedulesInv, Planning!TypeOK, DigestsDeliver, Planning!SchedulesSound,
     Planning!TargetsExist
<1> QED
  BY <1>1, <1>3, <1>4, Restarted

LEMMA RowDeleted ==
  ASSUME Planning!SchedulesAssumption, SchedulesInv, NEW s \in Schedules,
         Planning!DeleteSchedule(s) PROVE SchedulesInv'
<1>1. /\ Planning!Change /\ Planning!Restart(schedule')
      /\ schedule' = [schedule EXCEPT ![s] = None] /\ last' = [last EXCEPT ![s] = None]
      /\ UNCHANGED <<systems, channels, outdated, runs>>
  BY DEF Planning!DeleteSchedule
<1>2. schedule' \in [Schedules -> Planning!Row \cup {None}]
        /\ last' \in [Schedules -> Planning!Statuses \cup {None}]
  BY <1>1 DEF SchedulesInv, Planning!TypeOK
<1>3. ASSUME NEW d \in Schedules, schedule'[d] # None
      PROVE  /\ schedule'[d].channels \subseteq channels
             /\ schedule'[d].type # "digest" => schedule'[d].channels = {}
  BY <1>1, <1>3 DEF SchedulesInv, Planning!TypeOK, DigestsDeliver, Planning!SchedulesSound,
     Planning!TargetsExist
<1> QED
  BY <1>1, <1>2, <1>3, Restarted

\* What an assignment of a channel makes of each row.
LEMMA AssignedRows ==
  ASSUME Planning!SchedulesAssumption, SchedulesInv, NEW c \in Channels, NEW to,
         schedule' = Planning!Assigned(c, to)
  PROVE  /\ schedule' \in [Schedules -> Planning!Row \cup {None}]
         /\ \A s \in Schedules : schedule'[s] = None <=> schedule[s] = None
         /\ \A s \in Schedules : schedule[s] # None =>
              /\ schedule'[s].type = schedule[s].type /\ schedule'[s].enabled = schedule[s].enabled
              /\ schedule'[s].systems = schedule[s].systems
              /\ schedule'[s].channels = IF schedule[s].type # "digest" THEN {}
                                         ELSE IF s \in to THEN schedule[s].channels \cup {c}
                                         ELSE schedule[s].channels \ {c}
<1>1. ASSUME NEW s \in Schedules, schedule[s] # None
      PROVE  LET new == Planning!Assigned(c, to)[s] IN
             /\ new \in Planning!Row
             /\ new.type = schedule[s].type /\ new.enabled = schedule[s].enabled
             /\ new.systems = schedule[s].systems
             /\ new.channels = IF new.type # "digest" THEN {}
                               ELSE IF s \in to THEN schedule[s].channels \cup {c}
                               ELSE schedule[s].channels \ {c}
  <2>1. schedule[s] \in Planning!Row
    BY <1>1 DEF SchedulesInv, Planning!TypeOK
  <2>2. CASE schedule[s].type # "digest"
    <3>1. Planning!Assigned(c, to)[s] = schedule[s]
      BY <2>2 DEF Planning!Assigned
    <3>2. schedule[s].channels = {}
      BY <1>1, <2>2 DEF SchedulesInv, DigestsDeliver
    <3> QED
      BY <2>1, <2>2, <3>1, <3>2
  <2>3. CASE schedule[s].type = "digest"
    <3>1. Planning!Assigned(c, to)[s] =
            [schedule[s] EXCEPT !.channels = IF s \in to THEN schedule[s].channels \cup {c}
                                             ELSE schedule[s].channels \ {c}]
      BY <1>1, <2>3 DEF Planning!Assigned
    <3> QED
      BY <2>1, <2>3, <3>1 DEF Planning!Row
  <2> QED
    BY <2>2, <2>3
<1>2. \A s \in Schedules : schedule[s] = None => Planning!Assigned(c, to)[s] = None
  BY DEF Planning!Assigned
<1>3. \A s \in Schedules : Planning!Assigned(c, to)[s] \in Planning!Row \cup {None}
  BY <1>1, <1>2
<1>4. Planning!Assigned(c, to) \in [Schedules -> Planning!Row \cup {None}]
  BY <1>3 DEF Planning!Assigned
<1> QED
  BY <1>1, <1>2, <1>4 DEF Planning!SchedulesAssumption

\* The same of one row, as the proofs below use it.
LEMMA AssignedRow ==
  ASSUME Planning!SchedulesAssumption, SchedulesInv, NEW c \in Channels, NEW to,
         schedule' = Planning!Assigned(c, to),
         NEW s \in Schedules, schedule'[s] # None
  PROVE  /\ schedule[s] # None /\ schedule'[s] \in Planning!Row
         /\ schedule'[s].type = schedule[s].type /\ schedule'[s].enabled = schedule[s].enabled
         /\ schedule'[s].systems = schedule[s].systems
         /\ schedule[s].type # "digest" => schedule'[s].channels = {}
         /\ schedule[s].type = "digest" /\ s \in to =>
              schedule'[s].channels = schedule[s].channels \cup {c}
         /\ schedule[s].type = "digest" /\ s \notin to =>
              schedule'[s].channels = schedule[s].channels \ {c}
<1>1. schedule[s] # None /\ schedule'[s] \in Planning!Row
  BY AssignedRows
<1>2. /\ schedule'[s].type = schedule[s].type /\ schedule'[s].enabled = schedule[s].enabled
      /\ schedule'[s].systems = schedule[s].systems
      /\ schedule'[s].channels = IF schedule[s].type # "digest" THEN {}
                                 ELSE IF s \in to THEN schedule[s].channels \cup {c}
                                 ELSE schedule[s].channels \ {c}
  BY <1>1, AssignedRows
<1> QED
  BY <1>1, <1>2

LEMMA ChannelAssigned ==
  ASSUME Planning!SchedulesAssumption, SchedulesInv, NEW c \in Channels, NEW to,
         Planning!AssignSchedules(c, to)
  PROVE  SchedulesInv'
<1>1. /\ Planning!Change /\ Planning!Restart(schedule') /\ c \in channels
      /\ schedule' = Planning!Assigned(c, to)
      /\ UNCHANGED <<last, systems, channels, outdated, runs>>
  BY DEF Planning!AssignSchedules
<1>2. schedule' \in [Schedules -> Planning!Row \cup {None}]
        /\ last' \in [Schedules -> Planning!Statuses \cup {None}]
  BY <1>1, AssignedRows DEF SchedulesInv, Planning!TypeOK
<1>3. ASSUME NEW d \in Schedules, schedule'[d] # None
      PROVE  /\ schedule'[d].channels \subseteq channels
             /\ schedule'[d].type # "digest" => schedule'[d].channels = {}
  <2>1. schedule[d] # None /\ schedule[d].channels \subseteq channels
    BY <1>1, <1>3, AssignedRows DEF SchedulesInv, Planning!SchedulesSound, Planning!TargetsExist
  <2> QED
    BY <1>1, <1>3, <2>1, AssignedRow
<1> QED
  BY <1>1, <1>2, <1>3, Restarted

(* A deleted channel leaves the rows at once and the timers as they were.  *)
LEMMA ChannelDeleted ==
  ASSUME Planning!SchedulesAssumption, SchedulesInv, NEW c \in Channels, Planning!DeleteChannel(c)
         PROVE SchedulesInv'
<1>1. /\ schedule' = Planning!Assigned(c, {}) /\ channels' = channels \ {c} /\ Planning!Change
      /\ UNCHANGED <<last, systems, timers, boot, outdated, runs>>
  BY DEF Planning!DeleteChannel
<1>2. Planning!TypeOK'
  BY <1>1, AssignedRows DEF Planning!Change, SchedulesInv, Planning!TypeOK,
     Planning!SchedulesAssumption
<1>3. DigestsDeliver'
  BY <1>1, AssignedRow DEF DigestsDeliver
<1>4. Planning!TargetsExist'
  <2>1. SUFFICES ASSUME NEW s \in Schedules, schedule'[s] # None
                 PROVE  schedule'[s].channels \subseteq channels \ {c}
    BY <1>1 DEF Planning!TargetsExist
  <2>2. schedule[s] # None /\ schedule[s].channels \subseteq channels
    BY <1>1, <2>1, AssignedRow DEF SchedulesInv, Planning!SchedulesSound, Planning!TargetsExist
  <2> QED
    BY <1>1, <2>1, <2>2, AssignedRow
<1>5. ASSUME NEW s \in Schedules
      PROVE  Planning!TimersOf(schedule')[s] =
               IF timers[s] = None THEN None
                   ELSE [timers[s] EXCEPT !.channels = @ \cap (channels \ {c})]
  <2> DEFINE old == schedule[s]
             new == schedule'[s]
             timer == timers[s]
  <2>1. Planning!TimersOf(schedule)[s] = IF timer = None THEN None
                                         ELSE [timer EXCEPT !.channels = timer.channels \cap channels]
    BY DEF SchedulesInv, Planning!SchedulesSound, Planning!TimersMatchRows
  <2>2. new = None <=> old = None
    BY <1>1, AssignedRows
  <2>3. CASE old = None \/ ~old.enabled
    <3>1. timer = None
      <4>1. Planning!TimersOf(schedule)[s] = None
        BY <2>3 DEF Planning!TimersOf
      <4>2. timer # None
              => [timer EXCEPT !.channels = timer.channels \cap channels] \in Planning!Row
        BY DEF SchedulesInv, Planning!TypeOK, Planning!Row
      <4> QED
        BY <2>1, <4>1, <4>2 DEF Planning!SchedulesAssumption
    <3>2. new = None \/ ~new.enabled
      BY <1>1, <2>2, <2>3, AssignedRows
    <3> QED
      BY <3>1, <3>2 DEF Planning!TimersOf
  <2>4. CASE old # None /\ old.enabled
    <3>1. Planning!TimersOf(schedule)[s] = old
      BY <2>4 DEF Planning!TimersOf
    <3>2. timer # None /\ timer \in Planning!Row
            /\ old = [timer EXCEPT !.channels = timer.channels \cap channels]
      BY <2>1, <2>4, <3>1 DEF SchedulesInv, Planning!TypeOK
    <3>3. /\ new # None /\ new \in Planning!Row /\ new.type = old.type /\ new.enabled = old.enabled
          /\ new.systems = old.systems
          /\ new.channels = IF old.type # "digest" THEN {} ELSE old.channels \ {c}
      <4>1. schedule'[s] # None
        BY <2>2, <2>4
      <4>2. /\ schedule'[s] \in Planning!Row /\ schedule'[s].type = schedule[s].type
            /\ schedule'[s].enabled = schedule[s].enabled
            /\ schedule'[s].systems = schedule[s].systems
            /\ schedule[s].type # "digest" => schedule'[s].channels = {}
            /\ schedule[s].type = "digest" => schedule'[s].channels = schedule[s].channels \ {c}
        BY <1>1, <4>1, AssignedRow
      <4> QED
        BY <4>1, <4>2
    <3>4. old.type # "digest" => old.channels = {}
      BY <2>4 DEF SchedulesInv, DigestsDeliver
    <3>5. new.channels = timer.channels \cap (channels \ {c})
      BY <3>2, <3>3, <3>4 DEF Planning!Row
    <3>6. new = [timer EXCEPT !.channels = timer.channels \cap (channels \ {c})]
      BY <3>2, <3>3, <3>5 DEF Planning!Row
    <3>7. Planning!TimersOf(schedule')[s] = new
      BY <2>4, <3>3 DEF Planning!TimersOf
    <3> QED
      BY <3>2, <3>6, <3>7
  <2> QED
    BY <2>3, <2>4
<1>6. Planning!TimersMatchRows'
  BY <1>1, <1>5 DEF Planning!TimersMatchRows
<1> QED
  BY <1>2, <1>3, <1>4, <1>6 DEF SchedulesInv, Planning!SchedulesSound

-------------------------------------------------------------------------------
\* The steps of runs: rows, channels and timers stay.
LEMMA OnlyRuns ==
  ASSUME SchedulesInv, Planning!TypeOK', UNCHANGED <<schedule, channels, timers>>
         PROVE SchedulesInv'
BY DEF SchedulesInv, DigestsDeliver, Planning!SchedulesSound, Planning!TimersMatchRows,
   Planning!TargetsExist

LEMMA NewRunTyped ==
  ASSUME Planning!SchedulesAssumption, NEW new \in Planning!Row, NEW rest \in SUBSET Systems
  PROVE  Planning!NewRun(new, rest) \in Planning!Run
BY DEF Planning!NewRun, Planning!Run

LEMMA ScopeTyped == ASSUME Planning!TypeOK, NEW new PROVE Planning!Scope(new) \subseteq Systems
BY DEF Planning!Scope, Planning!TypeOK

LEMMA RunFires ==
  ASSUME Planning!SchedulesAssumption, SchedulesInv, NEW s \in Schedules, NEW c \in Copies,
         Planning!Fire(s, c)
  PROVE  SchedulesInv'
<1>1. PICK rest \in SUBSET Planning!Scope(timers[s]) : runs' = [runs EXCEPT ![<<s,
                                                                                c>>] = Planning!NewRun(timers[s], rest)]
  BY DEF Planning!Fire
<1>2. timers[s] \in Planning!Row
  BY DEF Planning!Fire, SchedulesInv, Planning!TypeOK
<1>3. Planning!NewRun(timers[s], rest) \in Planning!Run
  BY <1>2, NewRunTyped, ScopeTyped DEF SchedulesInv
<1>4. Planning!TypeOK'
  BY <1>1, <1>3 DEF Planning!Fire, SchedulesInv, Planning!TypeOK
<1> QED
  BY <1>4, OnlyRuns DEF Planning!Fire

LEMMA StartupRefreshes ==
  ASSUME Planning!SchedulesAssumption, SchedulesInv, NEW c \in Copies, Planning!StartupRefresh(c)
         PROVE SchedulesInv'
<1> DEFINE due == {s \in Schedules : schedule[s] # None /\ schedule[s].enabled
                                       /\ schedule[s].type = "refresh"}
<1>1. runs' = [r \in Schedules \X Copies |->
                 IF r[2] = c /\ r[1] \in due THEN Planning!NewRun(schedule[r[1]],
                                                                  Planning!Scope(schedule[r[1]]))
                 ELSE runs[r]]
  BY DEF Planning!StartupRefresh
<1>2. ASSUME NEW s \in due
             PROVE Planning!NewRun(schedule[s], Planning!Scope(schedule[s])) \in Planning!Run
  BY NewRunTyped, ScopeTyped DEF SchedulesInv, Planning!TypeOK
<1>3. runs' \in [Schedules \X Copies -> Planning!Run \cup {None}]
  BY <1>1, <1>2 DEF SchedulesInv, Planning!TypeOK
<1>4. Planning!TypeOK'
  BY <1>3 DEF Planning!StartupRefresh, SchedulesInv, Planning!TypeOK
<1> QED
  BY <1>4, OnlyRuns DEF Planning!StartupRefresh

\* What a run becomes is a run, and what it leaves is a status.
LEMMA RunGoesOn ==
  ASSUME SchedulesInv, NEW r \in Schedules \X Copies, NEW run \in Planning!Run \cup {None},
         runs' = [runs EXCEPT ![r] = run], last' \in [Schedules -> Planning!Statuses \cup {None}],
         outdated' \subseteq Systems,
         UNCHANGED <<schedule, systems, channels, timers, boot, changes>>
  PROVE  SchedulesInv'
<1>1. Planning!TypeOK'
  BY DEF SchedulesInv, Planning!TypeOK
<1> QED
  BY <1>1, OnlyRuns

LEMMA RunFinishes ==
  ASSUME SchedulesInv, NEW r \in Schedules \X Copies, NEW status \in Planning!Statuses,
         Planning!Finish(r, status),
         UNCHANGED <<schedule, systems, channels, timers, boot, outdated, changes>>
  PROVE  SchedulesInv'
<1>1. last' \in [Schedules -> Planning!Statuses \cup {None}]
  BY DEF Planning!Finish, SchedulesInv, Planning!TypeOK
<1>2. outdated' \subseteq Systems
  BY DEF SchedulesInv, Planning!TypeOK
<1> QED
  BY <1>1, <1>2, RunGoesOn DEF Planning!Finish

LEMMA RunSteps ==
  ASSUME SchedulesInv, NEW r \in Schedules \X Copies,
         \/ Planning!ChecksOver(r) \/ Planning!Told(r) \/ Planning!UpdateOver(r)
            \/ Planning!Delivered(r)
         \/ \E x \in Systems : Planning!CheckEnds(r, x) \/ Planning!UpgradeEnds(r, x)
            \/ Planning!UpgradeThrows(r, x)
  PROVE  SchedulesInv'
<1> DEFINE run == runs[r]
<1>1. run \in Planning!Run
  BY DEF Planning!ChecksOver, Planning!Told, Planning!UpdateOver, Planning!Delivered,
         Planning!CheckEnds, Planning!UpgradeEnds, Planning!UpgradeThrows, Planning!In,
         SchedulesInv, Planning!TypeOK
<1>2. outdated \subseteq Systems /\ last \in [Schedules -> Planning!Statuses \cup {None}]
      /\ runs \in [Schedules \X Copies -> Planning!Run \cup {None}]
  BY DEF SchedulesInv, Planning!TypeOK
<1>3. CASE Planning!ChecksOver(r)
  <2>1. [run EXCEPT !.pc = "telling"] \in Planning!Run
    BY <1>1 DEF Planning!Run
  <2>2. runs' = [runs EXCEPT ![r] = [run EXCEPT !.pc = "telling"]]
    BY <1>3 DEF Planning!ChecksOver
  <2> QED
    BY <1>2, <1>3, <2>1, <2>2, RunGoesOn DEF Planning!ChecksOver
<1>4. CASE Planning!Told(r)
  <2>1. CASE run.row.type = "refresh"
    BY <1>4, <2>1, RunFinishes DEF Planning!Told, Planning!Refreshed, Planning!Statuses
  <2>2. CASE run.row.type # "refresh"
    <3>1. [run EXCEPT !.pc = "upgrading", !.todo = run.checked \cap outdated] \in Planning!Run
      BY <1>1 DEF Planning!Run
    <3>2. runs' = [runs EXCEPT ![r] =
                     [run EXCEPT !.pc = "upgrading", !.todo = run.checked \cap outdated]]
      BY <1>2, <1>4, <2>2 DEF Planning!Told
    <3> QED
      BY <1>2, <1>4, <2>2, <3>1, <3>2, RunGoesOn DEF Planning!Told
  <2> QED
    BY <2>1, <2>2
<1>5. CASE Planning!UpdateOver(r)
  BY <1>5, RunFinishes DEF Planning!UpdateOver, Planning!UpdateStatus, Planning!Statuses
<1>6. CASE Planning!Delivered(r)
  BY <1>6, RunFinishes DEF Planning!Delivered
<1>7. ASSUME NEW x \in Systems, Planning!CheckEnds(r, x) PROVE SchedulesInv'
  <2> DEFINE well == [run EXCEPT !.todo = @ \ {x}, !.checked = @ \cup {x}]
             ill == [run EXCEPT !.todo = @ \ {x}, !.failed = @ \cup {x}]
  <2>1. well \in Planning!Run /\ ill \in Planning!Run
    BY <1>1 DEF Planning!Run
  <2>2. runs' = [runs EXCEPT ![r] = well] \/ runs' = [runs EXCEPT ![r] = ill]
    BY <1>2, <1>7 DEF Planning!CheckEnds
  <2>3. outdated' \subseteq Systems
    BY <1>2, <1>7 DEF Planning!CheckEnds
  <2>4. UNCHANGED <<schedule, last, systems, channels, timers, boot, changes>>
    BY <1>7 DEF Planning!CheckEnds
  <2> HIDE DEF well, ill
  <2>5. PICK new \in Planning!Run : runs' = [runs EXCEPT ![r] = new]
    BY <2>1, <2>2
  <2> QED
    BY <1>2, <2>3, <2>4, <2>5, RunGoesOn
<1>8. ASSUME NEW x \in Systems, Planning!UpgradeEnds(r, x) PROVE SchedulesInv'
  <2>1. PICK flaw : Planning!Upgraded(r, x, flaw) /\ outdated' \subseteq Systems
    BY <1>2, <1>8 DEF Planning!UpgradeEnds
  <2> DEFINE new == [run EXCEPT !.todo = @ \ {x},
                       !.upgraded = IF flaw = "failed" THEN @ ELSE @ \cup {x},
                       !.flawed = IF flaw = "none" THEN @ ELSE @ \cup {x}]
  <2>2. new \in Planning!Run
    BY <1>1 DEF Planning!Run
  <2>3. runs' = [runs EXCEPT ![r] = new]
    BY <1>2, <2>1 DEF Planning!Upgraded
  <2>4. UNCHANGED <<schedule, last, systems, channels, timers, boot, changes>>
    BY <1>8 DEF Planning!UpgradeEnds
  <2> HIDE DEF new
  <2> QED
    BY <1>2, <2>1, <2>2, <2>3, <2>4, RunGoesOn
<1>9. ASSUME NEW x \in Systems, Planning!UpgradeThrows(r, x) PROVE SchedulesInv'
  BY <1>9, RunFinishes DEF Planning!UpgradeThrows, Planning!Statuses
<1> QED
  BY <1>3, <1>4, <1>5, <1>6, <1>7, <1>8, <1>9

LEMMA SystemDeleted ==
  ASSUME Planning!SchedulesAssumption, SchedulesInv, NEW x \in Systems, Planning!DeleteSystem(x)
         PROVE SchedulesInv'
<1>1. Planning!TypeOK'
  BY DEF Planning!DeleteSystem, Planning!Change, SchedulesInv, Planning!TypeOK,
     Planning!SchedulesAssumption
<1> QED
  BY <1>1, OnlyRuns DEF Planning!DeleteSystem

LEMMA SchedulesStep ==
  ASSUME Planning!SchedulesAssumption, SchedulesInv, [Planning!Next]_Planning!vars
         PROVE SchedulesInv'
<1>1. CASE UNCHANGED Planning!vars
  <2>1. Planning!TypeOK'
    BY <1>1 DEF Planning!vars, SchedulesInv, Planning!TypeOK
  <2> QED
    BY <1>1, <2>1, OnlyRuns DEF Planning!vars
<1> QED
  BY <1>1, RowSaved, RowDeleted, ChannelAssigned, ChannelDeleted, RunFires, StartupRefreshes,
     RunSteps,
     SystemDeleted DEF Planning!Next

LEMMA SchedulesHold == SchedulesInv => Planning!TypeOK /\ Planning!SchedulesSound
BY DEF SchedulesInv

(* Timers do what the rows say and rows name channels that exist, however  *)
(* edits, timers and runs interleave.                                      *)
THEOREM SchedulesCorrect ==
  ASSUME Planning!SchedulesAssumption PROVE Planning!Spec
         => [](Planning!TypeOK /\ Planning!SchedulesSound)
<1>1. Planning!Init => SchedulesInv
  BY SchedulesInit
<1>2. SchedulesInv /\ [Planning!Next]_Planning!vars => SchedulesInv'
  BY SchedulesStep
<1>3. SchedulesInv => Planning!TypeOK /\ Planning!SchedulesSound
  BY SchedulesHold
<1> QED
  BY <1>1, <1>2, <1>3, PTL DEF Planning!Spec

--------------------------------------------------------------------------------
Starting == INSTANCE StartupMigrations WITH
  Places <- SecretPlaces, Channels <- OldChannels, Crons <- OldCrons,
  pc <- startPc, todo <- startTodo, crashes <- startCrashes

--------------------------------------------------------------------------------
(***************************************************************************)
(* The migrations of a start.  A secret is under one of the two salts at   *)
(* every moment, but for a credential made of a login under the old one,   *)
(* and the last loop has the rows it did not read yet still before it.     *)
(* The credentials table is not rebuilt any more once a system refers to   *)
(* it.  A channel keeps its own schedule until a digest has it.            *)
(***************************************************************************)
Secret == {<<"old">>, <<"new">>}
Doubled == <<"new", "old">>
TableSecret == Secret \cup {Doubled}
Readable == {None, <<"new">>}
TableRow == [shape : {"missing", "scoped", "current"}, rows : Seq(TableSecret)]
Digest == [cron : OldCrons \cup {None}, channels : SUBSET OldChannels]

DiskTyped ==
  /\ table \in TableRow /\ copy \in TableRow
  /\ login \in [Systems -> {None, << >>} \cup Secret]
  /\ stored \in [SecretPlaces -> Secret \cup {None}]
  /\ settings \in [OldChannels -> Secret \cup {None}]
  /\ channel \in [OldChannels -> Starting!ChannelRows \cup {None}]
  /\ digests \in Seq(Digest)

ReadSoFar ==
  startPc \in {"salt", "up"} =>
    /\ startPc = "up" => startTodo = {}
    /\ \A p \in SecretPlaces : <<"stored", p>> \notin startTodo => stored[p] \in Readable
    /\ \A i \in DOMAIN table.rows :
         <<"credential", i>> \notin startTodo => table.rows[i] \in {<<"new">>, Doubled}
    /\ \A c \in OldChannels :
         channel[c] # None /\ <<"channel", c>> \notin startTodo => channel[c].secret \in Readable
    /\ \A x \in startTodo :
         \/ x[1] = "stored" /\ x[2] \in SecretPlaces
         \/ x[1] = "credential" /\ x[2] \in DOMAIN table.rows
         \/ x[1] = "channel" /\ x[2] \in OldChannels /\ channel[x[2]] # None

InDigest(c, some) == \E i \in DOMAIN some : c \in some[i].channels

DigestsFit ==
  /\ \A i, j \in DOMAIN digests : digests[i].cron = digests[j].cron => i = j
  /\ \A i \in DOMAIN digests : \A c \in digests[i].channels : promised[c] = digests[i].cron

OldChannelsFit ==
  \A c \in OldChannels :
    /\ channel[c] # None /\ channel[c].schedule # None => promised[c] = channel[c].schedule
    /\ promised[c] # None =>
         /\ channel[c] # None
         /\ channel[c].schedule = promised[c] \/ InDigest(c, digests)
    /\ startPc \in {"salt", "up"} /\ channel[c] # None => channel[c].schedule = None
    /\ startPc = "ntfy" => promised[c] = None
    /\ startPc = "clear" /\ c \in startTodo => channel[c] # None /\ InDigest(c, digests)

RowsFit == DiskTyped /\ ReadSoFar /\ DigestsFit /\ OldChannelsFit

ShapesFit ==
  /\ startPc \in {"create", "fill", "drop"} => table.shape = "scoped"
  /\ startPc = "rename" => table = Starting!Missing
  /\ table = Starting!Missing \/ table.shape \in {"scoped", "current"}
  /\ startPc \in {"fill", "drop", "rename"} => copy.shape = "current"
  /\ startPc \notin {"down", "tables", "create", "fill", "drop", "rename"}
     => table.shape = "current"
  /\ \A s \in Systems : credential[s] # None => table.shape = "current"

CredentialsFit ==
  /\ \A s \in Systems : login[s] = <<"old">> => s \in legacy
  /\ \A i \in DOMAIN table.rows : table.rows[i] = Doubled => legacy # {}
  /\ \A i \in DOMAIN copy.rows : copy.rows[i] = Doubled => legacy # {}
  /\ startPc = "link" =>
       \A s \in startTodo \ legacy : /\ Len(table.rows) \in DOMAIN table.rows
                               /\ table.rows[Len(table.rows)] = <<"new">>
  /\ \A s \in Systems \ legacy :
       credential[s] # None =>
         credential[s] \in DOMAIN table.rows /\ table.rows[credential[s]] = <<"new">>

MigrationsInv == RowsFit /\ ShapesFit /\ CredentialsFit

LEMMA RewrittenReadable ==
  ASSUME NEW v \in Secret \cup {None}
  PROVE  Starting!Rewritten(v) \in Readable /\ (v \in Secret => Starting!Rewritten(v) \in Secret)
<1>1. Tail(<<"old">>) = << >> /\ <<"new">> \o << >> = <<"new">>
  BY ConcatEmptySeq
<1>2. Head(<<"new">>) = "new"
  OBVIOUS
<1>3. CASE v = None
  BY <1>3 DEF Starting!Rewritten, Starting!Old, Readable, Secret
<1>4. CASE v = <<"new">>
  BY <1>2, <1>4 DEF Starting!Rewritten, Starting!Old, Readable, Secret
<1>5. CASE v = <<"old">>
  <2>1. Starting!Rewritten(v) \in {v, <<"new">> \o Tail(v)}
          /\ (Head(v) = "old" /\ v # << >> /\ v # None => Starting!Rewritten(v) = <<"new">> \o Tail(v))
    BY DEF Starting!Rewritten, Starting!Old
  <2>2. Head(v) = "old" /\ v # << >>
    BY <1>5
  <2> QED
    BY <1>1, <1>3, <1>5, <2>1, <2>2 DEF Readable, Secret
<1> QED
  BY <1>3, <1>4, <1>5 DEF Secret

LEMMA RewrittenInTable ==
  ASSUME Starting!MigrationsAssumption, NEW v \in TableSecret
  PROVE  /\ Starting!Rewritten(v) \in {<<"new">>, Doubled}
         /\ Starting!Rewritten(v) = Doubled => v = Doubled
         /\ v = <<"new">> => Starting!Rewritten(v) = <<"new">>
<1>1. CASE v \in Secret
  <2>1. Starting!Rewritten(v) \in Secret /\ Starting!Rewritten(v) \in Readable
    BY <1>1, RewrittenReadable
  <2>2. Starting!Rewritten(v) = <<"new">>
    BY <1>1, <2>1 DEF Readable, Secret, Starting!MigrationsAssumption
  <2> QED
    BY <2>2 DEF Doubled
<1>2. CASE v = Doubled
  <2>1. Head(v) = "new" /\ v # <<"new">>
    BY <1>2 DEF Doubled
  <2> QED
    BY <1>2, <2>1 DEF Starting!Rewritten, Starting!Old
<1> QED
  BY <1>1, <1>2 DEF TableSecret

LEMMA NormalizedInTable ==
  ASSUME NEW v \in {<< >>} \cup Secret
  PROVE  /\ Starting!Normalized(v) \in TableSecret
         /\ v # <<"old">> => Starting!Normalized(v) = <<"new">>
<1>0. <<"new">> \o <<"old">> = Doubled
  <2> DEFINE both == <<"new">> \o <<"old">>
  <2>1. <<"new">> \in Seq({"old", "new"}) /\ <<"old">> \in Seq({"old", "new"})
    OBVIOUS
  <2>2. /\ both \in Seq({"old", "new"}) /\ Len(both) = 2
        /\ both[1] = "new" /\ both[2] = "old"
    BY <2>1, ConcatProperties
  <2> HIDE DEF both
  <2>3. both = <<"new", "old">>
    BY <2>2
  <2> QED
    BY <2>3 DEF Doubled, both
<1>1. /\ <<"new">> \o << >> = <<"new">>
      /\ Head(<<"new">>) = "new" /\ Head(<<"old">>) = "old" /\ <<"new">> # << >>
  BY ConcatEmptySeq
<1>2. CASE v = << >>
  BY <1>1, <1>2 DEF Starting!Normalized, TableSecret, Secret
<1>3. CASE v = <<"new">>
  BY <1>1, <1>3 DEF Starting!Normalized, TableSecret, Secret
<1>4. CASE v = <<"old">>
  BY <1>0, <1>1, <1>4 DEF Starting!Normalized, TableSecret, Secret
<1> QED
  BY <1>2, <1>3, <1>4 DEF Secret

LEMMA MissingTyped == Starting!Missing \in TableRow
      /\ [Starting!Missing EXCEPT !.shape = "current"] \in TableRow
<1>1. << >> \in Seq(TableSecret)
  OBVIOUS
<1> QED
  BY <1>1 DEF Starting!Missing, TableRow

LEMMA RowsInit == Starting!MigrationsAssumption /\ Starting!Init => RowsFit
<1> SUFFICES ASSUME Starting!MigrationsAssumption, Starting!Init PROVE RowsFit
  OBVIOUS
<1>1. startPc = "down" /\ \A c \in OldChannels : promised[c] = IF channel[c] = None THEN None
        ELSE channel[c].schedule
  BY DEF Starting!Init
<1>2. Starting!Older(saltFile) \subseteq Secret \cup {None}
        /\ Starting!Older(saltFile) \subseteq {None, <<"old">>, <<"new">>}
  BY DEF Starting!Older, Secret
<1>3. table \in TableRow /\ copy \in TableRow
  <2>1. PICK shape \in {"scoped", "current"}, v \in Starting!Older(saltFile) \ {None} :
          table = [shape |-> shape, rows |-> <<v>>]
    BY DEF Starting!Init
  <2>2. <<v>> \in Seq(TableSecret)
    BY <1>2 DEF TableSecret
  <2> QED
    BY <2>1, <2>2, MissingTyped DEF Starting!Init, TableRow
<1>4. login \in [Systems -> {None, << >>} \cup Secret]
  BY <1>2 DEF Starting!Init, Starting!StoredLogins
<1>5. stored \in [SecretPlaces -> Secret \cup {None}]
        /\ settings \in [OldChannels -> Secret \cup {None}]
  BY <1>2 DEF Starting!Init
<1>6. channel \in [OldChannels -> Starting!ChannelRows \cup {None}]
  <2>1. CASE channel = [c \in OldChannels |-> None]
    BY <2>1
  <2>2. ASSUME NEW secret \in Starting!Older(saltFile),
               channel \in [OldChannels -> {Starting!ChannelRow(secret,
                                                                cron) : cron \in OldCrons \cup {None}}]
        PROVE  channel \in [OldChannels -> Starting!ChannelRows \cup {None}]
    <3>1. \A cron \in OldCrons \cup {None} : Starting!ChannelRow(secret,
                                                                 cron) \in Starting!ChannelRows
      BY <1>2 DEF Starting!ChannelRow, Starting!ChannelRows
    <3> QED
      BY <2>2, <3>1
  <2> QED
    BY <2>1, <2>2 DEF Starting!Init
<1>7. /\ digests \in Seq(Digest) /\ \A i \in DOMAIN digests : digests[i].channels = {}
      /\ \A i, j \in DOMAIN digests : i = j
  <2>1. CASE digests = << >>
    BY <2>1
  <2>2. ASSUME NEW cron \in OldCrons, digests = <<[cron |-> cron, channels |-> {}]>>
        PROVE  /\ digests \in Seq(Digest) /\ \A i \in DOMAIN digests : digests[i].channels = {}
               /\ \A i, j \in DOMAIN digests : i = j
    <3>1. [cron |-> cron, channels |-> {}] \in Digest
      BY DEF Digest
    <3> QED
      BY <2>2, <3>1
  <2> QED
    BY <2>1, <2>2 DEF Starting!Init
<1>8. DiskTyped
  BY <1>3, <1>4, <1>5, <1>6, <1>7 DEF DiskTyped
<1>9. ReadSoFar
  BY <1>1 DEF ReadSoFar
<1>10. DigestsFit
  BY <1>7 DEF DigestsFit
<1>11. OldChannelsFit
  BY <1>1 DEF OldChannelsFit
<1> QED
  BY <1>8, <1>9, <1>10, <1>11 DEF RowsFit

\* Steps that leave channels and digests alone, before the last loop.
LEMMA StepElsewhere ==
  ASSUME RowsFit, DiskTyped', UNCHANGED <<channel, digests, promised>>,
         startPc' \notin {"salt", "up", "ntfy", "clear"}
  PROVE  RowsFit'
BY DEF RowsFit, ReadSoFar, DigestsFit, OldChannelsFit, InDigest

LEMMA StepOpens ==
  ASSUME RowsFit, Starting!Start \/ Starting!Tables \/ Starting!LoginsDone \/ Starting!Crash
         PROVE RowsFit'
<1>1. /\ UNCHANGED <<copy, login, stored, settings, channel, digests, promised>>
      /\ startPc' \notin {"salt", "up", "ntfy", "clear"}
      /\ table' = table \/ table' = [Starting!Missing EXCEPT !.shape = "current"]
  BY DEF Starting!Start, Starting!Tables, Starting!LoginsDone, Starting!Crash, Starting!Goto,
     Starting!Kept, Starting!disk
<1>2. DiskTyped'
  BY <1>1, MissingTyped DEF RowsFit, DiskTyped
<1> QED
  BY <1>1, <1>2, StepElsewhere

LEMMA StepRebuilds == ASSUME RowsFit, Starting!RebuildCredentials PROVE RowsFit'
<1>1. /\ UNCHANGED <<login, stored, settings, channel, digests, promised>>
      /\ startPc' \notin {"salt", "up", "ntfy", "clear"}
  BY DEF Starting!RebuildCredentials, Starting!Goto, Starting!Kept
<1>2. table' \in TableRow
  BY MissingTyped DEF Starting!RebuildCredentials, RowsFit, DiskTyped
<1>3. copy' \in TableRow
  <2>1. table \in TableRow /\ copy \in TableRow
    BY DEF RowsFit, DiskTyped
  <2>2. [copy EXCEPT !.rows = table.rows] \in TableRow
    BY <2>1 DEF TableRow
  <2> QED
    BY <2>1, <2>2, MissingTyped DEF Starting!RebuildCredentials
<1>4. DiskTyped'
  BY <1>1, <1>2, <1>3 DEF RowsFit, DiskTyped
<1> QED
  BY <1>1, <1>4, StepElsewhere

LEMMA StepCredential ==
  ASSUME RowsFit, Starting!InsertCredential \/ Starting!LinkCredential PROVE RowsFit'
<1>1. /\ UNCHANGED <<copy, stored, settings, channel, digests, promised>>
      /\ startPc' \notin {"salt", "up", "ntfy", "clear"}
  BY DEF Starting!InsertCredential, Starting!LinkCredential, Starting!Kept
<1>2. table \in TableRow /\ table.rows \in Seq(TableSecret)
      /\ login \in [Systems -> {None, << >>} \cup Secret]
  BY DEF RowsFit, DiskTyped, TableRow
<1>3. table' \in TableRow
  <2>1. CASE UNCHANGED table
    BY <1>2, <2>1
  <2>2. ASSUME NEW s \in Starting!NoCredential,
               table' = [table EXCEPT !.rows = Append(@, Starting!Normalized(login[s]))]
        PROVE  table' \in TableRow
    <3>1. login[s] \in {<< >>} \cup Secret
      BY <1>2 DEF Starting!NoCredential
    <3>2. Starting!Normalized(login[s]) \in TableSecret
      BY <3>1, NormalizedInTable
    <3> DEFINE longer == Append(table.rows, Starting!Normalized(login[s]))
    <3>3. longer \in Seq(TableSecret)
      BY <1>2, <3>2
    <3>4. table' = [table EXCEPT !.rows = longer]
      BY <1>2, <2>2 DEF TableRow
    <3> HIDE DEF longer
    <3> QED
      BY <1>2, <3>3, <3>4 DEF TableRow
  <2> QED
    BY <2>1, <2>2 DEF Starting!InsertCredential, Starting!LinkCredential
<1>4. login' \in [Systems -> {None, << >>} \cup Secret]
  BY <1>2 DEF Starting!InsertCredential, Starting!LinkCredential
<1>5. DiskTyped'
  BY <1>1, <1>3, <1>4 DEF RowsFit, DiskTyped
<1> QED
  BY <1>1, <1>5, StepElsewhere

\* Channels that settings described: only when there is no row of a channel.
LEMMA StepInserts == ASSUME Starting!MigrationsAssumption, RowsFit, Starting!SettingsToChannels
      PROVE RowsFit'
<1>1. /\ UNCHANGED <<table, copy, login, stored, settings, digests, promised>>
      /\ startPc' \in {"ntfy", "logins"}
  BY DEF Starting!SettingsToChannels, Starting!Goto, Starting!Kept
<1>2. CASE UNCHANGED channel /\ startPc' = "logins"
  <2>1. DiskTyped'
    BY <1>1, <1>2 DEF RowsFit, DiskTyped
  <2> QED
    BY <1>1, <1>2, <2>1, StepElsewhere
<1>3. ASSUME NEW c, Starting!Insert(c), \A d \in OldChannels : promised[d] = None PROVE RowsFit'
  <2>1. ASSUME NEW d \in OldChannels
        PROVE  /\ channel'[d] \in Starting!ChannelRows \cup {None}
               /\ channel'[d] = channel[d] \/ channel'[d].schedule = None
    <3>1. settings[d] \in Secret \cup {None} /\ channel[d] \in Starting!ChannelRows \cup {None}
      BY DEF RowsFit, DiskTyped
    <3>2. channel'[d] = channel[d] \/ channel'[d] = Starting!ChannelRow(settings[d], None)
      BY <1>3 DEF Starting!Insert, RowsFit, DiskTyped
    <3>3. Starting!ChannelRow(settings[d], None) \in Starting!ChannelRows
            /\ Starting!ChannelRow(settings[d], None).schedule = None
      BY <3>1 DEF Starting!ChannelRow, Starting!ChannelRows, Secret
    <3> QED
      BY <3>1, <3>2, <3>3
  <2>2. channel' \in [OldChannels -> Starting!ChannelRows \cup {None}]
    BY <1>3, <2>1 DEF Starting!Insert, RowsFit, DiskTyped
  <2>3. DiskTyped'
    BY <1>1, <2>2 DEF RowsFit, DiskTyped
  <2>4. ReadSoFar' /\ DigestsFit'
    BY <1>1 DEF ReadSoFar, DigestsFit, RowsFit
  <2>5. OldChannelsFit'
    BY <1>1, <1>3, <2>1 DEF OldChannelsFit, RowsFit
  <2> QED
    BY <2>3, <2>4, <2>5 DEF RowsFit
<1>4. CASE startPc = "email" /\ \A c \in OldChannels : channel[c] = None
  <2>1. \A d \in OldChannels : promised[d] = None
    BY <1>4 DEF RowsFit, OldChannelsFit
  <2> QED
    BY <1>3, <1>4, <2>1 DEF Starting!SettingsToChannels
<1>5. CASE startPc = "ntfy"
  <2>1. \A d \in OldChannels : promised[d] = None
    BY <1>5 DEF RowsFit, OldChannelsFit
  <2> QED
    BY <1>3, <1>5, <2>1 DEF Starting!SettingsToChannels
<1> QED
  BY <1>1, <1>2, <1>4, <1>5 DEF Starting!SettingsToChannels, Starting!Goto

\* A channel joins the digest of its schedule, or gets one of its own.
LEMMA StepDigest == ASSUME RowsFit, Starting!ScheduleDigest PROVE RowsFit'
<1>1. PICK c \in Starting!Scheduled :
        /\ digests' = IF Starting!Found(channel[c].schedule) = {}
                      THEN Append(digests, [cron |-> channel[c].schedule, channels |-> {c}])
                      ELSE LET i == CHOOSE j \in Starting!Found(channel[c].schedule) :
                                      \A k \in Starting!Found(channel[c].schedule) : j <= k
                           IN [digests EXCEPT ![i] = Starting!Joined(digests[i], c)]
        /\ startPc' = "clear" /\ startTodo' = {c}
  BY DEF Starting!ScheduleDigest
<1> DEFINE at == channel[c].schedule
<1>2. /\ UNCHANGED <<table, copy, login, stored, settings, channel, promised>>
      /\ digests \in Seq(Digest) /\ c \in OldChannels /\ channel[c] # None
      /\ at \in OldCrons \cup {None} /\ promised[c] = at
  BY DEF Starting!ScheduleDigest, Starting!Kept, Starting!Scheduled, RowsFit, DiskTyped,
     OldChannelsFit, Starting!ChannelRows
<1>3. \A i \in DOMAIN digests : digests[i] \in Digest /\ i \in Nat
  BY <1>2
<1>4. PICK k : /\ k \in DOMAIN digests' /\ digests' \in Seq(Digest)
               /\ DOMAIN digests \subseteq DOMAIN digests'
               /\ \A i \in DOMAIN digests' : i # k => i \in DOMAIN digests
                  /\ digests'[i] = digests[i]
               /\ digests'[k].cron = at /\ c \in digests'[k].channels
               /\ \A i \in DOMAIN digests : digests[i].cron = at => i = k
               /\ k \in DOMAIN digests =>
                    /\ digests[k].cron = at
                    /\ digests'[k].channels = digests[k].channels \cup {c}
               /\ k \notin DOMAIN digests => digests'[k].channels = {c}
  <2>1. CASE Starting!Found(at) = {}
    <3> DEFINE new == [cron |-> at, channels |-> {c}]
    <3>1. new \in Digest /\ new.cron = at /\ new.channels = {c}
      BY <1>2 DEF Digest
    <3>2. digests' = Append(digests, new)
      BY <1>1, <2>1
    <3> HIDE DEF new
    <3>3. /\ digests' \in Seq(Digest) /\ DOMAIN digests' = 1 .. Len(digests) + 1
          /\ DOMAIN digests = 1 .. Len(digests) /\ Len(digests) \in Nat
          /\ digests'[Len(digests) + 1] = new
          /\ \A i \in 1 .. Len(digests) : digests'[i] = digests[i]
      BY <1>2, <3>1, <3>2
    <3>4. \A i \in DOMAIN digests : digests[i].cron # at
      BY <2>1 DEF Starting!Found
    <3> WITNESS Len(digests) + 1
    <3>5. /\ Len(digests) + 1 \in 1 .. Len(digests) + 1 /\ Len(digests) + 1 \notin 1 .. Len(digests)
          /\ \A i \in 1 .. Len(digests) + 1 : i # Len(digests) + 1 => i \in 1 .. Len(digests)
      BY <3>3
    <3> QED
      BY <3>1, <3>3, <3>4, <3>5
  <2>2. CASE Starting!Found(at) # {}
    <3>1. \A i, j \in Starting!Found(at) : i = j /\ i \in Nat
      BY <1>3 DEF Starting!Found, RowsFit, DigestsFit
    <3> DEFINE k == CHOOSE j \in Starting!Found(at) : \A i \in Starting!Found(at) : j <= i
    <3>2. k \in Starting!Found(at)
      BY <2>2, <3>1
    <3>3. digests' = [digests EXCEPT ![k] = Starting!Joined(digests[k], c)]
      BY <1>1, <2>2
    <3> HIDE DEF k
    <3>4. k \in DOMAIN digests /\ digests[k].cron = at /\ digests[k] \in Digest
      BY <1>3, <3>2 DEF Starting!Found
    <3>5. PICK new \in Digest : /\ new = Starting!Joined(digests[k], c) /\ new.cron = at
                                /\ new.channels = digests[k].channels \cup {c}
      <4>1. /\ Starting!Joined(digests[k], c) \in Digest /\ Starting!Joined(digests[k], c).cron = at
            /\ Starting!Joined(digests[k], c).channels = digests[k].channels \cup {c}
        BY <1>2, <3>4 DEF Starting!Joined, Digest
      <4> QED
        BY <4>1
    <3>6. /\ digests' \in Seq(Digest) /\ DOMAIN digests' = DOMAIN digests /\ digests'[k] = new
          /\ \A i \in DOMAIN digests : i # k => digests'[i] = digests[i]
      BY <1>2, <3>3, <3>4, <3>5
    <3>7. \A i \in DOMAIN digests : digests[i].cron = at => i = k
      BY <3>1, <3>2 DEF Starting!Found
    <3> WITNESS k
    <3> QED
      BY <3>4, <3>5, <3>6, <3>7
  <2> QED
    BY <2>1, <2>2
<1>5. DiskTyped'
  BY <1>2, <1>4 DEF RowsFit, DiskTyped
<1>6. ReadSoFar'
  BY <1>1 DEF ReadSoFar
<1>7. DigestsFit'
  <2>1. ASSUME NEW i \in DOMAIN digests', NEW j \in DOMAIN digests',
               digests'[i].cron = digests'[j].cron
        PROVE  i = j
    BY <1>4, <2>1 DEF RowsFit, DigestsFit
  <2>2. ASSUME NEW i \in DOMAIN digests', NEW d \in digests'[i].channels
        PROVE  promised[d] = digests'[i].cron
    BY <1>2, <1>4 DEF RowsFit, DigestsFit
  <2> QED
    BY <1>2, <2>1, <2>2 DEF DigestsFit
<1>8. ASSUME NEW d, InDigest(d, digests) PROVE InDigest(d, digests')
  <2>1. PICK i \in DOMAIN digests : d \in digests[i].channels
    BY <1>8 DEF InDigest
  <2> QED
    BY <1>4, <2>1 DEF InDigest
<1>9. InDigest(c, digests')
  BY <1>4 DEF InDigest
<1>10. OldChannelsFit'
  BY <1>1, <1>2, <1>8, <1>9 DEF RowsFit, OldChannelsFit
<1> QED
  BY <1>5, <1>6, <1>7, <1>10 DEF RowsFit

LEMMA StepClearSchedule == ASSUME Starting!MigrationsAssumption, RowsFit, Starting!ClearSchedule
      PROVE RowsFit'
<1>1. PICK c \in startTodo : channel' = [channel EXCEPT ![c].schedule = None]
  BY DEF Starting!ClearSchedule
<1>2. /\ UNCHANGED <<table, copy, login, stored, settings, digests, promised>>
      /\ startPc = "clear" /\ startPc' = "digests"
  BY DEF Starting!ClearSchedule, Starting!Kept
<1>3. ASSUME NEW d \in OldChannels
      PROVE  /\ d # c => channel'[d] = channel[d]
             /\ d = c => /\ channel'[d] \in Starting!ChannelRows /\ channel'[d].schedule = None
                         /\ channel'[d] # None /\ InDigest(d, digests)
  <2>1. CASE d = c
    <3>1. channel[d] \in Starting!ChannelRows /\ InDigest(d, digests)
      BY <1>2, <2>1 DEF RowsFit, DiskTyped, OldChannelsFit
    <3>2. channel'[d] = [channel[d] EXCEPT !.schedule = None]
      BY <1>1, <2>1 DEF RowsFit, DiskTyped
    <3>3. channel'[d] \in Starting!ChannelRows /\ channel'[d].schedule = None
      BY <3>1, <3>2 DEF Starting!ChannelRows
    <3> QED
      BY <2>1, <3>1, <3>3 DEF Starting!MigrationsAssumption
  <2>2. CASE d # c
    BY <1>1, <2>2 DEF RowsFit, DiskTyped
  <2> QED
    BY <2>1, <2>2
<1>4. channel' \in [OldChannels -> Starting!ChannelRows \cup {None}]
  BY <1>1, <1>3 DEF RowsFit, DiskTyped
<1>5. DiskTyped' /\ ReadSoFar' /\ DigestsFit'
  BY <1>2, <1>4 DEF RowsFit, DiskTyped, ReadSoFar, DigestsFit
<1>6. OldChannelsFit'
  <2> SUFFICES ASSUME NEW d \in OldChannels
               PROVE  /\ channel'[d] # None /\ channel'[d].schedule # None
                           => promised[d] = channel'[d].schedule
                      /\ promised[d] # None =>
                           /\ channel'[d] # None
                           /\ channel'[d].schedule = promised[d] \/ InDigest(d, digests)
    BY <1>2 DEF OldChannelsFit
  <2> QED
    BY <1>3 DEF RowsFit, OldChannelsFit
<1> QED
  BY <1>5, <1>6 DEF RowsFit

LEMMA StepForgets == ASSUME RowsFit, Starting!ForgetSettings PROVE RowsFit'
<1>1. /\ UNCHANGED <<table, copy, login, stored, channel, digests, promised>>
      /\ startPc' = "salt" /\ settings' = [c \in OldChannels |-> None]
      /\ startTodo' = {<<"stored", p>> : p \in SecretPlaces}
             \cup {<<"credential", i>> : i \in DOMAIN table.rows}
             \cup {<<"channel", c>> : c \in {d \in OldChannels : channel[d] # None}}
  BY DEF Starting!ForgetSettings, Starting!Kept
<1>2. \A c \in OldChannels : channel[c] # None => channel[c].schedule = None
  BY DEF Starting!ForgetSettings, Starting!Scheduled
<1>3. DiskTyped'
  BY <1>1 DEF RowsFit, DiskTyped
<1>4. ReadSoFar'
  BY <1>1 DEF ReadSoFar
<1>5. DigestsFit'
  BY <1>1 DEF RowsFit, DigestsFit
<1>6. OldChannelsFit'
  BY <1>1, <1>2 DEF RowsFit, OldChannelsFit
<1> QED
  BY <1>3, <1>4, <1>5, <1>6 DEF RowsFit

LEMMA StepReencrypt ==
  ASSUME Starting!MigrationsAssumption, RowsFit, Starting!Reencrypt PROVE RowsFit'
<1>1. PICK x \in startTodo :
       /\ \/ /\ x[1] = "stored" /\ stored' = [stored EXCEPT ![x[2]] = Starting!Rewritten(@)]
             /\ UNCHANGED <<table, channel>>
          \/ /\ x[1] = "credential"
             /\ table' = [table EXCEPT !.rows[x[2]] = Starting!Rewritten(@)]
             /\ UNCHANGED <<stored, channel>>
          \/ /\ x[1] = "channel"
             /\ channel' = [channel EXCEPT ![x[2]].secret = Starting!Rewritten(@)]
             /\ UNCHANGED <<stored, table>>
       /\ startTodo' = startTodo \ {x}
  BY DEF Starting!Reencrypt
<1>2. /\ UNCHANGED <<copy, login, settings, digests, promised, startPc>> /\ startPc = "salt"
  BY DEF Starting!Reencrypt
<1>3. /\ table \in TableRow /\ table.rows \in Seq(TableSecret)
          /\ stored \in [SecretPlaces -> Secret \cup {None}]
      /\ channel \in [OldChannels -> Starting!ChannelRows \cup {None}]
  BY DEF RowsFit, DiskTyped, TableRow
<1>4. /\ \A p \in SecretPlaces : <<"stored", p>> \notin startTodo => stored[p] \in Readable
      /\ \A i \in DOMAIN table.rows :
           <<"credential", i>> \notin startTodo => table.rows[i] \in {<<"new">>, Doubled}
      /\ \A c \in OldChannels :
           channel[c] # None /\ <<"channel", c>> \notin startTodo => channel[c].secret \in Readable
      /\ \A y \in startTodo :
           \/ y[1] = "stored" /\ y[2] \in SecretPlaces
           \/ y[1] = "credential" /\ y[2] \in DOMAIN table.rows
           \/ y[1] = "channel" /\ y[2] \in OldChannels /\ channel[y[2]] # None
  BY <1>2 DEF RowsFit, ReadSoFar
<1>5. DigestsFit'
  BY <1>2 DEF RowsFit, DigestsFit
<1>6. Readable \subseteq Secret \cup {None}
  BY DEF Readable, Secret
<1>7. CASE x[1] = "stored"
  <2>1. x[2] \in SecretPlaces /\ UNCHANGED <<table, channel>>
    BY <1>1, <1>4, <1>7
  <2>2. ASSUME NEW p \in SecretPlaces
        PROVE  stored'[p] = IF p = x[2] THEN Starting!Rewritten(stored[p]) ELSE stored[p]
    BY <1>1, <1>3, <1>7
  <2>3. ASSUME NEW p \in SecretPlaces
        PROVE  /\ stored'[p] \in Secret \cup {None}
               /\ p = x[2] => stored'[p] \in Readable
               /\ p # x[2] => stored'[p] = stored[p]
    BY <1>3, <1>6, <2>2, RewrittenReadable
  <2>4. stored' \in [SecretPlaces -> Secret \cup {None}]
    BY <1>1, <1>3, <1>7, <2>3
  <2>5. DiskTyped'
    BY <1>2, <2>1, <2>4 DEF RowsFit, DiskTyped
  <2>6. ASSUME NEW p \in SecretPlaces, <<"stored", p>> \notin startTodo'
               PROVE stored'[p] \in Readable
    <3>1. p = x[2] \/ <<"stored", p>> \notin startTodo
      BY <1>1, <2>6
    <3> QED
      BY <1>4, <2>3, <3>1
  <2>7. /\ \A i : <<"credential", i>> \notin startTodo' => <<"credential", i>> \notin startTodo
        /\ \A c : <<"channel", c>> \notin startTodo' => <<"channel", c>> \notin startTodo
    BY <1>1, <1>7
  <2>8. ReadSoFar'
    BY <1>1, <1>2, <1>4, <2>1, <2>6, <2>7 DEF ReadSoFar
  <2>9. OldChannelsFit'
    BY <1>2, <2>1 DEF RowsFit, OldChannelsFit
  <2> QED
    BY <1>5, <2>5, <2>8, <2>9 DEF RowsFit
<1>8. CASE x[1] = "credential"
  <2>1. x[2] \in DOMAIN table.rows /\ UNCHANGED <<stored, channel>>
    BY <1>1, <1>4, <1>8
  <2> DEFINE rest == [table.rows EXCEPT ![x[2]] = Starting!Rewritten(table.rows[x[2]])]
  <2>2. table' = [table EXCEPT !.rows = rest]
    BY <1>1, <1>3, <1>8 DEF TableRow
  <2>3. PICK v \in TableSecret :
          v = Starting!Rewritten(table.rows[x[2]]) /\ v \in {<<"new">>, Doubled}
    <3>1. table.rows[x[2]] \in TableSecret
      BY <1>3, <2>1
    <3>2. Starting!Rewritten(table.rows[x[2]]) \in {<<"new">>, Doubled}
      BY <3>1, RewrittenInTable
    <3> QED
      BY <3>2 DEF TableSecret, Secret
  <2>4. /\ rest \in Seq(TableSecret) /\ DOMAIN rest = DOMAIN table.rows
        /\ rest[x[2]] \in {<<"new">>, Doubled}
        /\ \A i \in DOMAIN table.rows : i # x[2] => rest[i] = table.rows[i]
    BY <1>3, <2>1, <2>3
  <2> HIDE DEF rest
  <2>5. table' \in TableRow /\ table'.rows = rest
    BY <1>3, <2>2, <2>4 DEF TableRow
  <2>6. DiskTyped'
    BY <1>2, <2>1, <2>5 DEF RowsFit, DiskTyped
  <2>7. ASSUME NEW i \in DOMAIN table'.rows, <<"credential", i>> \notin startTodo'
        PROVE  table'.rows[i] \in {<<"new">>, Doubled}
    <3>1. i = x[2] \/ <<"credential", i>> \notin startTodo
      BY <1>1, <2>7
    <3>2. i \in DOMAIN table.rows
      BY <2>4, <2>5
    <3> QED
      BY <1>4, <2>4, <2>5, <3>1, <3>2
  <2>8. /\ \A p : <<"stored", p>> \notin startTodo' => <<"stored", p>> \notin startTodo
        /\ \A c : <<"channel", c>> \notin startTodo' => <<"channel", c>> \notin startTodo
    BY <1>1, <1>8
  <2>9. ReadSoFar'
    BY <1>1, <1>2, <1>4, <2>1, <2>4, <2>5, <2>7, <2>8 DEF ReadSoFar
  <2>10. OldChannelsFit'
    BY <1>2, <2>1 DEF RowsFit, OldChannelsFit
  <2> QED
    BY <1>5, <2>6, <2>9, <2>10 DEF RowsFit
<1>9. CASE x[1] = "channel"
  <2>1. x[2] \in OldChannels /\ channel[x[2]] # None /\ UNCHANGED <<stored, table>>
    BY <1>1, <1>4, <1>9
  <2>2. channel[x[2]] \in Starting!ChannelRows /\ channel[x[2]].secret \in Secret \cup {None}
    BY <1>3, <2>1 DEF Starting!ChannelRows, Secret
  <2>3. PICK v \in Readable : v = Starting!Rewritten(channel[x[2]].secret)
    BY <2>2, RewrittenReadable
  <2> DEFINE new == [channel[x[2]] EXCEPT !.secret = v]
  <2>4. channel' = [channel EXCEPT ![x[2]] = new]
    BY <1>1, <1>3, <1>9, <2>1, <2>3
  <2>5. /\ new \in Starting!ChannelRows /\ new.secret \in Readable
            /\ new.schedule = channel[x[2]].schedule
        /\ new # None
    <3>1. v \in {None, <<"old">>, <<"new">>}
      BY <2>3 DEF Readable
    <3> QED
      BY <2>2, <2>3, <3>1 DEF Starting!ChannelRows, Starting!MigrationsAssumption
  <2> HIDE DEF new
  <2>6. ASSUME NEW c \in OldChannels
        PROVE  /\ c = x[2] => channel'[c] = new
               /\ c # x[2] => channel'[c] = channel[c]
    BY <1>3, <2>4
  <2>7. channel' \in [OldChannels -> Starting!ChannelRows \cup {None}]
    BY <1>3, <2>4, <2>5
  <2>8. DiskTyped'
    BY <1>2, <2>1, <2>7 DEF RowsFit, DiskTyped
  <2>9. ASSUME NEW c \in OldChannels, channel'[c] # None, <<"channel", c>> \notin startTodo'
        PROVE  channel'[c].secret \in Readable
    <3>1. c = x[2] \/ <<"channel", c>> \notin startTodo
      BY <1>1, <2>9
    <3> QED
      BY <1>4, <2>5, <2>6, <2>9, <3>1
  <2>10. /\ \A p : <<"stored", p>> \notin startTodo' => <<"stored", p>> \notin startTodo
         /\ \A i : <<"credential", i>> \notin startTodo' => <<"credential", i>> \notin startTodo
    BY <1>1, <1>9
  <2>11. \A c \in OldChannels : channel'[c] # None <=> channel[c] # None
    BY <2>1, <2>5, <2>6
  <2>12. ReadSoFar'
    BY <1>1, <1>2, <1>4, <2>1, <2>9, <2>10, <2>11 DEF ReadSoFar
  <2>13. \A c \in OldChannels : channel'[c].schedule = channel[c].schedule
    BY <2>5, <2>6
  <2>14. OldChannelsFit'
    BY <1>2, <2>11, <2>13 DEF RowsFit, OldChannelsFit
  <2> QED
    BY <1>5, <2>8, <2>12, <2>14 DEF RowsFit
<1> QED
  BY <1>1, <1>7, <1>8, <1>9

LEMMA StepServe == ASSUME RowsFit, Starting!Serve PROVE RowsFit'
<1>1. /\ UNCHANGED <<table, copy, login, stored, settings, channel, digests, promised, startTodo>>
      /\ startPc = "salt" /\ startPc' = "up" /\ startTodo = {}
  BY DEF Starting!Serve, Starting!Goto, Starting!disk
<1> QED
  BY <1>1 DEF RowsFit, DiskTyped, ReadSoFar, DigestsFit, OldChannelsFit

LEMMA RowsStep ==
  Starting!MigrationsAssumption /\ RowsFit /\ [Starting!Next]_Starting!vars => RowsFit'
<1> SUFFICES ASSUME Starting!MigrationsAssumption, RowsFit, [Starting!Next]_Starting!vars
                    PROVE RowsFit'
  OBVIOUS
<1>1. CASE UNCHANGED Starting!vars
  BY <1>1 DEF Starting!vars, RowsFit, DiskTyped, ReadSoFar, DigestsFit, OldChannelsFit
<1> QED
  BY <1>1, StepOpens, StepRebuilds, StepCredential, StepInserts, StepDigest, StepClearSchedule,
     StepForgets, StepReencrypt, StepServe DEF Starting!Next

\* Steps that leave the credentials and the logins alone.
LEMMA CredentialsElsewhere ==
  ASSUME MigrationsInv, UNCHANGED <<table, copy, login, credential, legacy>>,
         startPc' \notin {"create", "fill", "drop", "rename", "link"},
         \/ startPc' \in {"down", "tables"}
         \/ startPc \notin {"down", "tables", "create", "fill", "drop", "rename"}
  PROVE  ShapesFit' /\ CredentialsFit'
BY DEF MigrationsInv, ShapesFit, CredentialsFit

\* The table is created where the start before died between DROP and RENAME.
LEMMA CredentialsTable == ASSUME MigrationsInv, Starting!Tables PROVE ShapesFit' /\ CredentialsFit'
<1>1. /\ UNCHANGED <<copy, login, credential, legacy>> /\ startPc = "tables"
      /\ startPc' = IF table'.shape = "scoped" THEN "create" ELSE "email"
      /\ table' = IF table = Starting!Missing THEN [Starting!Missing EXCEPT !.shape = "current"]
         ELSE table
  BY DEF Starting!Tables, Starting!Goto, Starting!Kept
<1>2. table \in TableRow
  BY DEF MigrationsInv, RowsFit, DiskTyped
<1>3. CASE table = Starting!Missing
  <2>1. table'.shape = "current" /\ table'.rows = << >> /\ table.shape = "missing"
    BY <1>1, <1>3 DEF Starting!Missing
  <2>2. DOMAIN table'.rows = {} /\ startPc' = "email" /\ \A s \in Systems : credential[s] = None
    BY <1>1, <2>1 DEF MigrationsInv, ShapesFit
  <2> QED
    BY <1>1, <2>1, <2>2 DEF MigrationsInv, ShapesFit, CredentialsFit
<1>4. CASE table # Starting!Missing
  <2>1. table' = table /\ table.shape \in {"scoped", "current"}
    BY <1>1, <1>4 DEF MigrationsInv, ShapesFit
  <2> QED
    BY <1>1, <2>1 DEF MigrationsInv, ShapesFit, CredentialsFit
<1> QED
  BY <1>3, <1>4

\* While it is rebuilt no system refers to it.
LEMMA CredentialsRebuilt ==
  ASSUME MigrationsInv, Starting!RebuildCredentials PROVE ShapesFit' /\ CredentialsFit'
<1>1. UNCHANGED <<login, credential, legacy>> /\ table \in TableRow /\ copy \in TableRow
  BY DEF Starting!RebuildCredentials, Starting!Kept, MigrationsInv, RowsFit, DiskTyped
<1>2. Starting!Missing.shape = "missing" /\ DOMAIN Starting!Missing.rows = {}
  BY DEF Starting!Missing
<1>3. \A s \in Systems : credential[s] = None
  BY <1>2 DEF Starting!RebuildCredentials, MigrationsInv, ShapesFit
<1>4. CASE startPc = "create" /\ copy # Starting!Missing
  <2>1. UNCHANGED <<table, copy>> /\ startPc' = "down"
    BY <1>4 DEF Starting!RebuildCredentials, Starting!Goto
  <2> QED
    BY <1>1, <1>3, <2>1 DEF MigrationsInv, ShapesFit, CredentialsFit
<1>5. CASE startPc = "create" /\ copy = Starting!Missing
  <2> DEFINE new == [Starting!Missing EXCEPT !.shape = "current"]
  <2>1. copy' = new /\ UNCHANGED table /\ startPc' = "fill"
    BY <1>5 DEF Starting!RebuildCredentials, Starting!Goto
  <2>2. new.shape = "current" /\ DOMAIN new.rows = {}
    BY DEF Starting!Missing
  <2> HIDE DEF new
  <2> QED
    BY <1>1, <1>3, <1>5, <2>1, <2>2 DEF MigrationsInv, ShapesFit, CredentialsFit
<1>6. CASE startPc = "fill"
  <2> DEFINE new == [copy EXCEPT !.rows = table.rows]
  <2>1. copy' = new /\ UNCHANGED table /\ startPc' = "drop"
    BY <1>6 DEF Starting!RebuildCredentials, Starting!Goto
  <2>2. new.shape = copy.shape /\ new.rows = table.rows
    BY <1>1 DEF TableRow
  <2> HIDE DEF new
  <2> QED
    BY <1>1, <1>3, <1>6, <2>1, <2>2 DEF MigrationsInv, ShapesFit, CredentialsFit
<1>7. CASE startPc = "drop"
  <2>1. table' = Starting!Missing /\ UNCHANGED copy /\ startPc' = "rename"
    BY <1>7 DEF Starting!RebuildCredentials, Starting!Goto
  <2> QED
    BY <1>1, <1>2, <1>3, <1>7, <2>1 DEF MigrationsInv, ShapesFit, CredentialsFit
<1>8. CASE startPc = "rename"
  <2>1. table' = copy /\ copy' = Starting!Missing /\ startPc' = "email"
    BY <1>8 DEF Starting!RebuildCredentials, Starting!Goto
  <2> QED
    BY <1>1, <1>2, <1>3, <1>8, <2>1 DEF MigrationsInv, ShapesFit, CredentialsFit
<1> QED
  BY <1>4, <1>5, <1>6, <1>7, <1>8 DEF Starting!RebuildCredentials

\* A credential is inserted behind those there are, and the system refers to it.
LEMMA CredentialsGrow ==
  ASSUME MigrationsInv, Starting!InsertCredential PROVE ShapesFit' /\ CredentialsFit'
<1>1. PICK s \in Starting!NoCredential :
        /\ table' = [table EXCEPT !.rows = Append(@, Starting!Normalized(login[s]))]
        /\ startPc' = "link" /\ startTodo' = {s}
  BY DEF Starting!InsertCredential
<1>2. /\ UNCHANGED <<copy, login, credential, legacy>> /\ startPc = "logins"
      /\ table \in TableRow /\ table.rows \in Seq(TableSecret) /\ table.shape = "current"
      /\ s \in Systems /\ login[s] \in {<< >>} \cup Secret
      /\ login[s] = <<"old">> => s \in legacy
  BY DEF Starting!InsertCredential, Starting!Kept, Starting!NoCredential, MigrationsInv, RowsFit,
         DiskTyped, TableRow,
         ShapesFit, CredentialsFit
<1> DEFINE v == Starting!Normalized(login[s])
           longer == Append(table.rows, v)
<1>3. v \in TableSecret /\ (s \notin legacy => v = <<"new">>)
  BY <1>2, NormalizedInTable
<1>4. table' = [table EXCEPT !.rows = longer]
  BY <1>1, <1>2 DEF TableRow
<1> HIDE DEF v
<1>5. /\ Len(table.rows) \in Nat /\ DOMAIN table.rows = 1 .. Len(table.rows)
      /\ Len(longer) = Len(table.rows) + 1 /\ DOMAIN longer = 1 .. Len(table.rows) + 1
      /\ longer[Len(table.rows) + 1] = v
      /\ \A i \in 1 .. Len(table.rows) : longer[i] = table.rows[i]
  BY <1>2, <1>3, AppendProperties
<1>6. table'.rows = longer /\ table'.shape = "current" /\ table' # Starting!Missing
  BY <1>2, <1>4 DEF TableRow, Starting!Missing
<1> HIDE DEF longer
<1>7. ShapesFit'
  BY <1>1, <1>2, <1>6 DEF ShapesFit
<1>8. v # <<"new">> => legacy # {}
  BY <1>3
<1>9. Doubled # <<"new">>
  BY DEF Doubled
<1>10. \A i \in DOMAIN table'.rows : table'.rows[i] = Doubled => legacy' # {}
  <2> SUFFICES ASSUME NEW i \in 1 .. Len(table.rows) + 1, longer[i] = Doubled PROVE legacy # {}
    BY <1>2, <1>5, <1>6
  <2>1. CASE i = Len(table.rows) + 1
    BY <1>5, <1>8, <1>9, <2>1
  <2>2. CASE i # Len(table.rows) + 1
    <3>1. i \in DOMAIN table.rows /\ table.rows[i] = Doubled
      BY <1>5, <2>2
    <3> QED
      BY <3>1 DEF MigrationsInv, CredentialsFit
  <2> QED
    BY <2>1, <2>2
<1>11. ASSUME NEW r \in Systems \ legacy, credential[r] # None
       PROVE  credential[r] \in DOMAIN longer /\ longer[credential[r]] = <<"new">>
  <2>1. credential[r] \in DOMAIN table.rows /\ table.rows[credential[r]] = <<"new">>
    BY <1>11 DEF MigrationsInv, CredentialsFit
  <2> QED
    BY <1>5, <2>1
<1>12. \A r \in startTodo' \ legacy : /\ Len(longer) \in DOMAIN longer
                                      /\ longer[Len(longer)] = <<"new">>
  BY <1>1, <1>3, <1>5
<1>13. CredentialsFit'
  BY <1>2, <1>6, <1>10, <1>11, <1>12 DEF MigrationsInv, CredentialsFit
<1> QED
  BY <1>7, <1>13

LEMMA CredentialsLink ==
  ASSUME Starting!MigrationsAssumption, MigrationsInv, Starting!LinkCredential PROVE ShapesFit'
         /\ CredentialsFit'
<1>1. PICK s \in startTodo : /\ credential' = [credential EXCEPT ![s] = Len(table.rows)]
                             /\ login' = [login EXCEPT ![s] = None]
  BY DEF Starting!LinkCredential
<1>2. /\ UNCHANGED <<table, copy, legacy>> /\ startPc = "link" /\ startPc' = "logins"
          /\ table.shape = "current"
      /\ login \in [Systems -> {None, << >>} \cup Secret]
  BY DEF Starting!LinkCredential, Starting!Kept, MigrationsInv, ShapesFit, RowsFit, DiskTyped
<1>3. ASSUME NEW r \in Systems PROVE login'[r] = <<"old">> => r \in legacy
  BY <1>1, <1>2 DEF MigrationsInv, CredentialsFit, Starting!MigrationsAssumption
<1>4. ASSUME NEW r \in Systems
      PROVE  credential'[r] = credential[r] \/ (r = s /\ credential'[r] = Len(table.rows))
  BY <1>1
<1>5. ShapesFit'
  BY <1>2 DEF MigrationsInv, ShapesFit
<1>6. ASSUME NEW r \in Systems \ legacy, credential'[r] # None
      PROVE  credential'[r] \in DOMAIN table.rows /\ table.rows[credential'[r]] = <<"new">>
  BY <1>2, <1>4, <1>6 DEF MigrationsInv, CredentialsFit
<1> QED
  BY <1>2, <1>3, <1>5, <1>6 DEF MigrationsInv, CredentialsFit

LEMMA CredentialsReencrypt ==
  ASSUME Starting!MigrationsAssumption, MigrationsInv, Starting!Reencrypt PROVE ShapesFit'
         /\ CredentialsFit'
<1>1. PICK x \in startTodo :
        \/ UNCHANGED table
        \/ x[1] = "credential" /\ table' = [table EXCEPT !.rows[x[2]] = Starting!Rewritten(@)]
  BY DEF Starting!Reencrypt
<1>2. /\ UNCHANGED <<copy, login, credential, legacy, startPc>> /\ startPc = "salt"
      /\ table \in TableRow /\ table.rows \in Seq(TableSecret) /\ table.shape = "current"
  BY DEF Starting!Reencrypt, MigrationsInv, ShapesFit, RowsFit, DiskTyped, TableRow
<1>3. CASE UNCHANGED table
  BY <1>2, <1>3 DEF MigrationsInv, ShapesFit, CredentialsFit
<1>4. CASE x[1] = "credential" /\ table' = [table EXCEPT !.rows[x[2]] = Starting!Rewritten(@)]
  <2>1. x[2] \in DOMAIN table.rows
    BY <1>2, <1>4 DEF MigrationsInv, RowsFit, ReadSoFar
  <2> DEFINE rest == [table.rows EXCEPT ![x[2]] = Starting!Rewritten(table.rows[x[2]])]
  <2>2. table' = [table EXCEPT !.rows = rest]
    BY <1>2, <1>4 DEF TableRow
  <2>3. table.rows[x[2]] \in TableSecret
    BY <1>2, <2>1
  <2>4. /\ DOMAIN rest = DOMAIN table.rows
        /\ rest[x[2]] = Doubled => table.rows[x[2]] = Doubled
        /\ table.rows[x[2]] = <<"new">> => rest[x[2]] = <<"new">>
        /\ \A i \in DOMAIN table.rows : i # x[2] => rest[i] = table.rows[i]
    BY <1>2, <2>1, <2>3, RewrittenInTable
  <2> HIDE DEF rest
  <2>5. table'.rows = rest /\ table'.shape = "current" /\ table' # Starting!Missing
    BY <1>2, <2>2 DEF TableRow, Starting!Missing
  <2>6. ShapesFit'
    BY <1>2, <2>5 DEF ShapesFit
  <2>7. \A i \in DOMAIN rest : rest[i] = Doubled => legacy # {}
    BY <2>4 DEF MigrationsInv, CredentialsFit
  <2>8. ASSUME NEW s \in Systems \ legacy, credential[s] # None
        PROVE  credential[s] \in DOMAIN rest /\ rest[credential[s]] = <<"new">>
    BY <2>4, <2>8 DEF MigrationsInv, CredentialsFit
  <2>9. CredentialsFit'
    BY <1>2, <2>5, <2>7, <2>8 DEF MigrationsInv, CredentialsFit
  <2> QED
    BY <2>6, <2>9
<1> QED
  BY <1>1, <1>3, <1>4

LEMMA MigrationsInit == Starting!MigrationsAssumption /\ Starting!Init => MigrationsInv
<1> SUFFICES ASSUME Starting!MigrationsAssumption, Starting!Init PROVE MigrationsInv
  OBVIOUS
<1>1. RowsFit
  BY RowsInit
<1>2. /\ startPc = "down" /\ copy = Starting!Missing /\ \A s \in Systems : credential[s] = None
      /\ legacy = {s \in Systems : login[s] = <<"old">>}
  BY DEF Starting!Init
<1>3. PICK shape \in {"scoped", "current"}, v \in Starting!Older(saltFile) \ {None} :
        table = [shape |-> shape, rows |-> <<v>>]
  BY DEF Starting!Init
<1>4. DOMAIN table.rows = {1} /\ table.rows[1] # Doubled /\ table.shape = shape
  BY <1>3 DEF Starting!Older, Doubled
<1>5. DOMAIN copy.rows = {}
  BY <1>2 DEF Starting!Missing
<1>6. ShapesFit
  BY <1>2, <1>4 DEF ShapesFit
<1>7. CredentialsFit
  BY <1>2, <1>4, <1>5 DEF CredentialsFit
<1> QED
  BY <1>1, <1>6, <1>7 DEF MigrationsInv

LEMMA MigrationsStep ==
  Starting!MigrationsAssumption /\ MigrationsInv /\ [Starting!Next]_Starting!vars => MigrationsInv'
<1> SUFFICES ASSUME Starting!MigrationsAssumption, MigrationsInv, [Starting!Next]_Starting!vars
                    PROVE MigrationsInv'
  OBVIOUS
<1>1. RowsFit'
  BY RowsStep DEF MigrationsInv
<1>2. CASE UNCHANGED Starting!vars
  BY <1>1, <1>2 DEF Starting!vars, MigrationsInv, ShapesFit, CredentialsFit
<1>3. CASE Starting!Start \/ Starting!LoginsDone \/ Starting!Crash \/ Starting!SettingsToChannels
           \/ Starting!ScheduleDigest \/ Starting!ClearSchedule
           \/ Starting!ForgetSettings \/ Starting!Serve
  <2>1. /\ UNCHANGED <<table, copy, login, credential, legacy>>
        /\ startPc' \notin {"create", "fill", "drop", "rename", "link"}
        /\ \/ startPc' \in {"down", "tables"}
           \/ startPc \notin {"down", "tables", "create", "fill", "drop", "rename"}
    BY <1>3 DEF Starting!Start, Starting!LoginsDone, Starting!Crash, Starting!SettingsToChannels,
                Starting!ScheduleDigest, Starting!ClearSchedule,
                Starting!ForgetSettings, Starting!Serve, Starting!Goto, Starting!Kept, Starting!disk
  <2> QED
    BY <1>1, <2>1, CredentialsElsewhere DEF MigrationsInv
<1> QED
  BY <1>1, <1>2, <1>3, CredentialsTable, CredentialsRebuilt, CredentialsGrow, CredentialsLink,
     CredentialsReencrypt DEF MigrationsInv, Starting!Next
LEMMA MigrationsHold == MigrationsInv => Starting!MigrationsSound
<1> SUFFICES ASSUME MigrationsInv PROVE Starting!SecretsKept /\ Starting!DigestsKept
  BY DEF Starting!MigrationsSound
<1>0. RowsFit
  BY DEF MigrationsInv
<1>1. Starting!SecretsKept
  <2> SUFFICES ASSUME startPc = "up"
               PROVE  /\ Starting!OtherCells \subseteq Readable
                      /\ Starting!StoredPasswords \subseteq {<<"new">>} \cup (IF legacy = {} THEN {} ELSE {Doubled})
                      /\ \A s \in Systems \ legacy :
                           credential[s] # None => table.rows[credential[s]] = <<"new">>
    BY DEF Starting!SecretsKept, Readable, Doubled
  <2>1. Starting!OtherCells \subseteq Readable
    BY <1>0 DEF RowsFit, ReadSoFar, Starting!OtherCells
  <2>2. Starting!StoredPasswords \subseteq {<<"new">>} \cup (IF legacy = {} THEN {} ELSE {Doubled})
    BY <1>0 DEF RowsFit, ReadSoFar, MigrationsInv, CredentialsFit, Starting!StoredPasswords
  <2> QED
    BY <2>1, <2>2 DEF MigrationsInv, CredentialsFit
<1>2. Starting!DigestsKept
  <2> SUFFICES ASSUME NEW c \in OldChannels, promised[c] # None
               PROVE  LET in == {i \in DOMAIN digests : c \in digests[i].channels} IN
                      /\ channel[c].schedule = promised[c]
                         \/ \E i \in in : digests[i].cron = promised[c]
                      /\ startPc = "up" => channel[c].schedule = None /\ \E i \in in : in = {i}
    BY DEF Starting!DigestsKept
  <2>1. /\ channel[c] # None
        /\ channel[c].schedule = promised[c] \/ InDigest(c, digests)
        /\ startPc = "up" => channel[c].schedule = None
    BY <1>0 DEF RowsFit, OldChannelsFit
  <2>2. ASSUME NEW i \in DOMAIN digests, c \in digests[i].channels
        PROVE  /\ digests[i].cron = promised[c]
               /\ {j \in DOMAIN digests : c \in digests[j].channels} = {i}
    BY <1>0, <2>2 DEF RowsFit, DigestsFit
  <2> QED
    BY <2>1, <2>2 DEF InDigest
<1> QED
  BY <1>1, <1>2

(* The server serves with every secret readable, but for credentials made  *)
(* of logins that were under the old salt, and no channel loses the        *)
(* schedule of its digests, however often starts before it died.           *)
THEOREM MigrationsCorrect == ASSUME Starting!MigrationsAssumption PROVE Starting!Spec
        => []Starting!MigrationsSound
<1>1. Starting!Init => MigrationsInv
  BY MigrationsInit
<1>2. MigrationsInv /\ [Starting!Next]_Starting!vars => MigrationsInv'
  BY MigrationsStep
<1>3. MigrationsInv => Starting!MigrationsSound
  BY MigrationsHold
<1> QED
  BY <1>1, <1>2, <1>3, PTL DEF Starting!Spec

--------------------------------------------------------------------------------
Migrating == INSTANCE SchemaMigrations WITH channel <- alerts

--------------------------------------------------------------------------------
(***************************************************************************)
(* The migrations of the schema.  Every statement keeps what it does not   *)
(* have to change, and does nothing when it is repeated: what a dead start *)
(* did stays done, and its markers say so.                                 *)
(***************************************************************************)
Legacy == {"unique", "ignore"}
AfterRebuild == {"configs", "reasons", "mail", "refresh", "refreshed", "dedupe", "up"}
AfterReasons == {"mail", "refresh", "refreshed", "dedupe", "up"}
AfterMail == {"refresh", "refreshed", "dedupe", "up"}
AfterRefresh == {"dedupe", "up"}

\* The hidden updates of one system, in the rows of now and of the beginning.
RowFits(r, f, ignored) ==
  IF ignored THEN (r.ignore => f.ignore) /\ (r.auto => f.ignore) /\ (r.apt = "on" => f.ignore)
  ELSE Migrating!Effective(r) <=> Migrating!Effective(f)

ReasonFits(s) ==
  IF "reason" \in first.markers THEN row[s].reason = first.row[s].reason
  ELSE /\ row[s].reason = "kept_back" => Migrating!Effective(row[s]) /\ columns \cap Legacy = {}
       /\ "reason" \in markers => columns \cap Legacy = {}
       /\ "reason" \in markers => (Migrating!Effective(row[s]) => row[s].reason = "kept_back")
       /\ pc = "reasons" /\ s \notin todo
          => (Migrating!Effective(row[s]) => row[s].reason = "kept_back")

RowsKept ==
  /\ row \in [Systems -> Migrating!SystemRow] /\ had \in BOOLEAN
  /\ pc \in AfterRebuild => columns \cap Legacy = {}
  /\ "ignore" \notin first.columns => columns \cap Legacy = {}
  /\ \A s \in Systems : RowFits(row[s], first.row[s], "ignore" \in first.columns) /\ ReasonFits(s)

MarkersKept ==
  /\ first.markers \subseteq markers
  /\ pc = "reasons" => "reason" \notin markers
  /\ pc \in AfterReasons => "reason" \in markers
  /\ pc = "refreshed" => "refresh" \notin markers
  /\ pc \in AfterRefresh => "refresh" \in markers
  /\ pc = "dedupe" => "dedupe" \notin markers
  /\ pc = "up" => "dedupe" \in markers

MailFits ==
  /\ mail \in Migrating!MailConfig /\ Migrating!ModeOf(mail) = Migrating!ModeOf(first.mail)
  /\ pc \in AfterMail => mail.mode # "unset"

RefreshFits ==
  IF "refresh" \in first.markers THEN refreshes = first.refreshes
  ELSE /\ refreshes \in {0, 1}
       /\ "refresh" \in markers \/ pc = "refreshed" => refreshes = 1

ChannelFits(c) ==
  IF "dedupe" \in first.markers THEN alerts[c] = first.channel[c]
  ELSE /\ "dedupe" \in markers => alerts[c].delivered /\ ~alerts[c].pending
       /\ pc = "dedupe" /\ <<c, "seed">> \notin todo => alerts[c].delivered
       /\ pc = "dedupe" /\ <<c, "strip">> \notin todo => ~alerts[c].pending

ChannelsFit == alerts \in [Channels -> Migrating!ChannelRow] /\ \A c \in Channels : ChannelFits(c)

SchemaInv == RowsKept /\ MarkersKept /\ MailFits /\ RefreshFits /\ ChannelsFit

\* The rows stay what they were, whatever the statement and the loop are now.
RowsSame ==
  /\ UNCHANGED <<row, columns, first, had>>
  /\ "reason" \in markers' <=> "reason" \in markers
  /\ pc' = "reasons" => pc = "reasons" /\ todo' = todo
  /\ pc' \in AfterRebuild => pc \in AfterRebuild

LEMMA KeepsRows == RowsKept /\ RowsSame => RowsKept'
BY DEF RowsKept, RowsSame, RowFits, ReasonFits, Migrating!Effective

LEMMA SchemaInit == Migrating!Init => SchemaInv
<1> SUFFICES ASSUME Migrating!Init PROVE SchemaInv
  OBVIOUS
<1>1. pc = "down" /\ first.columns = columns /\ first.markers = markers /\ first.row = row
      /\ first.mail = mail /\ first.refreshes = refreshes /\ first.channel = alerts
  BY DEF Migrating!Init
<1>2. RowsKept
  <2>1. row \in [Systems -> Migrating!SystemRow] /\ had \in BOOLEAN
    BY DEF Migrating!Init
  <2>2. "ignore" \notin columns => columns \cap Legacy = {}
    BY DEF Migrating!Init, Legacy
  <2>3. ASSUME NEW s \in Systems
        PROVE  RowFits(row[s], row[s], "ignore" \in columns) /\ ReasonFits(s)
    <3>1. "ignore" \in columns => "auto" \notin columns
      BY DEF Migrating!Init
    <3>2. /\ row[s].auto \/ row[s].apt # "unset" => "auto" \in columns
          /\ row[s].reason = "kept_back" => "reason" \in markers
      BY DEF Migrating!Init
    <3>3. RowFits(row[s], row[s], "ignore" \in columns)
      BY <3>1, <3>2 DEF RowFits
    <3>4. ReasonFits(s)
      BY <1>1, <3>2 DEF ReasonFits
    <3> QED
      BY <3>3, <3>4
  <2> QED
    BY <1>1, <2>1, <2>2, <2>3 DEF RowsKept, AfterRebuild
<1>3. MarkersKept
  BY <1>1 DEF MarkersKept, AfterReasons, AfterRefresh
<1>4. MailFits
  BY <1>1 DEF MailFits, AfterMail, Migrating!Init
<1>5. RefreshFits
  BY <1>1 DEF RefreshFits, Migrating!Init
<1>6. ChannelsFit
  BY <1>1 DEF ChannelsFit, ChannelFits, Migrating!Init
<1> QED
  BY <1>2, <1>3, <1>4, <1>5, <1>6 DEF SchemaInv

LEMMA StepSchemaStart == ASSUME SchemaInv, Migrating!Start PROVE SchemaInv'
<1>1. pc' = "verification" /\ had' \in BOOLEAN
        /\ UNCHANGED <<columns, row, mail, refreshes, markers, alerts, first>>
  BY DEF Migrating!Start, Migrating!Goto, Migrating!database
<1> QED
  BY <1>1 DEF SchemaInv, RowsKept, MarkersKept, MailFits, RefreshFits, ChannelsFit, ChannelFits,
     RowFits, ReasonFits, Migrating!Effective, AfterRebuild, AfterReasons, AfterMail, AfterRefresh

LEMMA StepSchemaCrash == ASSUME SchemaInv, Migrating!Crash PROVE SchemaInv'
<1>1. pc' = "down" /\ had' \in BOOLEAN
        /\ UNCHANGED <<columns, row, mail, refreshes, markers, alerts, first>>
  BY DEF Migrating!Crash, Migrating!database
<1> QED
  BY <1>1 DEF SchemaInv, RowsKept, MarkersKept, MailFits, RefreshFits, ChannelsFit, ChannelFits,
     RowFits, ReasonFits, Migrating!Effective, AfterRebuild, AfterReasons, AfterMail, AfterRefresh

LEMMA WithVerify ==
  ASSUME NEW r \in Migrating!SystemRow, NEW v \in BOOLEAN
  PROVE  LET q == [r EXCEPT !.verify = v] IN
         /\ q \in Migrating!SystemRow /\ q.ignore = r.ignore /\ q.auto = r.auto /\ q.apt = r.apt
         /\ q.reason = r.reason
BY DEF Migrating!SystemRow

\* The statements before the rebuild leave alone what hides updates.
LEMMA StepBefore ==
  ASSUME SchemaInv, Migrating!AddVerification \/ Migrating!AddColumns PROVE SchemaInv'
<1>1. /\ pc' \in {"unverified", "columns", "rebuild"}
      /\ UNCHANGED <<mail, refreshes, markers, alerts, first>>
      /\ columns' \cap Legacy = columns \cap Legacy
  BY DEF Migrating!AddVerification, Migrating!AddColumns, Migrating!Goto, Legacy
<1>2. ASSUME NEW s \in Systems
      PROVE  /\ row'[s] \in Migrating!SystemRow
             /\ row'[s].ignore = row[s].ignore /\ row'[s].auto = row[s].auto
             /\ row'[s].apt = row[s].apt /\ row'[s].reason = row[s].reason
  <2>1. row[s] \in Migrating!SystemRow
    BY DEF SchemaInv, RowsKept
  <2>2. \/ row'[s] = row[s]
        \/ row'[s] = [row[s] EXCEPT !.verify = TRUE]
        \/ row'[s] = [row[s] EXCEPT !.verify = FALSE]
    BY DEF Migrating!AddVerification, Migrating!AddColumns
  <2> QED
    BY <2>1, <2>2, WithVerify
<1>3. row' \in [Systems -> Migrating!SystemRow] /\ had' = had
  <2>1. row' = row \/ row' = [s \in Systems |-> row'[s]]
    BY DEF Migrating!AddVerification, Migrating!AddColumns
  <2> QED
    BY <1>2, <2>1 DEF Migrating!AddVerification, Migrating!AddColumns, SchemaInv, RowsKept
<1>4. RowsKept'
  BY <1>1, <1>2, <1>3 DEF SchemaInv, RowsKept, RowFits, ReasonFits, Migrating!Effective,
     AfterRebuild
<1> QED
  BY <1>1, <1>4 DEF SchemaInv, MarkersKept, MailFits, RefreshFits, ChannelsFit, ChannelFits,
     AfterReasons, AfterMail, AfterRefresh

LEMMA StepRebuild == ASSUME SchemaInv, Migrating!RebuildSystems PROVE SchemaInv'
<1>1. /\ pc' = "configs" /\ UNCHANGED <<mail, refreshes, markers, alerts, had, first>>
      /\ columns' = columns \ Legacy
  BY DEF Migrating!RebuildSystems, Migrating!Goto, Legacy
<1>2. CASE columns' = columns
  <2>1. UNCHANGED row
    BY <1>2 DEF Migrating!RebuildSystems
  <2>2. columns \cap Legacy = {}
    BY <1>1, <1>2
  <2>3. RowsKept'
    BY <1>1, <1>2, <2>1, <2>2 DEF SchemaInv, RowsKept, RowFits, ReasonFits, Migrating!Effective
  <2> QED
    BY <1>1, <2>3 DEF SchemaInv, MarkersKept, MailFits, RefreshFits, ChannelsFit, ChannelFits,
       AfterReasons, AfterMail, AfterRefresh
<1>3. CASE columns' # columns
  <2>1. row' = [s \in Systems |-> Migrating!Rebuilt(s)]
    BY <1>3 DEF Migrating!RebuildSystems
  <2>2. "ignore" \in first.columns /\ columns \cap Legacy # {}
    BY <1>1, <1>3 DEF SchemaInv, RowsKept
  <2>3. ASSUME NEW s \in Systems
        PROVE  /\ row[s] \in Migrating!SystemRow /\ row'[s] \in Migrating!SystemRow
               /\ row'[s].apt = row[s].apt /\ row'[s].reason = row[s].reason
               /\ row'[s].auto => row[s].auto \/ row[s].ignore
               /\ ~row'[s].ignore
    BY <2>1 DEF Migrating!Rebuilt, SchemaInv, RowsKept, Migrating!SystemRow
  <2>4. row' \in [Systems -> Migrating!SystemRow] /\ had' \in BOOLEAN
    BY <2>1, <2>3 DEF Migrating!RebuildSystems, SchemaInv, RowsKept
  <2>5. ASSUME NEW s \in Systems
        PROVE  RowFits(row'[s], first.row[s], TRUE)
    BY <2>2, <2>3 DEF SchemaInv, RowsKept, RowFits
  <2>6. ASSUME NEW s \in Systems PROVE ReasonFits(s)'
    <3>1. ReasonFits(s) /\ row[s].reason \in {"manual", "kept_back"}
      BY <2>3 DEF SchemaInv, RowsKept, Migrating!SystemRow
    <3> QED
      BY <1>1, <2>2, <2>3, <3>1 DEF ReasonFits
  <2>7. RowsKept'
    BY <1>1, <2>2, <2>4, <2>5, <2>6 DEF RowsKept
  <2> QED
    BY <1>1, <2>7 DEF SchemaInv, MarkersKept, MailFits, RefreshFits, ChannelsFit, ChannelFits,
       AfterReasons, AfterMail, AfterRefresh
<1> QED
  BY <1>2, <1>3

\* The entry of the package manager configs hides what the column hid.
LEMMA MergedSame ==
  ASSUME NEW r \in Migrating!SystemRow
  PROVE  LET q == Migrating!Merged(r) IN
         /\ q \in Migrating!SystemRow /\ q.ignore = r.ignore /\ q.auto = r.auto
            /\ q.reason = r.reason
         /\ q.apt = "on" => r.apt = "on" \/ r.auto
         /\ Migrating!Effective(q) <=> Migrating!Effective(r)
BY DEF Migrating!Merged, Migrating!SystemRow, Migrating!Effective

LEMMA StepMerge == ASSUME SchemaInv, Migrating!MergeConfigs PROVE SchemaInv'
<1>1. UNCHANGED <<columns, mail, refreshes, markers, alerts, had, first>> /\ pc = "configs"
  BY DEF Migrating!MergeConfigs, Migrating!Goto
<1>2. CASE /\ UNCHANGED row
           /\ \/ "reason" \in markers /\ pc' = "mail"
              \/ "reason" \notin markers /\ pc' = "reasons" /\ todo' = Systems
  <2>1. ASSUME NEW s \in Systems PROVE ReasonFits(s)'
    <3>1. ReasonFits(s)
      BY DEF SchemaInv, RowsKept
    <3> QED
      BY <1>1, <1>2, <3>1 DEF ReasonFits, Migrating!Effective
  <2>2. RowsKept'
    BY <1>1, <1>2, <2>1 DEF SchemaInv, RowsKept, RowFits, Migrating!Effective, AfterRebuild
  <2> QED
    BY <1>1, <1>2, <2>2 DEF SchemaInv, MarkersKept, MailFits, RefreshFits, ChannelsFit, ChannelFits,
       AfterReasons, AfterMail, AfterRefresh
<1>3. ASSUME NEW s \in todo, row' = [row EXCEPT ![s] = Migrating!Merged(@)], pc' = "configs"
      PROVE  SchemaInv'
  <2>1. ASSUME NEW q \in Systems
        PROVE  /\ row[q] \in Migrating!SystemRow /\ row'[q] \in Migrating!SystemRow
               /\ row'[q].ignore = row[q].ignore /\ row'[q].auto = row[q].auto
               /\ row'[q].reason = row[q].reason
               /\ row'[q].apt = "on" => row[q].apt = "on" \/ row[q].auto
               /\ Migrating!Effective(row'[q]) <=> Migrating!Effective(row[q])
    <3>1. row[q] \in Migrating!SystemRow
      BY DEF SchemaInv, RowsKept
    <3>2. CASE q = s
      <4>1. row'[q] = Migrating!Merged(row[q])
        BY <1>3, <3>2 DEF SchemaInv, RowsKept
      <4> QED
        BY <3>1, <4>1, MergedSame
    <3>3. CASE q # s
      <4>1. row'[q] = row[q]
        BY <1>3, <3>3 DEF SchemaInv, RowsKept
      <4> QED
        BY <3>1, <4>1
    <3> QED
      BY <3>2, <3>3
  <2>2. row' \in [Systems -> Migrating!SystemRow]
    BY <1>3, <2>1 DEF SchemaInv, RowsKept
  <2>3. ASSUME NEW q \in Systems
        PROVE  RowFits(row'[q], first.row[q], "ignore" \in first.columns)
    <3>1. RowFits(row[q], first.row[q], "ignore" \in first.columns)
      BY DEF SchemaInv, RowsKept
    <3> QED
      BY <2>1, <3>1 DEF RowFits
  <2>4. ASSUME NEW q \in Systems PROVE ReasonFits(q)'
    <3>1. ReasonFits(q)
      BY DEF SchemaInv, RowsKept
    <3> QED
      BY <1>1, <1>3, <2>1, <3>1 DEF ReasonFits
  <2>5. RowsKept'
    BY <1>1, <2>2, <2>3, <2>4 DEF SchemaInv, RowsKept, AfterRebuild
  <2> QED
    BY <1>1, <1>3, <2>5 DEF SchemaInv, MarkersKept, MailFits, RefreshFits, ChannelsFit, ChannelFits,
       AfterReasons, AfterMail, AfterRefresh
<1> QED
  BY <1>1, <1>2, <1>3 DEF Migrating!MergeConfigs, Migrating!Goto

LEMMA WithReason ==
  ASSUME NEW r \in Migrating!SystemRow
  PROVE  LET q == [r EXCEPT !.reason = "kept_back"] IN
         /\ q \in Migrating!SystemRow /\ q.ignore = r.ignore /\ q.auto = r.auto /\ q.apt = r.apt
         /\ q.reason = "kept_back"
BY DEF Migrating!SystemRow

LEMMA StepClassify == ASSUME SchemaInv, Migrating!ClassifyHidden PROVE SchemaInv'
<1>1. /\ UNCHANGED <<columns, mail, refreshes, alerts, had, first>> /\ pc = "reasons"
      /\ "reason" \notin markers /\ columns \cap Legacy = {} /\ "reason" \notin first.markers
  BY DEF Migrating!ClassifyHidden, Migrating!Goto, SchemaInv, RowsKept, MarkersKept, AfterRebuild
<1>2. CASE todo = {} /\ markers' = markers \cup {"reason"} /\ UNCHANGED row /\ pc' = "mail"
  <2>1. ASSUME NEW s \in Systems PROVE ReasonFits(s)'
    <3>1. ReasonFits(s)
      BY DEF SchemaInv, RowsKept
    <3> QED
      BY <1>1, <1>2, <3>1 DEF ReasonFits, Migrating!Effective
  <2>2. RowsKept'
    BY <1>1, <1>2, <2>1 DEF SchemaInv, RowsKept, RowFits, Migrating!Effective, AfterRebuild
  <2> QED
    BY <1>1, <1>2, <2>2 DEF SchemaInv, MarkersKept, MailFits, RefreshFits, ChannelsFit, ChannelFits,
       AfterReasons, AfterMail, AfterRefresh
<1>3. ASSUME NEW s \in todo, UNCHANGED markers, pc' = "reasons", todo' = todo \ {s},
             row' = IF Migrating!Effective(row[s]) THEN [row EXCEPT ![s].reason = "kept_back"]
                 ELSE row
      PROVE  SchemaInv'
  <2>1. ASSUME NEW q \in Systems
        PROVE  /\ row'[q] \in Migrating!SystemRow
               /\ row'[q].ignore = row[q].ignore /\ row'[q].auto = row[q].auto
               /\ row'[q].apt = row[q].apt
               /\ IF q = s /\ Migrating!Effective(row[q]) THEN row'[q].reason = "kept_back"
                  ELSE row'[q].reason = row[q].reason
    <3>1. row[q] \in Migrating!SystemRow
      BY DEF SchemaInv, RowsKept
    <3>2. CASE q = s /\ Migrating!Effective(row[q])
      <4>1. row'[q] = [row[q] EXCEPT !.reason = "kept_back"]
        BY <1>3, <3>2 DEF SchemaInv, RowsKept
      <4> QED
        BY <3>1, <3>2, <4>1, WithReason
    <3>3. CASE ~(q = s /\ Migrating!Effective(row[q]))
      <4>1. row'[q] = row[q]
        BY <1>3, <3>3 DEF SchemaInv, RowsKept
      <4> QED
        BY <3>1, <3>3, <4>1
    <3> QED
      BY <3>2, <3>3
  <2>2. row' \in [Systems -> Migrating!SystemRow]
    BY <1>3, <2>1 DEF SchemaInv, RowsKept
  <2>3. ASSUME NEW q \in Systems
        PROVE  RowFits(row'[q], first.row[q], "ignore" \in first.columns)
    <3>1. RowFits(row[q], first.row[q], "ignore" \in first.columns)
      BY DEF SchemaInv, RowsKept
    <3> QED
      BY <2>1, <3>1 DEF RowFits, Migrating!Effective
  <2>4. ASSUME NEW q \in Systems PROVE ReasonFits(q)'
    <3>1. ReasonFits(q)
      BY DEF SchemaInv, RowsKept
    <3>2. Migrating!Effective(row'[q]) <=> Migrating!Effective(row[q])
      BY <2>1 DEF Migrating!Effective
    <3>3. row'[q].reason = "kept_back" => Migrating!Effective(row'[q])
      BY <1>1, <2>1, <3>1, <3>2 DEF ReasonFits
    <3>4. q \notin todo' => (Migrating!Effective(row'[q]) => row'[q].reason = "kept_back")
      BY <1>1, <1>3, <2>1, <3>1, <3>2 DEF ReasonFits
    <3> QED
      BY <1>1, <1>3, <3>3, <3>4 DEF ReasonFits
  <2>5. RowsKept'
    BY <1>1, <1>3, <2>2, <2>3, <2>4 DEF SchemaInv, RowsKept, AfterRebuild
  <2> QED
    BY <1>1, <1>3, <2>5 DEF SchemaInv, MarkersKept, MailFits, RefreshFits, ChannelsFit, ChannelFits,
       AfterReasons, AfterMail, AfterRefresh
<1> QED
  BY <1>1, <1>2, <1>3 DEF Migrating!ClassifyHidden, Migrating!Goto

LEMMA StepMail == ASSUME SchemaInv, Migrating!RewriteMail PROVE SchemaInv'
<1>1. /\ UNCHANGED <<columns, row, refreshes, markers, alerts, had, first>>
      /\ pc = "mail" /\ pc' = "refresh"
      /\ mail' = [mail EXCEPT !.mode = Migrating!ModeOf(mail), !.secure = "unset"]
  BY DEF Migrating!RewriteMail, Migrating!Goto
<1>2. mail \in Migrating!MailConfig
  BY DEF SchemaInv, MailFits
<1>3. Migrating!ModeOf(mail) \in Migrating!Modes
  BY <1>2 DEF Migrating!ModeOf, Migrating!MailConfig, Migrating!Modes
<1>4. mail' \in Migrating!MailConfig /\ mail'.mode = Migrating!ModeOf(mail) /\ mail'.mode # "unset"
  BY <1>1, <1>2, <1>3 DEF Migrating!MailConfig, Migrating!Modes
<1>5. Migrating!ModeOf(mail)' = Migrating!ModeOf(mail)
  BY <1>4 DEF Migrating!ModeOf
<1>6. MailFits'
  BY <1>1, <1>4, <1>5 DEF SchemaInv, MailFits
<1>7. RowsKept'
  BY <1>1, KeepsRows DEF SchemaInv, RowsSame, AfterRebuild
<1> QED
  BY <1>1, <1>6, <1>7 DEF SchemaInv, MarkersKept, RefreshFits, ChannelsFit, ChannelFits,
     AfterReasons, AfterRefresh

LEMMA StepRefresh == ASSUME SchemaInv, Migrating!AddRefresh PROVE SchemaInv'
<1>1. /\ UNCHANGED <<columns, row, mail, alerts, had, first>>
      /\ pc \in {"refresh", "refreshed"} /\ pc' \in {"refreshed", "up", "dedupe"}
  BY DEF Migrating!AddRefresh, Migrating!RefreshDone, Migrating!Seeding, Migrating!Goto
<1>2. /\ markers' \in {markers, markers \cup {"refresh"}}
      /\ pc = "refreshed" => markers' = markers \cup {"refresh"}
      /\ pc' = "refreshed" => pc = "refresh" /\ "refresh" \notin markers /\ markers' = markers
      /\ pc = "refresh" => markers' = markers /\ ("refresh" \in markers \/ pc' = "refreshed")
      /\ pc' = "up" => "dedupe" \in markers
      /\ pc' = "dedupe" => "dedupe" \notin markers /\ todo' = Channels \X {"seed", "strip"}
  BY <1>1 DEF Migrating!AddRefresh, Migrating!RefreshDone, Migrating!Seeding, Migrating!Goto
<1>3. /\ pc = "refreshed" => UNCHANGED refreshes
      /\ pc = "refresh" => UNCHANGED refreshes
         \/ (refreshes' = Migrating!Inserted(refreshes) /\ pc' = "refreshed")
      /\ "refresh" \in markers => UNCHANGED refreshes
  BY <1>1 DEF Migrating!AddRefresh, Migrating!RefreshDone, Migrating!Goto, SchemaInv, MarkersKept
<1>4. RowsKept'
  BY <1>1, <1>2, KeepsRows DEF SchemaInv, RowsSame, AfterRebuild
<1>5. MarkersKept'
  BY <1>1, <1>2 DEF SchemaInv, MarkersKept, AfterReasons, AfterRefresh
<1>6. MailFits'
  BY <1>1 DEF SchemaInv, MailFits, AfterMail
<1>7. RefreshFits'
  <2>1. CASE "refresh" \in first.markers
    <3>1. "refresh" \in markers
      BY <2>1 DEF SchemaInv, MarkersKept
    <3> QED
      BY <1>1, <1>3, <2>1, <3>1 DEF SchemaInv, RefreshFits
  <2>2. CASE "refresh" \notin first.markers
    <3>1. refreshes \in {0, 1} /\ ("refresh" \in markers \/ pc = "refreshed" => refreshes = 1)
      BY <2>2 DEF SchemaInv, RefreshFits
    <3>2. refreshes' \in {0, 1} /\ ("refresh" \in markers' \/ pc' = "refreshed" => refreshes' = 1)
      BY <1>1, <1>2, <1>3, <3>1 DEF Migrating!AddRefresh, Migrating!RefreshDone, Migrating!Inserted,
         Migrating!Goto
    <3> QED
      BY <1>1, <2>2, <3>2 DEF RefreshFits
  <2> QED
    BY <2>1, <2>2
<1>8. ChannelsFit'
  <2>1. ASSUME NEW c \in Channels PROVE ChannelFits(c)'
    <3>1. ChannelFits(c)
      BY DEF SchemaInv, ChannelsFit
    <3>2. "dedupe" \in markers' <=> "dedupe" \in markers
      BY <1>2
    <3> QED
      BY <1>1, <1>2, <3>1, <3>2 DEF ChannelFits
  <2> QED
    BY <1>1, <2>1 DEF SchemaInv, ChannelsFit
<1> QED
  BY <1>4, <1>5, <1>6, <1>7, <1>8 DEF SchemaInv

\* Steps of the deduplication leave everything but the channels alone.
LEMMA StepDelivers ==
  ASSUME SchemaInv, UNCHANGED <<columns, row, mail, refreshes, had, first>>, pc = "dedupe",
         \/ pc' = "dedupe" /\ markers' = markers
         \/ pc' = "up" /\ markers' = markers \cup {"dedupe"},
         alerts' \in [Channels -> Migrating!ChannelRow], \A c \in Channels : ChannelFits(c)'
  PROVE  SchemaInv'
<1>1. RowsKept'
  BY KeepsRows DEF SchemaInv, RowsSame, AfterRebuild
<1>2. MarkersKept'
  BY DEF SchemaInv, MarkersKept, AfterReasons, AfterRefresh
<1>3. MailFits' /\ RefreshFits'
  BY DEF SchemaInv, MailFits, RefreshFits, AfterMail
<1> QED
  BY <1>1, <1>2, <1>3 DEF SchemaInv, ChannelsFit

LEMMA StepSeed == ASSUME SchemaInv, Migrating!SeedDelivered PROVE SchemaInv'
<1>1. /\ pc = "dedupe" /\ pc' = "dedupe"
      /\ UNCHANGED <<columns, row, mail, refreshes, markers, had, first>>
      /\ "dedupe" \notin markers /\ "dedupe" \notin first.markers
  BY DEF Migrating!SeedDelivered, Migrating!Goto, SchemaInv, MarkersKept
<1>2. ASSUME NEW c \in Channels
      PROVE  /\ alerts[c] \in Migrating!ChannelRow /\ alerts[c].delivered \in BOOLEAN
             /\ alerts[c].pending \in BOOLEAN
             /\ <<c, "seed">> \notin todo => alerts[c].delivered
             /\ <<c, "strip">> \notin todo => ~alerts[c].pending
  <2>1. alerts[c] \in Migrating!ChannelRow
    BY DEF SchemaInv, ChannelsFit
  <2>2. ChannelFits(c)
    BY DEF SchemaInv, ChannelsFit
  <2> QED
    BY <1>1, <2>1, <2>2 DEF Migrating!ChannelRow, ChannelFits
<1>3. PICK c \in Channels, kind \in {"seed", "strip"} :
        /\ todo' = todo \ {<<c, kind>>}
        /\ alerts' = IF kind = "seed" THEN [alerts EXCEPT ![c].delivered = TRUE]
                     ELSE [alerts EXCEPT ![c].pending = FALSE]
  BY DEF Migrating!SeedDelivered, Migrating!Goto
<1>4. ASSUME NEW d \in Channels
      PROVE  /\ alerts'[d] \in Migrating!ChannelRow
             /\ alerts'[d].delivered = (alerts[d].delivered \/ (d = c /\ kind = "seed"))
             /\ alerts'[d].pending = (alerts[d].pending /\ ~(d = c /\ kind = "strip"))
  BY <1>2, <1>3 DEF SchemaInv, ChannelsFit, Migrating!ChannelRow
<1>5. alerts' \in [Channels -> Migrating!ChannelRow]
  BY <1>3, <1>4 DEF SchemaInv, ChannelsFit
<1>6. ASSUME NEW d \in Channels PROVE ChannelFits(d)'
  <2>1. <<d, "seed">> \notin todo' => alerts'[d].delivered
    BY <1>2, <1>3, <1>4
  <2>2. <<d, "strip">> \notin todo' => ~alerts'[d].pending
    BY <1>2, <1>3, <1>4
  <2> QED
    BY <1>1, <2>1, <2>2 DEF ChannelFits
<1> QED
  BY <1>1, <1>5, <1>6, StepDelivers

LEMMA StepMark == ASSUME SchemaInv, Migrating!MarkDelivered PROVE SchemaInv'
<1>1. /\ pc = "dedupe" /\ pc' = "up" /\ todo = {} /\ markers' = markers \cup {"dedupe"}
      /\ UNCHANGED <<columns, row, mail, refreshes, alerts, had, first>>
      /\ "dedupe" \notin first.markers
  BY DEF Migrating!MarkDelivered, Migrating!Goto, SchemaInv, MarkersKept
<1>2. ASSUME NEW c \in Channels PROVE ChannelFits(c)'
  <2>1. ChannelFits(c)
    BY DEF SchemaInv, ChannelsFit
  <2> QED
    BY <1>1, <2>1 DEF ChannelFits
<1> QED
  BY <1>1, <1>2, StepDelivers DEF SchemaInv, ChannelsFit

LEMMA SchemaStep == SchemaInv /\ [Migrating!Next]_Migrating!vars => SchemaInv'
<1> SUFFICES ASSUME SchemaInv, [Migrating!Next]_Migrating!vars PROVE SchemaInv'
  OBVIOUS
<1>1. CASE UNCHANGED Migrating!vars
  <2>1. UNCHANGED <<columns, row, mail, refreshes, markers, alerts, had, pc, todo, first>>
    BY <1>1 DEF Migrating!vars, Migrating!database
  <2> QED
    BY <2>1 DEF SchemaInv, RowsKept, MarkersKept, MailFits, RefreshFits, ChannelsFit, ChannelFits,
       RowFits, ReasonFits, Migrating!Effective
<1> QED
  BY <1>1, StepSchemaStart, StepSchemaCrash, StepBefore, StepRebuild, StepMerge, StepClassify,
     StepMail,
     StepRefresh, StepSeed, StepMark DEF Migrating!Next

LEMMA SchemaHolds == SchemaInv => Migrating!SchemaSound
<1> SUFFICES ASSUME SchemaInv, pc = "up"
             PROVE  Migrating!HidesOnlyAsked /\ Migrating!ReasonsFit /\ Migrating!RefreshKept
                    /\ Migrating!AnnouncedOnce /\ Migrating!MailKept
  BY DEF Migrating!SchemaSound
<1>1. "reason" \in markers /\ "refresh" \in markers /\ "dedupe" \in markers
  BY DEF SchemaInv, MarkersKept, AfterReasons, AfterRefresh
<1>2. Migrating!HidesOnlyAsked
  BY DEF SchemaInv, RowsKept, RowFits, Migrating!Effective, Migrating!HidesOnlyAsked, Migrating!Hid
<1>3. Migrating!ReasonsFit
  <2> SUFFICES ASSUME NEW s \in Systems
               PROVE  row[s].reason = IF "reason" \in first.markers THEN first.row[s].reason
                                      ELSE IF Migrating!Effective(row[s]) THEN "kept_back"
                                          ELSE "manual"
    BY DEF Migrating!ReasonsFit
  <2>1. ReasonFits(s) /\ row[s] \in Migrating!SystemRow
    BY DEF SchemaInv, RowsKept
  <2>2. row[s].reason \in {"manual", "kept_back"}
    BY <2>1 DEF Migrating!SystemRow
  <2> QED
    BY <1>1, <2>1, <2>2 DEF ReasonFits
<1>4. Migrating!RefreshKept
  BY <1>1 DEF SchemaInv, RefreshFits, Migrating!RefreshKept
<1>5. Migrating!AnnouncedOnce
  <2> SUFFICES ASSUME NEW c \in Channels
               PROVE  alerts[c] = IF "dedupe" \in first.markers THEN first.channel[c]
                                  ELSE [delivered |-> TRUE, pending |-> FALSE]
    BY DEF Migrating!AnnouncedOnce
  <2>1. ChannelFits(c) /\ alerts[c] \in Migrating!ChannelRow
    BY DEF SchemaInv, ChannelsFit
  <2>2. /\ alerts[c].delivered \in BOOLEAN /\ alerts[c].pending \in BOOLEAN
        /\ alerts[c] = [delivered |-> alerts[c].delivered, pending |-> alerts[c].pending]
    BY <2>1 DEF Migrating!ChannelRow
  <2> QED
    BY <1>1, <2>1, <2>2 DEF ChannelFits
<1>6. Migrating!MailKept
  BY DEF SchemaInv, MailFits, AfterMail, Migrating!MailKept, Migrating!ModeOf
<1> QED
  BY <1>2, <1>3, <1>4, <1>5, <1>6

(* A start gives the tables of an older version what this one needs, and   *)
(* keeps what their rows meant, however often starts before it died.       *)
THEOREM SchemaCorrect == Migrating!Spec => []Migrating!SchemaSound
<1>1. Migrating!Init => SchemaInv
  BY SchemaInit
<1>2. SchemaInv /\ [Migrating!Next]_Migrating!vars => SchemaInv'
  BY SchemaStep
<1>3. SchemaInv => Migrating!SchemaSound
  BY SchemaHolds
<1> QED
  BY <1>1, <1>2, <1>3, PTL DEF Migrating!Spec

--------------------------------------------------------------------------------
Output == INSTANCE LiveOutput WITH Pages <- Watchers

--------------------------------------------------------------------------------
(***************************************************************************)
(* Live output.  What is on the screen of a connected page, followed by    *)
(* what its connection carries, ends with the buffer; and a page that was  *)
(* cleared has nothing before it but a reset.                              *)
(***************************************************************************)
Posted == Nat \ {Output!Reset}

\* A page with screen s and pipe q, of a stream with buffer b.
Carries(s, q, b, clear) ==
  \E d \in Nat :
    /\ Len(s) + Len(q) = d + Len(b)
    /\ \A i \in 1 .. Len(b) : (s \o q)[d + i] = b[i]
    /\ clear => d = 0 \/ (s \o q)[d] = Output!Reset

OutputInv ==
  /\ published \in Nat /\ buffer \in Seq(Posted)
  /\ screen \in [Watchers -> Seq(Posted)] /\ pipe \in [Watchers -> Seq(Posted \cup {Output!Reset})]
  /\ cleared \in [Watchers -> BOOLEAN] /\ subscribed \subseteq Watchers
  /\ \A p \in Watchers : IF p \in subscribed THEN Carries(screen[p], pipe[p], buffer, cleared[p])
                                             ELSE pipe[p] = <<>>

LEMMA GreatestReset ==
  ASSUME NEW n \in Nat, NEW S, S \subseteq 1 .. n, S # {} PROVE Output!Max(S) \in S
         /\ \A y \in S : y <= Output!Max(S)
BY HasGreatest DEF Output!Max

\* What is left of a sequence after its first elements.
LEMMA CutAfter ==
  ASSUME NEW S, NEW s \in Seq(S), NEW k \in 0 .. Len(s)
  PROVE  /\ SubSeq(s, k + 1, Len(s)) \in Seq(S) /\ Len(SubSeq(s, k + 1, Len(s))) = Len(s) - k
         /\ \A i \in 1 .. Len(s) - k : SubSeq(s, k + 1, Len(s))[i] = s[k + i]
<1>1. Len(s) \in Nat /\ k + 1 \in Int /\ Len(s) \in Int
  OBVIOUS
<1>2. \A i \in k + 1 .. Len(s) : s[i] \in S
  OBVIOUS
<1>3. /\ SubSeq(s, k + 1, Len(s)) \in Seq(S)
      /\ Len(SubSeq(s, k + 1, Len(s))) = IF k + 1 <= Len(s) THEN Len(s) - (k + 1) + 1 ELSE 0
      /\ \A i \in 1 .. Len(s) - (k + 1) + 1 : SubSeq(s, k + 1, Len(s))[i] = s[k + 1 + i - 1]
  BY <1>1, <1>2, SubSeqProperties
<1> QED
  BY <1>1, <1>3

\* A message that is published is carried to every page that is connected.
LEMMA CarriesMessage ==
  ASSUME NEW s \in Seq(Posted), NEW q \in Seq(Posted \cup {Output!Reset}), NEW b \in Seq(Posted),
         NEW clear,
         Carries(s, q, b, clear), NEW m \in Posted
  PROVE  Carries(s, Append(q, m), Append(b, m), clear)
<1>1. PICK d \in Nat : /\ Len(s) + Len(q) = d + Len(b)
                       /\ \A i \in 1 .. Len(b) : (s \o q)[d + i] = b[i]
                       /\ clear => d = 0 \/ (s \o q)[d] = Output!Reset
  BY DEF Carries
<1>0. Len(s) + Len(q) = d + Len(b)
  BY <1>1
<1>2. /\ Len(s) \in Nat /\ Len(q) \in Nat /\ Len(b) \in Nat
      /\ Len(Append(q, m)) = Len(q) + 1 /\ Len(Append(b, m)) = Len(b) + 1
  OBVIOUS
<1>3. \A k \in 1 .. Len(s) + Len(q) : (s \o Append(q, m))[k] = (s \o q)[k]
  OBVIOUS
<1>4. (s \o Append(q, m))[Len(s) + Len(q) + 1] = m
  OBVIOUS
<1>5. \A i \in 1 .. Len(b) + 1 : (s \o Append(q, m))[d + i] = Append(b, m)[i]
  <2> SUFFICES ASSUME NEW i \in 1 .. Len(b) + 1 PROVE (s \o Append(q, m))[d + i] = Append(b, m)[i]
    OBVIOUS
  <2>1. CASE i = Len(b) + 1
    <3>1. d + i = Len(s) + Len(q) + 1
      BY <1>0, <1>2, <2>1
    <3> QED
      BY <1>4, <2>1, <3>1
  <2>2. CASE i # Len(b) + 1
    <3>1. i \in 1 .. Len(b) /\ d + i \in 1 .. Len(s) + Len(q)
      BY <1>1, <1>2, <2>2
    <3>2. Append(b, m)[i] = b[i]
      BY <3>1
    <3> QED
      BY <1>1, <1>3, <3>1, <3>2
  <2> QED
    BY <2>1, <2>2
<1>6. clear => d = 0 \/ (s \o Append(q, m))[d] = Output!Reset
  <2>1. d = 0 \/ d \in 1 .. Len(s) + Len(q)
    BY <1>1, <1>2
  <2> QED
    BY <1>1, <1>3, <2>1
<1>7. Len(s) + Len(Append(q, m)) = d + Len(Append(b, m))
  BY <1>1, <1>2
<1> QED
  BY <1>2, <1>5, <1>6, <1>7 DEF Carries

\* A reset is carried with an empty buffer.
LEMMA CarriesReset ==
  ASSUME NEW s \in Seq(Posted), NEW q \in Seq(Posted \cup {Output!Reset})
  PROVE  Carries(s, Append(q, Output!Reset), <<>>, TRUE)
<1>1. /\ Len(s) \in Nat /\ Len(q) \in Nat /\ Len(Append(q, Output!Reset)) = Len(q) + 1
          /\ Len(<<>>) = 0
      /\ (s \o Append(q, Output!Reset))[Len(s) + Len(q) + 1] = Output!Reset
  OBVIOUS
<1>2. Len(s) + Len(q) + 1 \in Nat
        /\ Len(s) + Len(Append(q, Output!Reset)) = Len(s) + Len(q) + 1 + Len(<<>>)
  BY <1>1
<1> QED
  BY <1>1, <1>2 DEF Carries

\* A page that connects is sent the buffer, or a reset.
LEMMA CarriesBuffer ==
  ASSUME NEW s \in Seq(Posted), NEW b \in Seq(Posted), NEW clear, clear => s = <<>>
  PROVE  Carries(s, b, b, clear)
<1>1. Len(s) \in Nat /\ Len(b) \in Nat /\ \A i \in 1 .. Len(b) : (s \o b)[Len(s) + i] = b[i]
  OBVIOUS
<1>2. clear => Len(s) = 0
  OBVIOUS
<1> QED
  BY <1>1, <1>2 DEF Carries

\* A page that receives a message moves it to the screen, and clears it at a reset.
LEMMA CarriesOn ==
  ASSUME NEW s \in Seq(Posted), NEW q \in Seq(Posted \cup {Output!Reset}), NEW b \in Seq(Posted),
         NEW clear,
         Carries(s, q, b, clear), q # <<>>
  PROVE  Output!Applied(s, Head(q)) \in Seq(Posted)
         /\ Carries(Output!Applied(s, Head(q)), Tail(q), b, clear)
<1>1. PICK d \in Nat : /\ Len(s) + Len(q) = d + Len(b)
                       /\ \A i \in 1 .. Len(b) : (s \o q)[d + i] = b[i]
                       /\ clear => d = 0 \/ (s \o q)[d] = Output!Reset
  BY DEF Carries
<1>2. /\ Len(s) \in Nat /\ Len(q) \in Nat \ {0} /\ Len(b) \in Nat /\ Len(Tail(q)) = Len(q) - 1
      /\ Head(q) = q[1] /\ q[1] \in Posted \cup {Output!Reset}
         /\ Tail(q) \in Seq(Posted \cup {Output!Reset})
  OBVIOUS
<1>3. CASE Head(q) # Output!Reset
  <2> DEFINE t == Append(s, Head(q))
  <2>1. t \in Seq(Posted) /\ Len(t) = Len(s) + 1 /\ Output!Applied(s, Head(q)) = t
    BY <1>2, <1>3 DEF Output!Applied
  <2>2. \A k \in 1 .. Len(s) + Len(q) : (t \o Tail(q))[k] = (s \o q)[k]
    <3> SUFFICES ASSUME NEW k \in 1 .. Len(s) + Len(q) PROVE (t \o Tail(q))[k] = (s \o q)[k]
      OBVIOUS
    <3>1. CASE k <= Len(s)
      BY <1>2, <2>1, <3>1
    <3>2. CASE k = Len(s) + 1
      BY <1>2, <2>1, <3>2
    <3>3. CASE k > Len(s) + 1
      <4>1. (s \o q)[k] = q[k - Len(s)]
        BY <1>2, <3>3
      <4>2. (t \o Tail(q))[k] = Tail(q)[k - Len(s) - 1]
        BY <1>2, <2>1, <3>3
      <4>3. Tail(q)[k - Len(s) - 1] = q[k - Len(s)]
        BY <1>2, <3>3
      <4> QED
        BY <4>1, <4>2, <4>3
    <3> QED
      BY <1>2, <3>1, <3>2, <3>3
  <2> HIDE DEF t
  <2>3. Len(t) + Len(Tail(q)) = d + Len(b)
    <3>1. Len(s) + Len(q) = d + Len(b)
      BY <1>1
    <3> QED
      BY <1>2, <2>1, <3>1
  <2>4. \A i \in 1 .. Len(b) : d + i \in 1 .. Len(s) + Len(q)
    BY <1>1, <1>2
  <2>5. d = 0 \/ d \in 1 .. Len(s) + Len(q)
    BY <1>1, <1>2
  <2>6. Carries(t, Tail(q), b, clear)
    BY <1>1, <2>2, <2>3, <2>4, <2>5 DEF Carries
  <2> QED
    BY <2>1, <2>6
<1>4. CASE Head(q) = Output!Reset
  <2> DEFINE k == Len(s) + 1
  <2>1. (s \o q)[k] = Output!Reset /\ k \in 1 .. Len(s) + Len(q)
    BY <1>2, <1>4
  <2>2. k <= d
    <3> SUFFICES ASSUME k > d PROVE FALSE
      BY <1>2
    <3>1. k - d \in 1 .. Len(b)
      BY <1>1, <1>2, <2>1
    <3>2. (s \o q)[k] = b[k - d]
      BY <1>1, <1>2, <3>1
    <3>3. b[k - d] \in Posted
      BY <3>1
    <3> QED
      BY <2>1, <3>2, <3>3 DEF Posted
  <2>3. \A n \in 1 .. Len(q) - 1 : (<<>> \o Tail(q))[n] = (s \o q)[n + k]
    BY <1>2
  <2>4. d - k \in Nat /\ Len(<<>>) + Len(Tail(q)) = d - k + Len(b)
    BY <1>1, <1>2, <2>2
  <2>5. \A i \in 1 .. Len(b) : (<<>> \o Tail(q))[d - k + i] = b[i]
    <3> SUFFICES ASSUME NEW i \in 1 .. Len(b) PROVE (<<>> \o Tail(q))[d - k + i] = b[i]
      OBVIOUS
    <3>1. d - k + i \in 1 .. Len(q) - 1 /\ d - k + i + k = d + i
      BY <1>1, <1>2, <2>2
    <3> QED
      BY <1>1, <2>3, <3>1
  <2>6. clear => d - k = 0 \/ (<<>> \o Tail(q))[d - k] = Output!Reset
    <3>1. CASE d - k # 0
      <4>1. d - k \in 1 .. Len(q) - 1 /\ d - k + k = d /\ d # 0
        BY <1>1, <1>2, <2>2, <3>1
      <4> QED
        BY <1>1, <2>3, <4>1
    <3> QED
      BY <3>1
  <2>7. Output!Applied(s, Head(q)) = <<>> /\ <<>> \in Seq(Posted)
    BY <1>4 DEF Output!Applied
  <2> HIDE DEF k
  <2>8. Carries(<<>>, Tail(q), b, clear)
    BY <2>4, <2>5, <2>6 DEF Carries
  <2> QED
    BY <2>7, <2>8
<1> QED
  BY <1>3, <1>4

-------------------------------------------------------------------------------
LEMMA OutputInit == Output!Init => OutputInv
BY DEF Output!Init, OutputInv

LEMMA StepSubscribe == ASSUME OutputInv, NEW p \in Watchers, Output!Subscribe(p) PROVE OutputInv'
<1> DEFINE fresh == IF buffer = <<>> THEN <<Output!Reset>> ELSE buffer
<1> DEFINE clear == buffer = <<>> \/ screen[p] = <<>>
<1>1. /\ subscribed' = subscribed \cup {p} /\ UNCHANGED <<buffer, screen, published>>
      /\ pipe' = [pipe EXCEPT ![p] = fresh] /\ cleared' = [cleared EXCEPT ![p] = clear]
  BY DEF Output!Subscribe
<1>2. screen[p] \in Seq(Posted) /\ buffer \in Seq(Posted)
  BY DEF OutputInv
<1>3. fresh \in Seq(Posted \cup {Output!Reset}) /\ clear \in BOOLEAN
  <2>1. <<Output!Reset>> \in Seq(Posted \cup {Output!Reset})
          /\ buffer \in Seq(Posted \cup {Output!Reset})
    BY <1>2
  <2> QED
    BY <2>1
<1>4. Carries(screen[p], fresh, buffer, clear)
  <2>1. CASE buffer = <<>>
    <3>1. <<>> \in Seq(Posted \cup {Output!Reset}) /\ Append(<<>>, Output!Reset) = <<Output!Reset>>
      OBVIOUS
    <3>2. Carries(screen[p], Append(<<>>, Output!Reset), <<>>, TRUE)
      BY <1>2, <3>1, CarriesReset
    <3>3. fresh = <<Output!Reset>> /\ clear = TRUE
      BY <2>1
    <3> HIDE DEF fresh, clear
    <3> QED
      BY <2>1, <3>1, <3>2, <3>3
  <2>2. CASE buffer # <<>>
    BY <1>2, <2>2, CarriesBuffer
  <2> QED
    BY <2>1, <2>2
<1> HIDE DEF fresh, clear
<1>5. pipe' \in [Watchers -> Seq(Posted \cup {Output!Reset})] /\ cleared' \in [Watchers -> BOOLEAN]
  BY <1>1, <1>3 DEF OutputInv
<1>6. \A r \in Watchers : IF r \in subscribed' THEN Carries(screen'[r], pipe'[r], buffer',
                                                            cleared'[r])
                                               ELSE pipe'[r] = <<>>
  BY <1>1, <1>4 DEF OutputInv
<1> QED
  BY <1>1, <1>5, <1>6 DEF OutputInv

LEMMA StepPublish == ASSUME OutputInv, Output!Publish PROVE OutputInv'
<1> DEFINE m == published + 1
<1>1. /\ published' = m /\ buffer' = Append(buffer, m) /\ UNCHANGED <<subscribed, screen, cleared>>
      /\ pipe' = [r \in Watchers |-> IF r \in subscribed THEN Append(pipe[r], m) ELSE pipe[r]]
  BY DEF Output!Publish, Output!Broadcast
<1>2. m \in Nat /\ m \in Posted
  BY DEF OutputInv, Posted, Output!Reset
<1> HIDE DEF m
<1>3. buffer' \in Seq(Posted)
  BY <1>1, <1>2 DEF OutputInv
<1>4. pipe' \in [Watchers -> Seq(Posted \cup {Output!Reset})]
  BY <1>1, <1>2 DEF OutputInv
<1>5. \A r \in Watchers : IF r \in subscribed' THEN Carries(screen'[r], pipe'[r], buffer',
                                                            cleared'[r])
                                               ELSE pipe'[r] = <<>>
  BY <1>1, <1>2, CarriesMessage DEF OutputInv
<1> QED
  BY <1>1, <1>2, <1>3, <1>4, <1>5 DEF OutputInv

LEMMA StepReset == ASSUME OutputInv, Output!ResetStream PROVE OutputInv'
<1>1. /\ buffer' = <<>> /\ UNCHANGED <<published, subscribed, screen>>
      /\ pipe' = [r \in Watchers |-> IF r \in subscribed THEN Append(pipe[r],
                                                                     Output!Reset) ELSE pipe[r]]
      /\ cleared' = [r \in Watchers |-> cleared[r] \/ r \in subscribed]
  BY DEF Output!ResetStream, Output!Broadcast
<1>2. pipe' \in [Watchers -> Seq(Posted \cup {Output!Reset})] /\ cleared' \in [Watchers -> BOOLEAN]
  BY <1>1 DEF OutputInv
<1>3. \A r \in Watchers : r \in subscribed => cleared'[r] = TRUE
  BY <1>1 DEF OutputInv
<1>4. \A r \in Watchers : IF r \in subscribed' THEN Carries(screen'[r], pipe'[r], buffer',
                                                            cleared'[r])
                                               ELSE pipe'[r] = <<>>
  BY <1>1, <1>3, CarriesReset DEF OutputInv
<1> QED
  BY <1>1, <1>2, <1>4 DEF OutputInv

LEMMA StepLost == ASSUME OutputInv, Output!RemoveStream \/ \E p \in Watchers : Output!Break(p)
      PROVE OutputInv'
<1>1. CASE Output!RemoveStream
  BY <1>1 DEF Output!RemoveStream, OutputInv
<1>2. ASSUME NEW p \in Watchers, Output!Break(p) PROVE OutputInv'
  <2>1. /\ subscribed' = subscribed \ {p} /\ pipe' = [pipe EXCEPT ![p] = <<>>]
        /\ UNCHANGED <<buffer, screen, cleared, published>>
    BY <1>2 DEF Output!Break
  <2>2. pipe' \in [Watchers -> Seq(Posted \cup {Output!Reset})]
    BY <2>1 DEF OutputInv
  <2> QED
    BY <2>1, <2>2 DEF OutputInv
<1> QED
  BY <1>1, <1>2

LEMMA StepReceived == ASSUME OutputInv, NEW p \in Watchers, Output!Receive(p) PROVE OutputInv'
<1> DEFINE shown == Output!Applied(screen[p], Head(pipe[p]))
<1>1. /\ pipe[p] # <<>> /\ screen' = [screen EXCEPT ![p] = shown]
      /\ pipe' = [pipe EXCEPT ![p] = Tail(pipe[p])]
      /\ UNCHANGED <<buffer, subscribed, cleared, published>>
  BY DEF Output!Receive, OutputInv
<1>2. /\ screen[p] \in Seq(Posted) /\ pipe[p] \in Seq(Posted \cup {Output!Reset})
          /\ buffer \in Seq(Posted)
      /\ p \in subscribed /\ Carries(screen[p], pipe[p], buffer, cleared[p])
  BY <1>1 DEF OutputInv
<1>3. shown \in Seq(Posted) /\ Carries(shown, Tail(pipe[p]), buffer, cleared[p])
  BY <1>1, <1>2, CarriesOn
<1>4. Tail(pipe[p]) \in Seq(Posted \cup {Output!Reset})
  BY <1>1, <1>2
<1> HIDE DEF shown
<1>5. screen' \in [Watchers -> Seq(Posted)]
        /\ pipe' \in [Watchers -> Seq(Posted \cup {Output!Reset})]
  BY <1>1, <1>3, <1>4 DEF OutputInv
<1>6. \A r \in Watchers : IF r \in subscribed' THEN Carries(screen'[r], pipe'[r], buffer',
                                                            cleared'[r])
                                               ELSE pipe'[r] = <<>>
  BY <1>1, <1>2, <1>3 DEF OutputInv
<1> QED
  BY <1>1, <1>5, <1>6 DEF OutputInv

LEMMA OutputStep == OutputInv /\ [Output!Next]_Output!vars => OutputInv'
<1> SUFFICES ASSUME OutputInv, [Output!Next]_Output!vars PROVE OutputInv'
  OBVIOUS
<1>1. CASE UNCHANGED Output!vars
  BY <1>1 DEF Output!vars, OutputInv
<1> QED
  BY <1>1, StepSubscribe, StepPublish, StepReset, StepLost, StepReceived DEF Output!Next

\* No reset comes after the part that ends with the buffer.
LEMMA OutputShows == OutputInv => Output!ShowsWholeOperation
<1> SUFFICES ASSUME OutputInv, NEW p \in subscribed
             PROVE  LET extra == Len(Output!Final(p)) - Len(buffer)
                    IN /\ extra >= 0 /\ SubSeq(Output!Final(p), extra + 1,
                                               Len(Output!Final(p))) = buffer
                       /\ cleared[p] => extra = 0
  BY DEF Output!ShowsWholeOperation
<1> DEFINE all == screen[p] \o pipe[p]
<1> DEFINE I == {i \in 1 .. Len(all) : all[i] = Output!Reset}
<1> DEFINE k == IF I # {} THEN Output!Max(I) ELSE 0
<1>1. Output!Final(p) = SubSeq(all, k + 1, Len(all))
  BY DEF Output!Final, Output!SelectLastInSeq
<1>2. /\ screen[p] \in Seq(Posted) /\ pipe[p] \in Seq(Posted \cup {Output!Reset})
          /\ buffer \in Seq(Posted)
      /\ Carries(screen[p], pipe[p], buffer, cleared[p])
  BY DEF OutputInv
<1>3. PICK d \in Nat : /\ Len(screen[p]) + Len(pipe[p]) = d + Len(buffer)
                       /\ \A i \in 1 .. Len(buffer) : all[d + i] = buffer[i]
                       /\ cleared[p] => d = 0 \/ all[d] = Output!Reset
  BY <1>2 DEF Carries
<1>4. /\ all \in Seq(Posted \cup {Output!Reset}) /\ Len(all) = d + Len(buffer)
          /\ Len(buffer) \in Nat
      /\ Len(all) \in Nat
  <2>1. screen[p] \in Seq(Posted \cup {Output!Reset})
    BY <1>2
  <2>2. all \in Seq(Posted \cup {Output!Reset}) /\ Len(all) = Len(screen[p]) + Len(pipe[p])
    BY <1>2, <2>1, ConcatProperties
  <2>3. Len(screen[p]) + Len(pipe[p]) = d + Len(buffer)
    BY <1>3
  <2>4. Len(buffer) \in Nat
    BY <1>2
  <2> HIDE DEF all
  <2>5. Len(all) = d + Len(buffer)
    BY <2>2, <2>3
  <2>6. Len(all) \in Nat
    BY <2>4, <2>5
  <2> QED
    BY <2>2, <2>4, <2>5, <2>6
<1> HIDE DEF all
<1>5. I # {} => k \in I /\ \A y \in I : y <= k
  BY <1>4, GreatestReset
<1>6. k \in 0 .. Len(all) /\ (k # 0 => all[k] = Output!Reset) /\ \A y \in I : y <= k
  BY <1>4, <1>5
<1>7. cleared[p] => d = 0 \/ d \in I
  BY <1>3, <1>4
<1> HIDE DEF I
<1>8. k <= d
  <2> SUFFICES ASSUME k > d PROVE FALSE
    BY <1>6
  <2>1. k - d \in 1 .. Len(buffer)
    BY <1>4, <1>6
  <2>2. all[k] = buffer[k - d]
    BY <1>3, <1>6, <2>1
  <2> QED
    BY <1>2, <1>6, <2>1, <2>2 DEF Posted
<1>9. cleared[p] => k = d
  BY <1>6, <1>7, <1>8
<1> HIDE DEF k
<1> DEFINE f == Output!Final(p)
<1>10. /\ Len(f) = Len(all) - k /\ f \in Seq(Posted \cup {Output!Reset})
       /\ \A i \in 1 .. Len(f) : f[i] = all[k + i]
  BY <1>1, <1>4, <1>6, CutAfter
<1> HIDE DEF f
<1>11. Len(f) - Len(buffer) = d - k /\ d - k \in Nat
  BY <1>4, <1>6, <1>8, <1>10
<1> DEFINE g == SubSeq(f, d - k + 1, Len(f))
<1>12. /\ Len(g) = Len(buffer) /\ g \in Seq(Posted \cup {Output!Reset})
       /\ \A i \in 1 .. Len(g) : g[i] = f[d - k + i]
  <2>0. Len(f) \in Nat /\ Len(buffer) \in Nat
    BY <1>4, <1>10
  <2>1. Len(f) \in Nat /\ d - k \in 0 .. Len(f) /\ Len(f) - (d - k) = Len(buffer)
    BY <1>11, <2>0
  <2> QED
    BY <1>10, <2>1, CutAfter, ZenonT(60)
<1> HIDE DEF g
<1>13. \A i \in 1 .. Len(buffer) : g[i] = buffer[i]
  <2> SUFFICES ASSUME NEW i \in 1 .. Len(buffer) PROVE g[i] = buffer[i]
    OBVIOUS
  <2>1. d - k + i \in 1 .. Len(f) /\ k + (d - k + i) = d + i
    BY <1>4, <1>6, <1>8, <1>10
  <2> QED
    BY <1>3, <1>10, <1>12, <2>1
<1>14. g = buffer
  BY <1>2, <1>12, <1>13
<1>15. cleared[p] => d - k = 0
  BY <1>6, <1>9
<1>16. SubSeq(Output!Final(p), d - k + 1, Len(Output!Final(p))) = buffer
  BY <1>14 DEF f, g
<1>17. Len(Output!Final(p)) - Len(buffer) = d - k /\ d - k >= 0
  BY <1>11 DEF f
<1> QED
  BY <1>15, <1>16, <1>17

(* A connected page ends up with the whole output of the operation, and    *)
(* with nothing else when it was cleared.                                  *)
THEOREM OutputCorrect == Output!Spec => []Output!ShowsWholeOperation
<1>1. Output!Init => OutputInv
  BY OutputInit
<1>2. OutputInv /\ [Output!Next]_Output!vars => OutputInv'
  BY OutputStep
<1>3. OutputInv => Output!ShowsWholeOperation
  BY OutputShows
<1> QED
  BY <1>1, <1>2, <1>3, PTL DEF Output!Spec

--------------------------------------------------------------------------------
Receiving == INSTANCE ChannelForm WITH
  Systems <- PageSystems, Schedules <- PageSchedules, Blank <- NoText, Absent <- None,
  Sessions <- ChannelSessions

-------------------------------------------------------------------------------
(***************************************************************************)
(* ChannelForm.                                                            *)
(***************************************************************************)
(* What the secrets are is said below: here are the shapes of the records. *)
ChannelRowish(entry, s) ==
  entry \in [headers : {entry.headers}, auth : {entry.auth}, all : BOOLEAN,
             systems : SUBSET PageSystems,
             schedules : SUBSET s.schedules]

ChannelFormish(f, s) ==
  f \in [headers : {f.headers}, auth : {f.auth}, all : BOOLEAN, systems : SUBSET PageSystems,
         schedules : SUBSET s.schedules, scheduled : BOOLEAN, made : SUBSET s.schedules,
         mode : {s.mode}, initial : {f.initial}]

Knows(k, s) ==
  /\ k \in [rows : {k.rows}, visible : SUBSET PageSystems, schedules : SUBSET s.schedules]
  /\ \A c \in DOMAIN k.rows : ChannelRowish(k.rows[c], s)

Answers == {"none", "ok", "error"}

Wireish(w, s) ==
  CASE w.what = "save" ->
         /\ w \in [what : {"save"}, mode : {s.mode}, ask : {w.ask}, shown : {w.shown},
                   answer : Answers]
         /\ ChannelRowish(w.ask, s)
         /\ w.shown \in [all : BOOLEAN, systems : SUBSET PageSystems,
                         schedules : SUBSET s.schedules]
    [] w.what = "test" ->
         w \in [what : {"test"}, mode : {s.mode}, ask : {w.ask}, answer : Answers]
    [] OTHER ->
         \/ w \in [what : {"schedule"}, answer : {"none", "error"}]
         \/ w \in [what : {"schedule"}, answer : {"ok"}, id : s.schedules]

SessionTyped ==
  /\ {"mode", "regular", "schedules"} \subseteq DOMAIN session /\ session.regular \in BOOLEAN
  /\ session.mode \in {"new", "edit", "copy"} /\ session.schedules \subseteq PageSchedules

ChannelTyped ==
  /\ SessionTyped /\ Knows(server, session) /\ Knows(data, session)
  /\ form # None => ChannelFormish(form, session)
  /\ wire # None => Wireish(wire, session)

\* A save that the server has taken, whose answer closes the form.
Saved == wire # None /\ wire.what = "save" /\ wire.answer = "ok"

Asks == wire # None /\ wire.what = "save" /\ wire.answer = "none"

\* The secrets of a row are of its headers.
Stored(entry) ==
  /\ entry.headers \in Seq(Receiving!Header)
     /\ \A i \in DOMAIN entry.headers : entry.headers[i].name # NoText
  /\ Receiving!OfTheirRows(entry)

\* What a form or a request says of them: a mask is of the header that is stored in its place.
SaysOf(h, i, behind) ==
  \/ h.value \in {NoText, h.name}
  \/ /\ h.value = Masked /\ h.secret
     /\ i \in DOMAIN behind.headers /\ behind.headers[i].secret /\ behind.headers[i].name = h.name

Says(c, behind) ==
  /\ c.headers \in Seq(Receiving!Header)
  /\ \A i \in DOMAIN c.headers : c.headers[i].name # NoText /\ SaysOf(c.headers[i], i, behind)
  /\ c.auth \in {NoAuth, NoText, Token} \/ (c.auth = Masked /\ behind.auth = Token)

Masks(c, behind) ==
  /\ DOMAIN c.headers = DOMAIN behind.headers
  /\ \A i \in DOMAIN behind.headers : c.headers[i] = Receiving!Hidden(behind.headers[i])
  /\ c.auth = IF behind.auth \in {NoAuth, NoText} THEN behind.auth ELSE Masked

\* The form still has each header of the row, in its place.
Behind(f, behind) ==
  /\ Says(f, behind) /\ Masks(f.initial, behind)
  /\ \A i \in DOMAIN behind.headers : i \in DOMAIN f.headers
     /\ f.headers[i].name = behind.headers[i].name

FormFits ==
  form # None /\ session.regular /\ ~Saved =>
    IF session.mode = "new" THEN Behind(form, Receiving!Empty)
    ELSE Receiving!Channel \in DOMAIN server.rows =>
           /\ Behind(form, server.rows[Receiving!Channel])
           /\ Receiving!Channel \in DOMAIN data.rows
              => Masks(data.rows[Receiving!Channel], server.rows[Receiving!Channel])

AskFits ==
  Asks /\ session.regular =>
    IF session.mode = "new" THEN Says(wire.ask, Receiving!Empty)
    ELSE Receiving!Channel \in DOMAIN server.rows => Says(wire.ask, server.rows[Receiving!Channel])

FormShown ==
  form # None =>
    /\ ~form.all => form.systems \subseteq data.visible
    /\ session.regular
       => form.schedules \cap server.schedules \subseteq data.schedules \cup form.made

AskShown ==
  Asks =>
    /\ wire.ask.all = wire.shown.all /\ wire.ask.systems = wire.shown.systems
    /\ wire.shown.schedules \subseteq wire.ask.schedules
    /\ session.regular => wire.ask.schedules \cap server.schedules \subseteq wire.shown.schedules

RowsStored == session.regular => \A c \in DOMAIN server.rows : Stored(server.rows[c])

ChannelInv ==
  ChannelTyped /\ FormFits /\ AskFits /\ FormShown /\ AskShown /\ RowsStored
      /\ Receiving!SavedAsShown


(***************************************************************************)
(* Shapes.                                                                 *)
(***************************************************************************)
LEMMA Wider ==
  ASSUME NEW s, NEW t, s.schedules \subseteq t.schedules, s.mode = t.mode
  PROVE  /\ \A x : ChannelRowish(x, s) => ChannelRowish(x, t)
         /\ \A x : ChannelFormish(x, s) => ChannelFormish(x, t)
         /\ \A x : Knows(x, s) => Knows(x, t)
         /\ \A x : Wireish(x, s) => Wireish(x, t)
<1>1. \A x : ChannelRowish(x, s) => ChannelRowish(x, t)
  BY DEF ChannelRowish
<1>2. \A x : ChannelFormish(x, s) => ChannelFormish(x, t)
  BY DEF ChannelFormish
<1>3. \A x : Knows(x, s) => Knows(x, t)
  BY <1>1 DEF Knows
<1>4. \A x : Wireish(x, s) => Wireish(x, t)
  BY <1>1 DEF Wireish
<1> QED
  BY <1>1, <1>2, <1>3, <1>4

\* A session goes on.
GoesOn == SessionTyped' /\ session.schedules \subseteq session'.schedules
          /\ session'.mode = session.mode
          /\ (session'.regular => session.regular)

LEMMA TypedStays ==
  ASSUME ChannelTyped, GoesOn,
         server' = server \/ Knows(server, session)', data' = data \/ Knows(data, session)',
         form' \in {form, None} \/ ChannelFormish(form, session)', wire' \in {wire, None}
             \/ Wireish(wire, session)'
  PROVE  ChannelTyped'
<1> DEFINE t == session'
<1>1. session.schedules \subseteq t.schedules /\ session.mode = t.mode
  BY DEF GoesOn
<1> HIDE DEF t
<1>2. /\ \A x : ChannelFormish(x, session) => ChannelFormish(x, t)
      /\ \A x : Knows(x, session) => Knows(x, t)
      /\ \A x : Wireish(x, session) => Wireish(x, t)
  BY <1>1, Wider
<1>3. Knows(server', t) /\ Knows(data', t)
  BY <1>2 DEF ChannelTyped, t
<1>4. (form' # None => ChannelFormish(form', t)) /\ (wire' # None => Wireish(wire', t))
  BY <1>2 DEF ChannelTyped, t
<1> QED
  BY <1>3, <1>4 DEF ChannelTyped, GoesOn, t

LEMMA NarrowedIs ==
  ASSUME NEW s, NEW f, ChannelFormish(f, s), NEW these
  PROVE  LET n == Receiving!Narrowed(f, these) IN
         /\ ChannelFormish(n, s) /\ n.headers = f.headers /\ n.auth = f.auth
            /\ n.initial = f.initial
         /\ n.schedules = f.schedules /\ n.made = f.made /\ n.all = f.all
         /\ ~n.all => n.systems \subseteq these
<1>1. CASE f.all
  BY <1>1 DEF Receiving!Narrowed
<1>2. CASE ~f.all
  <2>1. f.systems \in SUBSET PageSystems
    BY DEF ChannelFormish
  <2> DEFINE few == f.systems \cap these
  <2>2. Receiving!Narrowed(f, these) = [f EXCEPT !.systems = few] /\ few \in SUBSET PageSystems
          /\ few \subseteq these
    BY <1>2, <2>1 DEF Receiving!Narrowed
  <2> HIDE DEF few
  <2> QED
    BY <2>2 DEF ChannelFormish
<1> QED
  BY <1>1, <1>2

LEMMA NarrowedFits ==
  ASSUME NEW s, NEW f, ChannelFormish(f, s), NEW these, NEW behind, Behind(f, behind)
  PROVE  Behind(Receiving!Narrowed(f, these), behind)
<1> DEFINE n == Receiving!Narrowed(f, these)
<1>1. n.headers = f.headers /\ n.auth = f.auth /\ n.initial = f.initial
  BY NarrowedIs
<1> HIDE DEF n
<1>2. Behind(n, behind)
  BY <1>1 DEF Behind, Says
<1> QED
  BY <1>2 DEF n

(***************************************************************************)
(* The edits.                                                              *)
(***************************************************************************)
LEMMA ChannelEditKeeps ==
  ASSUME ChannelInv, NEW kind, NEW changed, Receiving!Edit(kind, changed),
         ChannelFormish(changed, session), changed.made = form.made,
         changed.schedules \subseteq form.schedules \cup Receiving!Options,
         session.regular /\ kind # "remove" => \A behind : Behind(form, behind)
             => Behind(changed, behind)
  PROVE  ChannelInv'
<1>1. /\ form # None /\ form' = Receiving!Narrowed(changed, data.visible)
      /\ UNCHANGED <<server, data, wire, told, tested>>
      /\ session' = [session EXCEPT !.edits = session.edits - 1,
                     !.regular = session.regular /\ kind # "remove"]
  BY DEF Receiving!Edit
<1>2. PICK b \in BOOLEAN : b = (session.regular /\ kind # "remove")
  OBVIOUS
<1>3. /\ GoesOn /\ session'.schedules = session.schedules
      /\ session'.regular => session.regular /\ kind # "remove"
  <2>1. session' = [session EXCEPT !.edits = session.edits - 1, !.regular = b]
    BY <1>1, <1>2
  <2> QED
    BY <1>2, <2>1 DEF ChannelInv, ChannelTyped, SessionTyped, GoesOn
<1>4. /\ ChannelFormish(form', session) /\ form'.schedules = changed.schedules
          /\ form'.made = changed.made
      /\ form'.all = changed.all /\ (~form'.all => form'.systems \subseteq data.visible)
  BY <1>1, NarrowedIs
<1>5. ChannelFormish(form', session')
  BY <1>3, <1>4, Wider DEF GoesOn
<1>6. ChannelTyped'
  BY <1>1, <1>3, <1>5, TypedStays DEF ChannelInv
<1>7. AskFits' /\ RowsStored' /\ AskShown' /\ Receiving!SavedAsShown'
  BY <1>1, <1>3 DEF ChannelInv, AskFits, RowsStored, AskShown, Receiving!SavedAsShown, Asks, GoesOn
<1>8. FormShown'
  <2>1. ASSUME session'.regular
               PROVE form'.schedules \cap server.schedules \subseteq data.schedules \cup form.made
    BY <1>1, <1>3, <1>4, <2>1 DEF ChannelInv, FormShown, Receiving!Options
  <2> QED
    BY <1>1, <1>4, <2>1 DEF FormShown
<1>9. FormFits'
  <2> SUFFICES ASSUME session'.regular, ~Saved' PROVE
        IF session'.mode = "new" THEN Behind(form', Receiving!Empty)
        ELSE Receiving!Channel \in DOMAIN server.rows =>
               /\ Behind(form', server.rows[Receiving!Channel])
               /\ Receiving!Channel \in DOMAIN data.rows
                  => Masks(data.rows[Receiving!Channel], server.rows[Receiving!Channel])
    BY <1>1 DEF FormFits
  <2>1. \A behind : Behind(form, behind) => Behind(form', behind)
    BY <1>1, <1>3, NarrowedFits
  <2>2. session.regular /\ ~Saved /\ session'.mode = session.mode
    BY <1>1, <1>3 DEF Saved, GoesOn
  <2> QED
    BY <1>1, <2>1, <2>2 DEF ChannelInv, FormFits
<1> QED
  BY <1>6, <1>7, <1>8, <1>9 DEF ChannelInv

\* An edit that leaves the secrets alone.
LEMMA PlainEdit ==
  ASSUME ChannelInv, NEW kind, NEW changed, Receiving!Edit(kind, changed),
         ChannelFormish(changed, session), changed.made = form.made,
         changed.schedules \subseteq form.schedules \cup Receiving!Options,
         changed.headers = form.headers, changed.auth = form.auth, changed.initial = form.initial
  PROVE  ChannelInv'
<1>1. \A behind : Behind(form, behind) => Behind(changed, behind)
  BY DEF Behind, Says
<1> QED
  BY <1>1, ChannelEditKeeps

LEMMA ToggledIs ==
  ASSUME NEW S, NEW set \in SUBSET S, NEW x \in S
  PROVE  Receiving!Toggled(set, x) \in SUBSET S /\ Receiving!Toggled(set, x) \subseteq set \cup {x}
BY DEF Receiving!Toggled

LEMMA FormIs ==
  ASSUME ChannelInv, form # None
  PROVE  /\ ChannelFormish(form, session) /\ form.systems \in SUBSET PageSystems
             /\ form.schedules \in SUBSET session.schedules
         /\ form.all \in BOOLEAN /\ form.scheduled \in BOOLEAN
            /\ form.made \in SUBSET session.schedules
         /\ data.schedules \in SUBSET session.schedules /\ form.mode = session.mode
BY DEF ChannelInv, ChannelTyped, ChannelFormish, Knows

LEMMA BoxesKeep ==
  ASSUME ChannelInv,
         \/ Receiving!ToggleAll \/ Receiving!SetDelivery
            \/ (\E s \in PageSystems : Receiving!ToggleSystem(s))
            \/ (\E d \in PageSchedules : Receiving!ToggleSchedule(d))
  PROVE  ChannelInv'
<1>1. form # None
  BY DEF Receiving!ToggleAll, Receiving!SetDelivery, Receiving!ToggleSystem,
     Receiving!ToggleSchedule, Receiving!Edit
<1>2. CASE Receiving!ToggleAll
  <2>1. Receiving!Edit("systems", [form EXCEPT !.all = ~form.all])
    BY <1>2 DEF Receiving!ToggleAll
  <2>2. PICK b \in BOOLEAN : b = ~form.all
    OBVIOUS
  <2> DEFINE changed == [form EXCEPT !.all = b]
  <2>3. /\ ChannelFormish(changed, session) /\ changed.made = form.made
            /\ changed.schedules = form.schedules
        /\ changed.headers = form.headers /\ changed.auth = form.auth
           /\ changed.initial = form.initial
    BY <1>1, FormIs DEF ChannelFormish
  <2>4. Receiving!Edit("systems", changed)
    BY <2>1, <2>2
  <2> HIDE DEF changed
  <2> QED
    BY <2>3, <2>4, PlainEdit
<1>3. CASE Receiving!SetDelivery
  <2>1. Receiving!Edit("schedules", [form EXCEPT !.scheduled = ~form.scheduled])
    BY <1>3 DEF Receiving!SetDelivery
  <2>2. PICK b \in BOOLEAN : b = ~form.scheduled
    OBVIOUS
  <2> DEFINE changed == [form EXCEPT !.scheduled = b]
  <2>3. /\ ChannelFormish(changed, session) /\ changed.made = form.made
            /\ changed.schedules = form.schedules
        /\ changed.headers = form.headers /\ changed.auth = form.auth
           /\ changed.initial = form.initial
    BY <1>1, FormIs DEF ChannelFormish
  <2>4. Receiving!Edit("schedules", changed)
    BY <2>1, <2>2
  <2> HIDE DEF changed
  <2> QED
    BY <2>3, <2>4, PlainEdit
<1>4. ASSUME NEW x \in PageSystems, Receiving!ToggleSystem(x) PROVE ChannelInv'
  <2> DEFINE picked == Receiving!Toggled(form.systems, x)
  <2>1. picked \in SUBSET PageSystems
    BY <1>1, FormIs, ToggledIs
  <2>2. Receiving!Edit("systems", [form EXCEPT !.systems = picked])
    BY <1>4 DEF Receiving!ToggleSystem
  <2> HIDE DEF picked
  <2> DEFINE changed == [form EXCEPT !.systems = picked]
  <2>3. /\ ChannelFormish(changed, session) /\ changed.made = form.made
            /\ changed.schedules = form.schedules
        /\ changed.headers = form.headers /\ changed.auth = form.auth
           /\ changed.initial = form.initial
    BY <1>1, <2>1, FormIs DEF ChannelFormish
  <2> HIDE DEF changed
  <2> QED
    BY <2>2, <2>3, PlainEdit DEF changed
<1>5. ASSUME NEW d \in PageSchedules, Receiving!ToggleSchedule(d) PROVE ChannelInv'
  <2> DEFINE schedules == Receiving!Toggled(form.schedules, d)
  <2>1. schedules \in SUBSET session.schedules
          /\ schedules \subseteq form.schedules \cup Receiving!Options
    <3>1. d \in Receiving!Options /\ Receiving!Options \subseteq session.schedules
      BY <1>1, <1>5, FormIs DEF Receiving!ToggleSchedule, Receiving!Options
    <3> QED
      BY <1>1, <3>1, FormIs, ToggledIs
  <2>2. Receiving!Edit("schedules", [form EXCEPT !.schedules = schedules])
    BY <1>5 DEF Receiving!ToggleSchedule
  <2> HIDE DEF schedules
  <2> DEFINE changed == [form EXCEPT !.schedules = schedules]
  <2>3. /\ ChannelFormish(changed, session) /\ changed.made = form.made
            /\ changed.schedules = schedules
        /\ changed.headers = form.headers /\ changed.auth = form.auth
           /\ changed.initial = form.initial
    BY <1>1, <2>1, FormIs DEF ChannelFormish
  <2> HIDE DEF changed
  <2> QED
    BY <2>1, <2>2, <2>3, PlainEdit DEF changed
<1> QED
  BY <1>2, <1>3, <1>4, <1>5

\* Of the secrets.
LEMMA SecretsEdit ==
  ASSUME ChannelInv, form # None, NEW kind, NEW headers, NEW auth, NEW changed,
         Receiving!Edit(kind, changed),
         \/ changed = [form EXCEPT !.headers = headers] /\ auth = form.auth
         \/ changed = [form EXCEPT !.auth = auth] /\ headers = form.headers,
         session.regular /\ kind # "remove" => \A behind : Behind(form, behind) =>
           /\ headers \in Seq(Receiving!Header)
              /\ \A i \in DOMAIN headers : headers[i].name # NoText /\ SaysOf(headers[i], i, behind)
           /\ \A i \in DOMAIN form.headers : i \in DOMAIN headers
              /\ headers[i].name = form.headers[i].name
           /\ auth \in {form.auth, NoAuth, NoText, Token}
  PROVE  ChannelInv'
<1>1. /\ ChannelFormish(changed, session) /\ changed.made = form.made
          /\ changed.schedules = form.schedules
      /\ changed.headers = headers /\ changed.auth = auth /\ changed.initial = form.initial
  BY FormIs DEF ChannelFormish
<1>3. ASSUME session.regular /\ kind # "remove", NEW behind, Behind(form, behind)
      PROVE  Behind(changed, behind)
  <2>1. /\ headers \in Seq(Receiving!Header) /\ \A i \in DOMAIN headers : headers[i].name # NoText
            /\ SaysOf(headers[i], i, behind)
        /\ \A i \in DOMAIN form.headers : i \in DOMAIN headers
           /\ headers[i].name = form.headers[i].name
        /\ auth \in {form.auth, NoAuth, NoText, Token}
    BY <1>3
  <2>2. Says(changed, behind)
    BY <1>1, <1>3, <2>1 DEF Behind, Says
  <2> QED
    BY <1>1, <1>3, <2>1, <2>2 DEF Behind
<1> QED
  BY <1>1, <1>3, ChannelEditKeeps

\* A row of the headers whose name stays.
LEMMA RowEdit ==
  ASSUME NEW behind, Behind(form, behind), NEW i \in DOMAIN form.headers,
         NEW h \in Receiving!Header,
         h.name = form.headers[i].name, SaysOf(h, i, behind)
  PROVE  LET headers == [form.headers EXCEPT ![i] = h] IN
         /\ headers \in Seq(Receiving!Header) /\ \A j \in DOMAIN headers : headers[j].name # NoText
            /\ SaysOf(headers[j], j, behind)
         /\ \A j \in DOMAIN form.headers : j \in DOMAIN headers
            /\ headers[j].name = form.headers[j].name
<1> DEFINE headers == [form.headers EXCEPT ![i] = h]
<1>1. /\ form.headers \in Seq(Receiving!Header)
      /\ \A j \in DOMAIN form.headers : form.headers[j].name # NoText
         /\ SaysOf(form.headers[j], j, behind)
  BY DEF Behind, Says
<1>2. headers \in Seq(Receiving!Header) /\ DOMAIN headers = DOMAIN form.headers /\ headers[i] = h
      /\ \A j \in DOMAIN headers : j # i => headers[j] = form.headers[j]
  <2>1. headers \in Seq(Receiving!Header)
    BY <1>1, ExceptSeq
  <2>2. DOMAIN headers = DOMAIN form.headers /\ headers[i] = h
        /\ \A j \in DOMAIN headers : j # i => headers[j] = form.headers[j]
    BY <1>1
  <2> QED
    BY <2>1, <2>2
<1> HIDE DEF headers
<1>3. \A j \in DOMAIN headers : headers[j].name # NoText /\ SaysOf(headers[j], j, behind)
  BY <1>1, <1>2
<1>4. \A j \in DOMAIN form.headers : j \in DOMAIN headers /\ headers[j].name = form.headers[j].name
  BY <1>2
<1> QED
  BY <1>2, <1>3, <1>4 DEF headers

LEMMA HeaderIs ==
  ASSUME NEW behind, Behind(form, behind), NEW i \in DOMAIN form.headers
  PROVE  form.headers[i] \in Receiving!Header /\ form.headers[i].name # NoText
         /\ SaysOf(form.headers[i], i, behind)
<1>1. form.headers \in Seq(Receiving!Header)
  BY DEF Behind, Says
<1> QED
  BY <1>1 DEF Behind, Says

LEMMA EditRowKeeps ==
  ASSUME ChannelInv, Receiving!ChannelFormAssumption, NEW i \in DOMAIN form.headers,
         Receiving!EditRow(i)
  PROVE  ChannelInv'
<1> DEFINE h == form.headers[i]
<1>1. form # None
  BY DEF Receiving!EditRow
<1>2. ASSUME NEW kind, kind \in {"values", "secrets"}, NEW g,
             Receiving!Edit(kind, [form EXCEPT !.headers[i] = g]),
             \A behind : Behind(form, behind) => g \in Receiving!Header /\ g.name = h.name
                 /\ SaysOf(g, i, behind)
      PROVE  ChannelInv'
  <2> DEFINE headers == [form.headers EXCEPT ![i] = g]
  <2>1. [form EXCEPT !.headers[i] = g] = [form EXCEPT !.headers = headers]
    OBVIOUS
  <2>2. ASSUME NEW behind, Behind(form, behind)
        PROVE  /\ headers \in Seq(Receiving!Header)
               /\ \A j \in DOMAIN headers : headers[j].name # NoText
                  /\ SaysOf(headers[j], j, behind)
               /\ \A j \in DOMAIN form.headers : j \in DOMAIN headers
                  /\ headers[j].name = form.headers[j].name
    BY <1>2, <2>2, RowEdit
  <2> HIDE DEF headers
  <2> QED
    BY <1>1, <1>2, <2>1, <2>2, SecretsEdit
<1>3. ASSUME NEW v \in {h.name, NoText},
      Receiving!Edit("values", [form EXCEPT !.headers[i] = [h EXCEPT !.value = v]])
      PROVE  ChannelInv'
  <2>1. ASSUME NEW behind, Behind(form, behind)
        PROVE  [h EXCEPT !.value = v] \in Receiving!Header /\ [h EXCEPT !.value = v].name = h.name
               /\ SaysOf([h EXCEPT !.value = v], i, behind)
    BY <2>1, HeaderIs DEF Receiving!Header, Receiving!Values, SaysOf
  <2> HIDE DEF h
  <2> QED
    BY <1>2, <1>3, <2>1
<1>4. ASSUME Receiving!Edit("secrets", [form EXCEPT !.headers[i] =
                [h EXCEPT !.secret = ~h.secret,
                 !.value = IF h.secret /\ h.value = Masked THEN NoText ELSE h.value]])
      PROVE  ChannelInv'
  <2> DEFINE v == IF h.secret /\ h.value = Masked THEN NoText ELSE h.value
  <2>1. PICK b \in BOOLEAN : b = ~h.secret
    OBVIOUS
  <2> DEFINE g == [h EXCEPT !.secret = b, !.value = v]
  <2>2. ASSUME NEW behind, Behind(form, behind)
        PROVE  g \in Receiving!Header /\ g.name = h.name /\ SaysOf(g, i, behind)
    <3>1. h \in Receiving!Header /\ h.name # NoText /\ SaysOf(h, i, behind)
      BY <2>2, HeaderIs
    <3>2. v \in {NoText, h.name}
      BY <3>1 DEF SaysOf
    <3> HIDE DEF h, v
    <3> QED
      BY <3>1, <3>2 DEF Receiving!Header, Receiving!Values, SaysOf
  <2>3. Receiving!Edit("secrets", [form EXCEPT !.headers[i] = g])
    BY <1>4, <2>1
  <2> HIDE DEF h, v, g
  <2> QED
    BY <1>2, <2>2, <2>3
<1>5. ASSUME NEW changed, Receiving!Edit("remove", changed), ChannelFormish(changed, session),
             changed.made = form.made,
             changed.schedules = form.schedules
      PROVE  ChannelInv'
  BY <1>5, ChannelEditKeeps
<1>6. ASSUME NEW headers, Receiving!Edit("remove", [form EXCEPT !.headers = headers])
      PROVE  ChannelInv'
  <2>1. /\ ChannelFormish([form EXCEPT !.headers = headers], session)
        /\ [form EXCEPT !.headers = headers].made = form.made
        /\ [form EXCEPT !.headers = headers].schedules = form.schedules
    BY <1>1, FormIs DEF ChannelFormish
  <2> QED
    BY <1>5, <1>6, <2>1
<1>7. CASE Receiving!Edit("remove", [form EXCEPT !.headers = Receiving!RemoveAt(form.headers, i)])
  BY <1>6, <1>7
<1>8. CASE Receiving!Edit("remove", [form EXCEPT !.headers[i].name = NoText])
  <2>1. Receiving!Edit("remove", [form EXCEPT !.headers = [form.headers EXCEPT ![i].name = NoText]])
    BY <1>8
  <2> QED
    BY <1>6, <2>1
<1> QED
  BY <1>3, <1>4, <1>7, <1>8 DEF Receiving!EditRow

LEMMA AddRowKeeps ==
  ASSUME ChannelInv, Receiving!ChannelFormAssumption, NEW n \in Names, Receiving!AddRow(n)
  PROVE  ChannelInv'
<1> DEFINE g == [name |-> n, secret |-> FALSE, value |-> NoText]
           headers == Append(form.headers, g)
<1>1. form # None /\ Receiving!Edit("rows", [form EXCEPT !.headers = headers])
  BY DEF Receiving!AddRow
<1>2. g \in Receiving!Header /\ g.name # NoText /\ g.value = NoText
  BY DEF Receiving!Header, Receiving!Values, Receiving!ChannelFormAssumption
<1> HIDE DEF g
<1>3. ASSUME NEW behind, Behind(form, behind)
      PROVE  /\ headers \in Seq(Receiving!Header)
             /\ \A j \in DOMAIN headers : headers[j].name # NoText /\ SaysOf(headers[j], j, behind)
             /\ \A j \in DOMAIN form.headers : j \in DOMAIN headers
                /\ headers[j].name = form.headers[j].name
  <2>1. /\ form.headers \in Seq(Receiving!Header)
        /\ \A j \in DOMAIN form.headers : form.headers[j].name # NoText
           /\ SaysOf(form.headers[j], j, behind)
    BY <1>3 DEF Behind, Says
  <2>2. /\ headers \in Seq(Receiving!Header) /\ DOMAIN form.headers \subseteq DOMAIN headers
        /\ \A j \in DOMAIN headers :
             (j \in DOMAIN form.headers /\ headers[j] = form.headers[j]) \/ headers[j] = g
        /\ \A j \in DOMAIN form.headers : headers[j] = form.headers[j]
    BY <1>2, <2>1
  <2> HIDE DEF headers
  <2>3. \A j : SaysOf(g, j, behind)
    BY <1>2 DEF SaysOf
  <2>4. ASSUME NEW j \in DOMAIN headers PROVE headers[j].name # NoText
               /\ SaysOf(headers[j], j, behind)
    BY <1>2, <2>1, <2>2, <2>3
  <2>5. ASSUME NEW j \in DOMAIN form.headers PROVE j \in DOMAIN headers
               /\ headers[j].name = form.headers[j].name
    BY <2>2
  <2> QED
    BY <2>2, <2>4, <2>5
<1> HIDE DEF headers
<1> QED
  BY <1>1, <1>3, SecretsEdit

LEMMA EditAuthKeeps ==
  ASSUME ChannelInv, Receiving!EditAuth
  PROVE  ChannelInv'
<1>1. form # None
  BY DEF Receiving!EditAuth
<1>2. PICK a \in {NoAuth, NoText, Token} : Receiving!Edit("auth", [form EXCEPT !.auth = a])
  BY DEF Receiving!EditAuth
<1>3. ASSUME NEW behind, Behind(form, behind)
      PROVE  /\ form.headers \in Seq(Receiving!Header)
             /\ \A i \in DOMAIN form.headers : form.headers[i].name # NoText
                /\ SaysOf(form.headers[i], i, behind)
  BY <1>3 DEF Behind, Says
<1> QED
  BY <1>1, <1>2, <1>3, SecretsEdit

(***************************************************************************)
(* What is read, and the form.                                             *)
(***************************************************************************)
LEMMA SameSession == ASSUME ChannelTyped, session' = session PROVE GoesOn
BY DEF ChannelTyped, SessionTyped, GoesOn

LEMMA MaskIs ==
  ASSUME NEW entry, NEW s, ChannelRowish(entry, s)
  PROVE  ChannelRowish(Receiving!Mask(entry), s) /\ Masks(Receiving!Mask(entry), entry)
<1> DEFINE headers == [i \in DOMAIN entry.headers |-> Receiving!Hidden(entry.headers[i])]
           auth == IF entry.auth \in {NoAuth, NoText} THEN entry.auth ELSE Masked
<1>1. Receiving!Mask(entry) = [entry EXCEPT !.headers = headers, !.auth = auth]
  BY DEF Receiving!Mask
<1>2. DOMAIN headers = DOMAIN entry.headers
        /\ \A i \in DOMAIN entry.headers : headers[i] = Receiving!Hidden(entry.headers[i])
  OBVIOUS
<1>3. auth = IF entry.auth \in {NoAuth, NoText} THEN entry.auth ELSE Masked
  OBVIOUS
<1> HIDE DEF headers, auth
<1>4. ChannelRowish(Receiving!Mask(entry), s) /\ Receiving!Mask(entry).headers = headers
        /\ Receiving!Mask(entry).auth = auth
  BY <1>1 DEF ChannelRowish
<1> QED
  BY <1>2, <1>3, <1>4 DEF Masks

LEMMA ChannelKeptIs ==
  ASSUME NEW s, ChannelFormish(form, s), form # None, NEW read, NEW f,
         f = Receiving!Kept(form, read)
  PROVE  \/ f = None
         \/ /\ ChannelFormish(f, s) /\ f.headers = form.headers /\ f.auth = form.auth
                /\ f.schedules = form.schedules
            /\ f.made = form.made /\ f.all = form.all
               /\ (~f.all => f.systems \subseteq read.visible)
            /\ f.initial = form.initial
               \/ (Receiving!Channel \in DOMAIN read.rows /\ f.initial = read.rows[Receiving!Channel])
<1>1. CASE form.mode = "edit" /\ Receiving!Channel \notin DOMAIN read.rows
  BY <1>1 DEF Receiving!Kept
<1>2. CASE form.mode = "edit" /\ Receiving!Channel \in DOMAIN read.rows
  <2> DEFINE g == [form EXCEPT !.initial = read.rows[Receiving!Channel]]
  <2>1. f = Receiving!Narrowed(g, read.visible)
    BY <1>2 DEF Receiving!Kept
  <2>2. /\ ChannelFormish(g, s) /\ g.headers = form.headers /\ g.auth = form.auth
            /\ g.schedules = form.schedules
        /\ g.made = form.made /\ g.all = form.all /\ g.initial = read.rows[Receiving!Channel]
    BY DEF ChannelFormish
  <2> HIDE DEF g
  <2> QED
    BY <1>2, <2>1, <2>2, NarrowedIs
<1>3. CASE form.mode # "edit"
  <2>1. f = Receiving!Narrowed(form, read.visible)
    BY <1>3 DEF Receiving!Kept
  <2> QED
    BY <2>1, NarrowedIs
<1> QED
  BY <1>1, <1>2, <1>3

LEMMA ChannelReadKeeps ==
  ASSUME ChannelInv, Receiving!Read
  PROVE  ChannelInv'
<1>1. UNCHANGED <<server, wire, told, tested, session>> /\ form' = Receiving!Kept(form, data')
  BY DEF Receiving!Read
<1>2. PICK k : k = [c \in DOMAIN server.rows |-> Receiving!Mask(server.rows[c])]
  OBVIOUS
<1>3. /\ data' \in {[data EXCEPT !.rows = k], [data EXCEPT !.visible = server.visible],
                    [data EXCEPT !.schedules = server.schedules]}
  BY <1>2 DEF Receiving!Read
<1>4. /\ Knows(server, session) /\ Knows(data, session)
  BY DEF ChannelInv, ChannelTyped
<1>5. /\ DOMAIN k = DOMAIN server.rows
      /\ \A c \in DOMAIN k : ChannelRowish(k[c], session) /\ Masks(k[c], server.rows[c])
  BY <1>2, <1>4, MaskIs DEF Knows
<1>6. /\ Knows(data', session)
      /\ data'.rows \in {data.rows, k} /\ data'.schedules \in {data.schedules, server.schedules}
  BY <1>3, <1>4, <1>5 DEF Knows
<1>7. ASSUME form # None
      PROVE  \/ form' = None
             \/ /\ ChannelFormish(form', session) /\ form'.headers = form.headers
                   /\ form'.auth = form.auth
                /\ form'.schedules = form.schedules
                /\ form'.made = form.made /\ form'.all = form.all
                   /\ (~form'.all => form'.systems \subseteq data'.visible)
                /\ \/ form'.initial = form.initial
                   \/ Receiving!Channel \in DOMAIN data'.rows
                      /\ form'.initial = data'.rows[Receiving!Channel]
  BY <1>1, <1>7, FormIs, ChannelKeptIs
<1>8. form = None => form' = None
  BY <1>1 DEF Receiving!Kept
<1>9. ChannelTyped'
  BY <1>1, <1>6, <1>7, <1>8, SameSession, TypedStays DEF ChannelInv
<1>10. AskFits' /\ RowsStored' /\ AskShown' /\ Receiving!SavedAsShown'
  BY <1>1 DEF ChannelInv, AskFits, RowsStored, AskShown, Receiving!SavedAsShown, Asks
<1>11. FormShown'
  <2> SUFFICES ASSUME form' # None PROVE FormShown'
    BY DEF FormShown
  <2>1. /\ form # None /\ form'.schedules = form.schedules /\ form'.made = form.made
        /\ ~form'.all => form'.systems \subseteq data'.visible
    BY <1>7, <1>8
  <2>2. session.regular
          => form.schedules \cap server.schedules \subseteq data.schedules \cup form.made
    BY <2>1 DEF ChannelInv, FormShown
  <2> QED
    BY <1>1, <1>6, <2>1, <2>2 DEF FormShown
<1>12. FormFits'
  <2> SUFFICES ASSUME form' # None, session.regular, ~Saved PROVE
        IF session.mode = "new" THEN Behind(form', Receiving!Empty)
        ELSE Receiving!Channel \in DOMAIN server.rows =>
               /\ Behind(form', server.rows[Receiving!Channel])
               /\ Receiving!Channel \in DOMAIN data'.rows
                  => Masks(data'.rows[Receiving!Channel], server.rows[Receiving!Channel])
    BY <1>1 DEF FormFits, Saved
  <2>1. form # None /\ form'.headers = form.headers /\ form'.auth = form.auth
    BY <1>7, <1>8
  <2>2. Says(form, Receiving!Empty) => Says(form', Receiving!Empty)
    BY <2>1 DEF Says
  <2>3. CASE session.mode = "new"
    <3>1. form'.initial = form.initial
      <4>1. form.mode = "new" /\ form' = Receiving!Narrowed(form, data'.visible)
        BY <1>1, <2>1, <2>3, FormIs DEF Receiving!Kept
      <4> QED
        BY <2>1, <4>1, FormIs, NarrowedIs
    <3>2. Behind(form, Receiving!Empty)
      BY <2>1, <2>3 DEF ChannelInv, FormFits
    <3> QED
      BY <2>1, <2>3, <3>1, <3>2 DEF Behind, Says
  <2>4. CASE session.mode # "new" /\ Receiving!Channel \in DOMAIN server.rows
    <3> DEFINE entry == server.rows[Receiving!Channel]
    <3>1. Behind(form, entry)
            /\ (Receiving!Channel \in DOMAIN data.rows => Masks(data.rows[Receiving!Channel],
                                                                entry))
      BY <2>1, <2>4 DEF ChannelInv, FormFits
    <3>2. Receiving!Channel \in DOMAIN data'.rows => Masks(data'.rows[Receiving!Channel], entry)
      BY <1>5, <1>6, <2>4, <3>1
    <3> HIDE DEF entry
    <3>3. Masks(form'.initial, entry)
      BY <1>7, <2>1, <3>1, <3>2 DEF Behind
    <3>4. Behind(form', entry)
      BY <2>1, <3>1, <3>3 DEF Behind, Says
    <3> QED
      BY <2>4, <3>2, <3>4 DEF entry
  <2> QED
    BY <2>3, <2>4
<1> QED
  BY <1>9, <1>10, <1>11, <1>12 DEF ChannelInv

\* A form of what is listed, which is as it is stored.
LEMMA ChannelOpenKeeps ==
  ASSUME ChannelInv, Receiving!ChannelFormAssumption, Receiving!Open
  PROVE  ChannelInv'
<1> DEFINE initial == IF session.mode = "new" THEN Receiving!Empty ELSE data.rows[Receiving!Channel]
           scheduled == initial.schedules # {}
           f == [headers |-> initial.headers, auth |-> initial.auth, all |-> initial.all,
                 systems |-> initial.systems, schedules |-> initial.schedules,
                 scheduled |-> scheduled, made |-> {},
                 mode |-> session.mode, initial |-> initial]
<1>1. /\ form = None /\ form' = Receiving!Narrowed(f, data.visible)
      /\ UNCHANGED <<server, data, wire, told>>
         /\ (session.mode # "new" => Receiving!Channel \in DOMAIN data.rows)
      /\ session' = [session EXCEPT !.opens = session.opens - 1,
                     !.regular = session.regular /\ Receiving!Current]
  BY DEF Receiving!Open
<1>2. PICK b \in BOOLEAN : b = (session.regular /\ Receiving!Current)
  OBVIOUS
<1>3. /\ GoesOn /\ session'.schedules = session.schedules
      /\ session'.regular => session.regular /\ Receiving!Current
  <2>1. session' = [session EXCEPT !.opens = session.opens - 1, !.regular = b]
    BY <1>1, <1>2
  <2> QED
    BY <1>2, <2>1 DEF ChannelInv, ChannelTyped, SessionTyped, GoesOn
<1>4. ChannelRowish(initial, session)
  BY <1>1 DEF ChannelInv, ChannelTyped, Knows, Receiving!Empty, ChannelRowish
<1>5. PICK d \in BOOLEAN : d = scheduled
  OBVIOUS
<1>6. f = [headers |-> initial.headers, auth |-> initial.auth, all |-> initial.all,
           systems |-> initial.systems, schedules |-> initial.schedules,
           scheduled |-> d, made |-> {}, mode |-> session.mode, initial |-> initial]
  BY <1>5
<1> HIDE DEF initial, scheduled
<1>7. /\ ChannelFormish(f, session) /\ f.headers = initial.headers /\ f.auth = initial.auth
          /\ f.initial = initial
      /\ f.schedules = initial.schedules /\ f.made = {}
  BY <1>4, <1>6 DEF ChannelRowish, ChannelFormish
<1> HIDE DEF f
<1>8. /\ ChannelFormish(form', session) /\ form'.headers = initial.headers
          /\ form'.auth = initial.auth
      /\ form'.initial = initial /\ form'.schedules = initial.schedules /\ form'.made = {}
      /\ ~form'.all => form'.systems \subseteq data.visible
  BY <1>1, <1>7, NarrowedIs
<1>9. ChannelFormish(form', session')
  BY <1>3, <1>8, Wider DEF GoesOn
<1>10. ChannelTyped'
  BY <1>1, <1>3, <1>9, TypedStays DEF ChannelInv
<1>11. AskFits' /\ RowsStored' /\ AskShown' /\ Receiving!SavedAsShown'
  BY <1>1, <1>3 DEF ChannelInv, AskFits, RowsStored, AskShown, Receiving!SavedAsShown, Asks, GoesOn
<1>12. FormShown'
  <2>1. session'.regular => data.schedules = server.schedules
    BY <1>3 DEF Receiving!Current
  <2> QED
    BY <1>1, <1>8, <2>1 DEF FormShown
<1>13. FormFits'
  <2> SUFFICES ASSUME session'.regular PROVE
        IF session.mode = "new" THEN Behind(form', Receiving!Empty)
        ELSE Receiving!Channel \in DOMAIN server.rows =>
               /\ Behind(form', server.rows[Receiving!Channel])
               /\ Receiving!Channel \in DOMAIN data.rows
                  => Masks(data.rows[Receiving!Channel], server.rows[Receiving!Channel])
    BY <1>1, <1>3 DEF FormFits, GoesOn
  <2>1. CASE session.mode = "new"
    <3>1. form'.initial = Receiving!Empty /\ form'.headers = <<>> /\ form'.auth = NoAuth
      BY <1>8, <2>1 DEF initial, Receiving!Empty
    <3>2. <<>> \in Seq(Receiving!Header) /\ DOMAIN <<>> = {}
      BY EmptySeq
    <3> QED
      BY <2>1, <3>1, <3>2 DEF Behind, Says, Masks, Receiving!Empty
  <2>2. CASE session.mode # "new" /\ Receiving!Channel \in DOMAIN server.rows
    <3> DEFINE entry == server.rows[Receiving!Channel]
    <3>1. Stored(entry) /\ ChannelRowish(entry, session)
      BY <1>3, <2>2 DEF ChannelInv, RowsStored, ChannelTyped, Knows
    <3>2. initial = data.rows[Receiving!Channel] /\ Receiving!Channel \in DOMAIN data.rows
      BY <1>1, <2>2 DEF initial
    <3>3. initial.headers = Receiving!Mask(entry).headers
            /\ initial.auth = Receiving!Mask(entry).auth
      BY <1>3, <2>2, <3>2 DEF Receiving!Current
    <3> HIDE DEF entry
    <3>4. Masks(initial, entry)
      <4>1. Masks(Receiving!Mask(entry), entry)
        BY <3>1, MaskIs
      <4> QED
        BY <3>3, <4>1, Zenon DEF Masks
    <3>5. \A i \in DOMAIN entry.headers :
            /\ entry.headers[i] \in Receiving!Header /\ entry.headers[i].name # NoText
            /\ entry.headers[i].value \in {NoText, entry.headers[i].name}
      BY <3>1 DEF Stored, Receiving!OfTheirRows
    <3>6. \A i \in DOMAIN entry.headers :
            /\ initial.headers[i] \in Receiving!Header
               /\ initial.headers[i].name = entry.headers[i].name
            /\ SaysOf(initial.headers[i], i, entry)
      <4> TAKE i \in DOMAIN entry.headers
      <4>1. initial.headers[i] = Receiving!Hidden(entry.headers[i])
        BY <3>4 DEF Masks
      <4>2. CASE entry.headers[i].secret /\ entry.headers[i].value # NoText
        BY <3>5, <4>1, <4>2 DEF Receiving!Hidden, Receiving!Header, Receiving!Values, SaysOf
      <4>3. CASE ~(entry.headers[i].secret /\ entry.headers[i].value # NoText)
        BY <3>5, <4>1, <4>3 DEF Receiving!Hidden, SaysOf
      <4> QED
        BY <4>2, <4>3
    <3>7. initial.headers \in Seq(Receiving!Header) /\ DOMAIN initial.headers = DOMAIN entry.headers
      <4>1. initial.headers = [i \in DOMAIN entry.headers |-> Receiving!Hidden(entry.headers[i])]
        <5> DEFINE hs == [i \in DOMAIN entry.headers |-> Receiving!Hidden(entry.headers[i])]
                   a == IF entry.auth \in {NoAuth, NoText} THEN entry.auth ELSE Masked
        <5>1. Receiving!Mask(entry) = [entry EXCEPT !.headers = hs, !.auth = a]
          BY DEF Receiving!Mask
        <5> HIDE DEF hs, a
        <5>2. Receiving!Mask(entry).headers = hs
          BY <3>1, <5>1 DEF ChannelRowish
        <5> QED
          BY <3>3, <5>2 DEF hs
      <4>2. PICK n \in Nat : DOMAIN entry.headers = 1 .. n
        BY <3>1 DEF Stored
      <4>3. initial.headers \in [1 .. n -> Receiving!Header]
        BY <3>6, <4>1, <4>2
      <4> QED
        BY <4>1, <4>2, <4>3
    <3>8. initial.auth \in {NoAuth, NoText, Token} \/ (initial.auth = Masked /\ entry.auth = Token)
      BY <3>1, <3>4 DEF Masks, Stored, Receiving!OfTheirRows
    <3>9. Behind(form', entry)
      BY <1>8, <3>4, <3>5, <3>6, <3>7, <3>8 DEF Behind, Says
    <3> QED
      BY <2>2, <3>2, <3>4, <3>9 DEF entry
  <2> QED
    BY <2>1, <2>2
<1> QED
  BY <1>10, <1>11, <1>12, <1>13 DEF ChannelInv

\* The form closes, and nothing else happens that this is about.
LEMMA ClosedKeeps ==
  ASSUME ChannelInv, form' = None, UNCHANGED <<server, data, wire, told, session>>
  PROVE  ChannelInv'
<1>1. ChannelTyped'
  BY SameSession, TypedStays DEF ChannelInv
<1> QED
  BY <1>1 DEF ChannelInv, FormFits, AskFits, RowsStored, FormShown, AskShown,
     Receiving!SavedAsShown, Asks

(***************************************************************************)
(* What is sent.                                                           *)
(***************************************************************************)
\* The request of a save says what the form does, where a secret was left empty too.
LEMMA FinalizedSays ==
  ASSUME Receiving!ChannelFormAssumption, NEW behind, Behind(form, behind),
         \A i \in DOMAIN behind.headers :
           behind.headers[i].value \in {NoText, behind.headers[i].name},
         behind.auth \in {NoAuth, Token}
  PROVE  Says(Receiving!Sent, behind)
<1> DEFINE before == form.initial.headers
           f(i) == [form.headers[i] EXCEPT !.value =
                      Receiving!Preserved(form.headers[i].value,
                                          IF i \in DOMAIN before THEN before[i].value ELSE NoText,
                                          form.headers[i].secret)]
<1>1. /\ form.headers \in Seq(Receiving!Header)
      /\ \A i \in DOMAIN form.headers : form.headers[i].name # NoText
         /\ SaysOf(form.headers[i], i, behind)
  BY DEF Behind, Says
<1>2. Receiving!Named(form.headers) = form.headers
  BY <1>1 DEF Receiving!Named
<1>3. Receiving!Sent.headers = [i \in DOMAIN form.headers |-> f(i)]
  BY <1>2 DEF Receiving!Sent, Receiving!Built, Receiving!Finalized
<1>4. \A i \in DOMAIN before :
        /\ i \in DOMAIN behind.headers /\ i \in DOMAIN form.headers
        /\ before[i] = Receiving!Hidden(behind.headers[i])
           /\ form.headers[i].name = behind.headers[i].name
  BY DEF Behind, Masks
<1>5. \A i \in DOMAIN form.headers :
        f(i) \in Receiving!Header /\ f(i).name = form.headers[i].name /\ SaysOf(f(i), i, behind)
  <2> TAKE i \in DOMAIN form.headers
  <2> DEFINE h == form.headers[i]
             v == Receiving!Preserved(h.value,
                                      IF i \in DOMAIN before THEN before[i].value ELSE NoText,
                                      h.secret)
  <2>1. h \in Receiving!Header /\ h.name # NoText /\ SaysOf(h, i, behind)
    BY <1>1
  <2>2. f(i) = [h EXCEPT !.value = v]
    OBVIOUS
  <2>3. \/ v = h.value \/ v = NoText
        \/ v = Masked /\ h.secret /\ i \in DOMAIN before /\ before[i].value = Masked
    BY DEF Receiving!Preserved, Receiving!ChannelFormAssumption
  <2>4. i \in DOMAIN before /\ before[i].value = Masked
          => i \in DOMAIN behind.headers /\ behind.headers[i].secret
              /\ behind.headers[i].name = h.name
    <3> SUFFICES ASSUME i \in DOMAIN before, before[i].value = Masked
                 PROVE  i \in DOMAIN behind.headers /\ behind.headers[i].secret
                        /\ behind.headers[i].name = h.name
      OBVIOUS
    <3>1. before[i] = Receiving!Hidden(behind.headers[i]) /\ i \in DOMAIN behind.headers
            /\ behind.headers[i].name = h.name
      BY <1>4
    <3>2. behind.headers[i].value # Masked
      BY <2>1, <3>1 DEF Receiving!ChannelFormAssumption, Receiving!Header
    <3>3. behind.headers[i].secret
      BY <3>1, <3>2 DEF Receiving!Hidden
    <3> QED
      BY <3>1, <3>3
  <2> HIDE DEF h, v, before
  <2>5. f(i).name = h.name /\ f(i).secret = h.secret /\ f(i).value = v /\ f(i) \in Receiving!Header
    BY <2>1, <2>2, <2>3 DEF Receiving!Header, Receiving!Values
  <2>6. SaysOf(f(i), i, behind)
    BY <2>1, <2>3, <2>4, <2>5 DEF SaysOf
  <2> QED
    BY <2>5, <2>6 DEF h
<1> HIDE DEF f, before
<1>6. /\ Receiving!Sent.headers \in Seq(Receiving!Header)
          /\ DOMAIN Receiving!Sent.headers = DOMAIN form.headers
      /\ \A i \in DOMAIN form.headers : Receiving!Sent.headers[i] = f(i)
  <2>1. PICK n \in Nat : DOMAIN form.headers = 1 .. n
    BY <1>1
  <2>2. Receiving!Sent.headers \in [1 .. n -> Receiving!Header]
    BY <1>3, <1>5, <2>1
  <2> QED
    BY <1>3, <2>1, <2>2
<1>7. Receiving!Sent.auth \in {NoAuth, NoText, Token}
        \/ (Receiving!Sent.auth = Masked /\ behind.auth = Token)
  <2>1. form.auth \in {NoAuth, NoText, Token} \/ (form.auth = Masked /\ behind.auth = Token)
    BY DEF Behind, Says
  <2>2. Receiving!Sent.auth = IF form.auth = NoAuth THEN NoAuth
          ELSE Receiving!Preserved(form.auth, form.initial.auth, TRUE)
    BY DEF Receiving!Sent, Receiving!Built
  <2>3. form.initial.auth = IF behind.auth \in {NoAuth, NoText} THEN behind.auth ELSE Masked
    BY DEF Behind, Masks
  <2> QED
    BY <2>1, <2>2, <2>3 DEF Receiving!Preserved
<1> QED
  BY <1>1, <1>5, <1>6, <1>7 DEF Says

LEMMA ChannelSubmitKeeps ==
  ASSUME ChannelInv, Receiving!ChannelFormAssumption, Receiving!Submit
  PROVE  ChannelInv'
<1> DEFINE w == [what |-> "save", mode |-> form.mode, ask |-> Receiving!Sent,
                 shown |-> Receiving!Ticked, answer |-> "none"]
<1>1. /\ form # None /\ wire = None /\ wire' = w
         /\ UNCHANGED <<server, data, form, told, tested, session>>
  BY DEF Receiving!Submit
<1>2. /\ w.what = "save" /\ w.mode = form.mode /\ w.ask = Receiving!Sent
          /\ w.shown = Receiving!Ticked /\ w.answer = "none"
      /\ w \in [what : {"save"}, mode : {form.mode}, ask : {Receiving!Sent},
                shown : {Receiving!Ticked}, answer : Answers]
  BY DEF Answers
<1> HIDE DEF w
<1>3. /\ Receiving!Sent = [headers |-> Receiving!Built.headers, auth |-> Receiving!Built.auth,
                           all |-> form.all,
                           systems |-> IF form.all THEN {} ELSE form.systems,
                           schedules |-> IF form.scheduled THEN form.schedules ELSE {}]
  BY DEF Receiving!Sent
<1>4. ChannelRowish(Receiving!Sent, session)
  <2>1. PICK picked \in SUBSET PageSystems : picked = IF form.all THEN {} ELSE form.systems
    BY <1>1, FormIs
  <2>2. PICK schedules \in SUBSET session.schedules :
          schedules = IF form.scheduled THEN form.schedules ELSE {}
    BY <1>1, FormIs
  <2>3. form.all \in BOOLEAN
    BY <1>1, FormIs
  <2> QED
    BY <1>3, <2>1, <2>2, <2>3 DEF ChannelRowish
<1>5. Wireish(w, session)
  <2>1. Receiving!Ticked \in [all : BOOLEAN, systems : SUBSET PageSystems,
                              schedules : SUBSET session.schedules]
    <3>1. PICK picked \in SUBSET PageSystems : picked = IF form.all THEN {}
            ELSE form.systems \cap data.visible
      BY <1>1, FormIs
    <3>2. PICK schedules \in SUBSET session.schedules :
            schedules = IF form.scheduled THEN form.schedules \cap Receiving!Options ELSE {}
      BY <1>1, FormIs
    <3>3. form.all \in BOOLEAN
      BY <1>1, FormIs
    <3> QED
      BY <3>1, <3>2, <3>3 DEF Receiving!Ticked
  <2> QED
    BY <1>1, <1>2, <1>4, <2>1, FormIs DEF Wireish
<1>6. ChannelTyped'
  BY <1>1, <1>5, SameSession, TypedStays DEF ChannelInv
<1>7. RowsStored' /\ FormShown' /\ Receiving!SavedAsShown'
  BY <1>1 DEF ChannelInv, RowsStored, FormShown, Receiving!SavedAsShown
<1>8. FormFits'
  BY <1>1, <1>2 DEF ChannelInv, FormFits, Saved
<1>9. AskShown'
  <2>1. /\ Receiving!Sent.all = Receiving!Ticked.all
            /\ Receiving!Ticked.schedules \subseteq Receiving!Sent.schedules
        /\ Receiving!Sent.systems = (IF form.all THEN {} ELSE form.systems)
        /\ Receiving!Ticked.systems = (IF form.all THEN {} ELSE form.systems \cap data.visible)
    BY DEF Receiving!Sent, Receiving!Ticked
  <2>2. Receiving!Sent.systems = Receiving!Ticked.systems
    BY <1>1, <2>1, FormIs DEF ChannelInv, FormShown
  <2>3. session.regular
          => Receiving!Sent.schedules \cap server.schedules \subseteq Receiving!Ticked.schedules
    BY <1>1 DEF ChannelInv, FormShown, Receiving!Sent, Receiving!Ticked, Receiving!Options
  <2> QED
    BY <1>1, <1>2, <2>1, <2>2, <2>3 DEF AskShown
<1>10. AskFits'
  <2> SUFFICES ASSUME session.regular
               PROVE  IF session.mode = "new" THEN Says(Receiving!Sent, Receiving!Empty)
                      ELSE Receiving!Channel \in DOMAIN server.rows
                          => Says(Receiving!Sent, server.rows[Receiving!Channel])
    BY <1>1, <1>2 DEF AskFits
  <2>1. CASE session.mode = "new"
    <3>1. Behind(form, Receiving!Empty)
      BY <1>1, <2>1 DEF ChannelInv, FormFits, Saved
    <3>2. DOMAIN Receiving!Empty.headers = {} /\ Receiving!Empty.auth = NoAuth
      BY DEF Receiving!Empty
    <3> QED
      BY <2>1, <3>1, <3>2, FinalizedSays
  <2>2. CASE session.mode # "new" /\ Receiving!Channel \in DOMAIN server.rows
    <3>1. Behind(form, server.rows[Receiving!Channel])
      BY <1>1, <2>2 DEF ChannelInv, FormFits, Saved
    <3>2. Stored(server.rows[Receiving!Channel])
      BY <2>2 DEF ChannelInv, RowsStored
    <3> QED
      BY <2>2, <3>1, <3>2, FinalizedSays DEF Stored, Receiving!OfTheirRows
  <2> QED
    BY <2>1, <2>2
<1> QED
  BY <1>6, <1>7, <1>8, <1>9, <1>10 DEF ChannelInv

\* A request that stores nothing of the channel.
LEMMA OtherSent ==
  ASSUME ChannelInv, wire = None \/ ~Saved, NEW w, w.what # "save", Wireish(w, session), wire' = w,
         UNCHANGED <<server, data, form, told, session>>
  PROVE  ChannelInv'
<1>1. ChannelTyped'
  BY SameSession, TypedStays DEF ChannelInv
<1>2. RowsStored' /\ FormShown' /\ Receiving!SavedAsShown' /\ AskShown' /\ AskFits'
  BY DEF ChannelInv, RowsStored, FormShown, Receiving!SavedAsShown, AskShown, AskFits, Asks
<1>3. FormFits'
  BY DEF ChannelInv, FormFits, Saved
<1> QED
  BY <1>1, <1>2, <1>3 DEF ChannelInv

LEMMA ChannelAskKeeps ==
  ASSUME ChannelInv, Receiving!Test \/ Receiving!NewSchedule
  PROVE  ChannelInv'
<1>1. CASE Receiving!Test
  <2> DEFINE w == [what |-> "test", mode |-> form.mode, ask |-> Receiving!Sent, answer |-> "none"]
  <2>1. wire = None /\ form # None /\ wire' = w /\ UNCHANGED <<server, data, form, told, session>>
    BY <1>1 DEF Receiving!Test
  <2>2. w.what = "test" /\ Wireish(w, session)
    BY <2>1, FormIs DEF Wireish, Answers
  <2> HIDE DEF w
  <2> QED
    BY <2>1, <2>2, OtherSent
<1>2. CASE Receiving!NewSchedule
  <2> DEFINE w == [what |-> "schedule", answer |-> "none"]
  <2>1. wire = None /\ wire' = w /\ UNCHANGED <<server, data, form, told, session>>
    BY <1>2 DEF Receiving!NewSchedule
  <2>2. w.what = "schedule" /\ Wireish(w, session)
    BY DEF Wireish
  <2> HIDE DEF w
  <2> QED
    BY <2>1, <2>2, OtherSent
<1> QED
  BY <1>1, <1>2

(***************************************************************************)
(* The server.                                                             *)
(***************************************************************************)
\* The row that a save stores.
NewRow(source, ask) == [Receiving!Merged(source, ask) EXCEPT !.schedules = @ \cap server.schedules]

LEMMA MergedIs ==
  ASSUME NEW s, NEW ask, ChannelRowish(ask, s), NEW source
  PROVE  LET entry == NewRow(source, ask) IN
         /\ ChannelRowish(entry, s) /\ entry.all = ask.all /\ entry.systems = ask.systems
         /\ entry.schedules = ask.schedules \cap server.schedules
         /\ entry.headers = Receiving!MergedHeaders(source.headers, ask.headers)
         /\ entry.auth = (IF ask.auth = Masked /\ source.auth # NoAuth THEN source.auth ELSE ask.auth)
         /\ Receiving!Merged(source, ask).auth = entry.auth
<1> DEFINE hs == Receiving!MergedHeaders(source.headers, ask.headers)
           a == IF ask.auth = Masked /\ source.auth # NoAuth THEN source.auth ELSE ask.auth
           few == ask.schedules \cap server.schedules
<1>1. Receiving!Merged(source, ask) = [ask EXCEPT !.headers = hs, !.auth = a]
  BY DEF Receiving!Merged
<1> HIDE DEF hs, a
<1>2. /\ Receiving!Merged(source, ask).auth = a
          /\ Receiving!Merged(source, ask).schedules = ask.schedules
      /\ NewRow(source, ask) = [ask EXCEPT !.headers = hs, !.auth = a, !.schedules = few]
  BY <1>1 DEF ChannelRowish, NewRow
<1>3. few \in SUBSET s.schedules
  BY DEF ChannelRowish
<1> HIDE DEF few
<1>4. LET entry == NewRow(source, ask) IN
      /\ ChannelRowish(entry, s) /\ entry.all = ask.all /\ entry.systems = ask.systems
      /\ entry.schedules = few /\ entry.headers = hs /\ entry.auth = a
  BY <1>2, <1>3 DEF ChannelRowish
<1> QED
  BY <1>2, <1>4 DEF hs, a, few

LEMMA MergedStored ==
  ASSUME Receiving!ChannelFormAssumption, NEW s, NEW ask, ChannelRowish(ask, s), NEW source,
         Stored(source), Says(ask, source),
         Receiving!Valid(Receiving!Merged(source, ask))
  PROVE  Stored(NewRow(source, ask))
<1> DEFINE entry == NewRow(source, ask)
           f(i) == IF /\ ask.headers[i].secret /\ ask.headers[i].value = Masked
                      /\ i \in DOMAIN source.headers /\ source.headers[i].secret
                   THEN [ask.headers[i] EXCEPT !.value = source.headers[i].value]
                       ELSE ask.headers[i]
<1>1. /\ entry.headers = Receiving!MergedHeaders(source.headers, ask.headers) /\ entry.auth # NoText
      /\ entry.auth = (IF ask.auth = Masked /\ source.auth # NoAuth THEN source.auth ELSE ask.auth)
  BY MergedIs DEF Receiving!Valid
<1>2. entry.headers = [i \in DOMAIN ask.headers |-> f(i)]
  BY <1>1 DEF Receiving!MergedHeaders
<1>3. \A i \in DOMAIN source.headers :
        source.headers[i] \in Receiving!Header
            /\ source.headers[i].value \in {NoText, source.headers[i].name}
  BY DEF Stored, Receiving!OfTheirRows
<1>4. \A i \in DOMAIN ask.headers :
        ask.headers[i] \in Receiving!Header /\ ask.headers[i].name # NoText
            /\ SaysOf(ask.headers[i], i, source)
  BY DEF Says
<1> HIDE DEF entry
<1>5. \A i \in DOMAIN ask.headers :
        f(i) \in Receiving!Header /\ f(i).name # NoText /\ f(i).value \in {NoText, f(i).name}
  <2> TAKE i \in DOMAIN ask.headers
  <2> DEFINE h == ask.headers[i]
  <2>1. h \in Receiving!Header /\ h.name # NoText /\ SaysOf(h, i, source)
    BY <1>4
  <2>2. CASE h.value = Masked
    <3>1. /\ h.secret /\ i \in DOMAIN source.headers /\ source.headers[i].secret
          /\ source.headers[i].name = h.name
      BY <2>1, <2>2 DEF SaysOf, Receiving!ChannelFormAssumption, Receiving!Header
    <3>2. f(i) = [h EXCEPT !.value = source.headers[i].value]
      BY <2>2, <3>1
    <3>3. source.headers[i].value \in {NoText, h.name}
            /\ source.headers[i].value \in Receiving!Values
      BY <1>3, <3>1 DEF Receiving!Header
    <3> HIDE DEF h, f
    <3> QED
      BY <2>1, <3>2, <3>3 DEF Receiving!Header
  <2>3. CASE h.value # Masked
    <3>1. f(i) = h
      BY <2>3
    <3> HIDE DEF h, f
    <3> QED
      BY <2>1, <2>3, <3>1 DEF SaysOf
  <2> QED
    BY <2>2, <2>3
<1> HIDE DEF f
<1>6. /\ entry.headers \in Seq(Receiving!Header) /\ DOMAIN entry.headers = DOMAIN ask.headers
      /\ \A i \in DOMAIN ask.headers : entry.headers[i] = f(i)
  <2>1. PICK n \in Nat : DOMAIN ask.headers = 1 .. n
    BY DEF Says
  <2>2. entry.headers \in [1 .. n -> Receiving!Header]
    BY <1>2, <1>5, <2>1
  <2> QED
    BY <1>2, <2>1, <2>2
<1>7. entry.auth \in {NoAuth, Token}
  BY <1>1 DEF Says, Stored, Receiving!OfTheirRows, Receiving!ChannelFormAssumption
<1>8. Stored(entry)
  BY <1>5, <1>6, <1>7 DEF Stored, Receiving!OfTheirRows
<1> QED
  BY <1>8 DEF entry

LEMMA ChannelSaveKeeps ==
  ASSUME ChannelInv, Receiving!ChannelFormAssumption, wire # None, wire.answer = "none",
         wire.what = "save",
         Receiving!Accepts(wire), Receiving!Save(wire), wire' = [wire EXCEPT !.answer = "ok"],
         UNCHANGED <<data, form, session>>
  PROVE  ChannelInv'
<1> DEFINE to == IF wire.mode = "edit" THEN Receiving!Channel ELSE Receiving!Copy
           source == Receiving!Source(wire)
           entry == NewRow(source, wire.ask)
<1>1. /\ wire \in [what : {"save"}, mode : {session.mode}, ask : {wire.ask}, shown : {wire.shown},
                   answer : Answers]
      /\ ChannelRowish(wire.ask, session) /\ wire.mode = session.mode
  BY DEF ChannelInv, ChannelTyped, Wireish
<1>2. /\ server' = [server EXCEPT !.rows = [c \in DOMAIN server.rows \cup {to} |->
                                              IF c = to THEN entry ELSE server.rows[c]]]
      /\ told' = [of |-> to, shown |-> wire.shown]
  BY DEF Receiving!Save, NewRow
<1>3. /\ ChannelRowish(entry, session) /\ entry.all = wire.ask.all
          /\ entry.systems = wire.ask.systems
      /\ entry.schedules = wire.ask.schedules \cap server.schedules
  BY <1>1, MergedIs
<1>4. session.regular => Stored(entry)
  <2> SUFFICES ASSUME session.regular PROVE Stored(entry)
    OBVIOUS
  <2>1. /\ IF session.mode = "new" THEN Says(wire.ask, Receiving!Empty)
           ELSE Receiving!Channel \in DOMAIN server.rows
               => Says(wire.ask, server.rows[Receiving!Channel])
        /\ Receiving!Valid(Receiving!Merged(source, wire.ask))
        /\ session.mode # "new" => Receiving!Channel \in DOMAIN server.rows
    BY <1>1 DEF ChannelInv, AskFits, Asks, Receiving!Accepts
  <2>2. CASE session.mode = "new"
    <3>1. source = Receiving!Empty
      BY <1>1, <2>2 DEF Receiving!Source
    <3>2. Stored(Receiving!Empty)
      <4>1. <<>> \in Seq(Receiving!Header) /\ DOMAIN <<>> = {}
        BY EmptySeq
      <4> QED
        BY <4>1 DEF Stored, Receiving!OfTheirRows, Receiving!Empty
    <3> QED
      BY <1>1, <2>1, <2>2, <3>1, <3>2, MergedStored
  <2>3. CASE session.mode # "new"
    <3>1. source = server.rows[Receiving!Channel] /\ Receiving!Channel \in DOMAIN server.rows
      BY <1>1, <2>1, <2>3 DEF Receiving!Source
    <3>2. Stored(source)
      BY <3>1 DEF ChannelInv, RowsStored
    <3> QED
      BY <1>1, <2>1, <2>3, <3>1, <3>2, MergedStored
  <2> QED
    BY <2>2, <2>3
<1> HIDE DEF source, entry, to
<1>5. /\ Knows(server', session) /\ server'.schedules = server.schedules
      /\ DOMAIN server'.rows = DOMAIN server.rows \cup {to} /\ server'.rows[to] = entry
      /\ \A c \in DOMAIN server.rows : c # to => server'.rows[c] = server.rows[c]
  <2>1. /\ server \in [rows : {server.rows}, visible : SUBSET PageSystems,
                       schedules : SUBSET session.schedules]
        /\ \A c \in DOMAIN server.rows : ChannelRowish(server.rows[c], session)
    BY DEF ChannelInv, ChannelTyped, Knows
  <2> DEFINE rows == [c \in DOMAIN server.rows \cup {to} |-> IF c = to THEN entry ELSE server.rows[c]]
  <2>2. /\ DOMAIN rows = DOMAIN server.rows \cup {to} /\ rows[to] = entry
        /\ \A c \in DOMAIN server.rows : c # to => rows[c] = server.rows[c]
    OBVIOUS
  <2>3. \A c \in DOMAIN rows : ChannelRowish(rows[c], session)
    BY <1>3, <2>1, <2>2
  <2>4. server' = [server EXCEPT !.rows = rows]
    BY <1>2
  <2> HIDE DEF rows
  <2> QED
    BY <2>1, <2>2, <2>3, <2>4 DEF Knows
<1>6. wire'.what = "save" /\ wire'.answer = "ok" /\ Wireish(wire', session)
  <2>1. wire.shown \in [all : BOOLEAN, systems : SUBSET PageSystems,
                        schedules : SUBSET session.schedules]
    BY DEF ChannelInv, ChannelTyped, Wireish
  <2> QED
    BY <1>1, <2>1 DEF Wireish, Answers
<1>7. ChannelTyped'
  BY <1>5, <1>6, SameSession, TypedStays DEF ChannelInv
<1>8. AskFits' /\ AskShown'
  BY <1>6 DEF AskFits, AskShown, Asks
<1>9. FormShown' /\ RowsStored'
  BY <1>4, <1>5 DEF ChannelInv, FormShown, RowsStored
<1>10. Receiving!SavedAsShown'
  <2>1. /\ wire.ask.all = wire.shown.all /\ wire.ask.systems = wire.shown.systems
        /\ wire.shown.schedules \subseteq wire.ask.schedules
        /\ session.regular
           => wire.ask.schedules \cap server.schedules \subseteq wire.shown.schedules
        /\ wire.ask.schedules \subseteq server.schedules
    BY DEF ChannelInv, AskShown, Asks, Receiving!Accepts
  <2>2. told'.of = to /\ told'.shown = wire.shown
    BY <1>2
  <2> QED
    BY <1>3, <1>5, <2>1, <2>2 DEF Receiving!SavedAsShown
<1>11. FormFits'
  <2>1. CASE wire' # None
    BY <1>6, <2>1 DEF FormFits, Saved
  <2>2. CASE wire' = None
    <3> SUFFICES ASSUME session.regular PROVE FALSE
      BY DEF FormFits
    <3>1. /\ wire.shown \in [all : BOOLEAN, systems : SUBSET PageSystems,
                             schedules : SUBSET PageSchedules]
          /\ session.schedules \subseteq PageSchedules /\ session.mode \in {"new", "edit", "copy"}
      BY DEF ChannelInv, ChannelTyped, Wireish, SessionTyped
    <3>2. \E behind : Says(wire.ask, behind)
      BY <1>1 DEF ChannelInv, AskFits, Asks, Receiving!Accepts
    <3>3. wire.ask.headers \in Seq(Receiving!Header)
            /\ wire.ask.auth \in {NoAuth, NoText, Token, Masked}
      BY <3>2 DEF Says
    <3>4. wire.ask \in [headers : Seq(Receiving!Header), auth : {NoAuth, NoText, Token, Masked},
                        all : BOOLEAN,
                       systems : SUBSET PageSystems, schedules : SUBSET PageSchedules]
      BY <1>1, <3>1, <3>3 DEF ChannelRowish
    <3>5. wire' \in [what : {"save"}, mode : {"new", "edit", "copy"}, ask : {wire.ask},
                     shown : {wire.shown},
                    answer : {"ok"}]
      BY <1>1, <3>1
    <3> QED
      BY <2>2, <3>1, <3>4, <3>5 DEF Receiving!ChannelFormAssumption
  <2> QED
    BY <2>1, <2>2
<1> QED
  BY <1>7, <1>8, <1>9, <1>10, <1>11 DEF ChannelInv

LEMMA NewScheduleKeeps ==
  ASSUME ChannelInv, wire # None, wire.what = "schedule",
         NEW d \in PageSchedules \ session.schedules,
         server' = [server EXCEPT !.schedules = server.schedules \cup {d}],
         session' = [session EXCEPT !.schedules = session.schedules \cup {d}],
         wire' = [what |-> "schedule", answer |-> "ok", id |-> d],
         UNCHANGED <<data, form, told>>
  PROVE  ChannelInv'
<1>1. /\ GoesOn /\ session'.schedules = session.schedules \cup {d}
         /\ session'.regular = session.regular
  BY DEF ChannelInv, ChannelTyped, SessionTyped, GoesOn
<1>2. /\ Knows(server', session') /\ server'.rows = server.rows
      /\ server'.schedules = server.schedules \cup {d}
  <2>1. Knows(server, session')
    BY <1>1, Wider DEF ChannelInv, ChannelTyped, GoesOn
  <2> QED
    BY <1>1, <2>1 DEF Knows
<1>3. wire'.what = "schedule" /\ Wireish(wire', session')
  BY <1>1 DEF Wireish
<1>4. ChannelTyped'
  BY <1>1, <1>2, <1>3, TypedStays DEF ChannelInv
<1>5. form # None => d \notin form.schedules
  BY FormIs
<1>6. AskFits' /\ AskShown' /\ RowsStored' /\ Receiving!SavedAsShown'
  BY <1>1, <1>2, <1>3 DEF ChannelInv, AskFits, AskShown, RowsStored, Receiving!SavedAsShown, Asks
<1>7. FormShown'
  BY <1>1, <1>2, <1>5 DEF ChannelInv, FormShown
<1>8. FormFits'
  BY <1>1, <1>2, <1>3 DEF ChannelInv, FormFits, Saved, GoesOn
<1> QED
  BY <1>4, <1>6, <1>7, <1>8 DEF ChannelInv

LEMMA ChannelAnsweredIs ==
  ASSUME ChannelInv, wire # None, NEW answer \in {"ok", "error"}, answer = "ok"
         => wire.what = "test",
         wire.answer = "none", wire' = [wire EXCEPT !.answer = answer]
  PROVE  Wireish(wire', session) /\ wire'.answer = answer /\ wire'.what = wire.what
<1>1. Wireish(wire, session)
  BY DEF ChannelInv, ChannelTyped
<1>2. CASE wire.what = "save"
  BY <1>1, <1>2 DEF Wireish, Answers
<1>3. CASE wire.what = "test"
  BY <1>1, <1>3 DEF Wireish, Answers
<1>4. CASE wire.what \notin {"save", "test"}
  BY <1>1, <1>4 DEF Wireish
<1> QED
  BY <1>2, <1>3, <1>4

LEMMA AnsweredKeeps ==
  ASSUME ChannelInv, wire # None, NEW answer \in {"ok", "error"}, answer = "ok"
         => wire.what = "test",
         wire.answer = "none", wire' = [wire EXCEPT !.answer = answer],
             UNCHANGED <<server, data, form, told, session>>
  PROVE  ChannelInv'
<1>1. Wireish(wire', session) /\ wire'.answer = answer /\ wire'.what = wire.what
  BY ChannelAnsweredIs
<1>2. ChannelTyped'
  BY <1>1, SameSession, TypedStays DEF ChannelInv
<1>3. AskFits' /\ AskShown' /\ RowsStored' /\ Receiving!SavedAsShown' /\ FormShown'
  BY <1>1 DEF ChannelInv, AskFits, AskShown, RowsStored, Receiving!SavedAsShown, FormShown, Asks
<1>4. FormFits'
  BY <1>1 DEF ChannelInv, FormFits, Saved
<1> QED
  BY <1>2, <1>3, <1>4 DEF ChannelInv

LEMMA ChannelServeKeeps ==
  ASSUME ChannelInv, Receiving!ChannelFormAssumption, Receiving!Serve
  PROVE  ChannelInv'
<1>1. wire # None /\ wire.answer = "none" /\ UNCHANGED <<data, form>>
  BY DEF Receiving!Serve
<1>2. CASE /\ wire.what = "save" /\ Receiving!Accepts(wire) /\ Receiving!Save(wire)
           /\ wire' = [wire EXCEPT !.answer = "ok"] /\ UNCHANGED <<tested, session>>
  BY <1>1, <1>2, ChannelSaveKeeps
<1>3. CASE /\ wire.what = "test" /\ wire' = [wire EXCEPT !.answer = "ok"]
        /\ UNCHANGED <<server, told, session>>
  BY <1>1, <1>3, AnsweredKeeps
<1>4. ASSUME wire.what = "schedule", NEW d \in PageSchedules \ session.schedules,
             server' = [server EXCEPT !.schedules = server.schedules \cup {d}],
             session' = [session EXCEPT !.schedules = session.schedules \cup {d}],
             wire' = [what |-> "schedule", answer |-> "ok", id |-> d], told' = told
      PROVE  ChannelInv'
  BY <1>1, <1>4, NewScheduleKeeps
<1>5. CASE wire' = [wire EXCEPT !.answer = "error"] /\ UNCHANGED <<server, told, tested, session>>
  BY <1>1, <1>5, AnsweredKeeps
<1> QED
  BY <1>2, <1>3, <1>4, <1>5 DEF Receiving!Serve

LEMMA ChannelAnswerKeeps ==
  ASSUME ChannelInv, Receiving!Answer
  PROVE  ChannelInv'
<1>1. wire # None /\ wire.answer # "none" /\ wire' = None
        /\ UNCHANGED <<server, data, told, session>>
  BY DEF Receiving!Answer
<1>2. AskFits' /\ AskShown' /\ RowsStored' /\ Receiving!SavedAsShown'
  BY <1>1 DEF ChannelInv, AskFits, AskShown, RowsStored, Receiving!SavedAsShown, Asks
<1>3. CASE wire.answer = "ok" /\ wire.what = "save"
  <2>1. form' = None
    BY <1>3 DEF Receiving!Answer
  <2>2. ChannelTyped'
    BY <1>1, <2>1, SameSession, TypedStays DEF ChannelInv
  <2> QED
    BY <1>2, <2>1, <2>2 DEF ChannelInv, FormFits, FormShown
<1>4. CASE wire.answer = "ok" /\ wire.what = "schedule" /\ form # None
  <2>1. wire.id \in session.schedules
    BY <1>1, <1>4 DEF ChannelInv, ChannelTyped, Wireish
  <2> DEFINE made == form.made \cup {wire.id}
             chosen == form.schedules \cup {wire.id}
  <2>2. form' = [form EXCEPT !.made = made, !.schedules = chosen, !.scheduled = TRUE]
    BY <1>4 DEF Receiving!Answer
  <2>3. made \in SUBSET session.schedules /\ chosen \in SUBSET session.schedules
    BY <1>4, <2>1, FormIs
  <2> HIDE DEF made, chosen
  <2>4. /\ ChannelFormish(form', session) /\ form'.headers = form.headers /\ form'.auth = form.auth
        /\ form'.initial = form.initial /\ form'.all = form.all /\ form'.systems = form.systems
        /\ form'.made = made /\ form'.schedules = chosen
    BY <1>4, <2>2, <2>3, FormIs DEF ChannelFormish
  <2>5. ChannelTyped'
    BY <1>1, <2>4, SameSession, TypedStays DEF ChannelInv
  <2>6. FormShown'
    BY <1>1, <1>4, <2>4 DEF ChannelInv, FormShown, made, chosen
  <2>7. \A behind : Behind(form, behind) => Behind(form', behind)
    BY <2>4 DEF Behind, Says
  <2>8. FormFits'
    BY <1>1, <1>4, <2>7 DEF ChannelInv, FormFits, Saved
  <2> QED
    BY <1>2, <2>5, <2>6, <2>8 DEF ChannelInv
<1>5. CASE ~(wire.answer = "ok" /\ wire.what = "save")
           /\ ~(wire.answer = "ok" /\ wire.what = "schedule" /\ form # None)
  <2>1. form' = form
    BY <1>5 DEF Receiving!Answer
  <2>2. ChannelTyped'
    BY <1>1, <2>1, SameSession, TypedStays DEF ChannelInv
  <2>3. FormFits' /\ FormShown'
    BY <1>1, <1>5, <2>1 DEF ChannelInv, FormFits, FormShown, Saved
  <2> QED
    BY <1>2, <2>2, <2>3 DEF ChannelInv
<1> QED
  BY <1>3, <1>4, <1>5

\* Others take rows or schedules away; the secrets of the rows that stay are as they were.
LEMMA LessKeeps ==
  ASSUME ChannelInv, GoesOn, session'.schedules = session.schedules,
         session'.regular = session.regular,
         UNCHANGED <<data, form, wire>>, Knows(server', session),
         DOMAIN server'.rows \subseteq DOMAIN server.rows,
             server'.schedules \subseteq server.schedules,
         \A c \in DOMAIN server'.rows :
           server'.rows[c].headers = server.rows[c].headers
               /\ server'.rows[c].auth = server.rows[c].auth,
         told' = None \/ (told' = told /\ server'.rows = server.rows)
  PROVE  ChannelInv'
<1>1. Knows(server', session')
  BY Wider DEF GoesOn
<1>2. ChannelTyped'
  BY <1>1, TypedStays DEF ChannelInv
<1>3. RowsStored' /\ Receiving!SavedAsShown'
  BY DEF ChannelInv, RowsStored, Stored, Receiving!OfTheirRows, Receiving!SavedAsShown
<1>4. FormShown' /\ AskShown'
  BY DEF ChannelInv, FormShown, AskShown, Asks
<1>5. ASSUME Receiving!Channel \in DOMAIN server'.rows
      PROVE  /\ Receiving!Channel \in DOMAIN server.rows
             /\ \A c : Says(c, server.rows[Receiving!Channel])
                => Says(c, server'.rows[Receiving!Channel])
             /\ \A c : Masks(c, server.rows[Receiving!Channel])
                => Masks(c, server'.rows[Receiving!Channel])
             /\ \A c : Behind(c, server.rows[Receiving!Channel])
                => Behind(c, server'.rows[Receiving!Channel])
  <2> DEFINE old == server.rows[Receiving!Channel]
             new == server'.rows[Receiving!Channel]
  <2>1. new.headers = old.headers /\ new.auth = old.auth
    BY <1>5
  <2> HIDE DEF old, new
  <2>2. \A c : Says(c, old) => Says(c, new)
    BY <2>1 DEF Says, SaysOf
  <2>3. \A c : Masks(c, old) => Masks(c, new)
    BY <2>1 DEF Masks
  <2>4. \A c : Behind(c, old) => Behind(c, new)
    BY <2>1, <2>2, <2>3 DEF Behind
  <2> QED
    BY <1>5, <2>2, <2>3, <2>4 DEF old, new
<1>6. AskFits'
  BY <1>5 DEF ChannelInv, AskFits, Asks, GoesOn
<1>7. FormFits'
  BY <1>5 DEF ChannelInv, FormFits, Saved, GoesOn
<1> QED
  BY <1>2, <1>3, <1>4, <1>6, <1>7 DEF ChannelInv

LEMMA ChannelOthersKeep ==
  ASSUME ChannelInv, Receiving!Others
  PROVE  ChannelInv'
<1>1. session' = [session EXCEPT !.events = session.events - 1] /\ UNCHANGED <<data, form, wire>>
  BY DEF Receiving!Others
<1>2. GoesOn /\ session'.schedules = session.schedules /\ session'.regular = session.regular
  BY <1>1 DEF ChannelInv, ChannelTyped, SessionTyped, GoesOn
<1>3. /\ server \in [rows : {server.rows}, visible : SUBSET PageSystems,
                     schedules : SUBSET session.schedules]
      /\ \A c \in DOMAIN server.rows : ChannelRowish(server.rows[c], session)
  BY DEF ChannelInv, ChannelTyped, Knows
<1>4. ASSUME NEW s \in PageSystems,
      server' = [server EXCEPT !.visible = Receiving!Toggled(server.visible, s)], told' = told
      PROVE  ChannelInv'
  <2>1. Receiving!Toggled(server.visible, s) \in SUBSET PageSystems
    BY <1>3, ToggledIs
  <2>2. Knows(server', session) /\ server'.rows = server.rows
          /\ server'.schedules = server.schedules
    BY <1>3, <1>4, <2>1 DEF Knows
  <2> QED
    BY <1>1, <1>2, <1>4, <2>2, LessKeeps
<1>5. ASSUME NEW d \in server.schedules, told' = None,
             server' = [server EXCEPT !.schedules = server.schedules \ {d},
                          !.rows = [c \in DOMAIN server.rows |-> Receiving!Without(server.rows[c],
                                                                                   d)]]
      PROVE  ChannelInv'
  <2> DEFINE less(c) == Receiving!Without(server.rows[c], d)
             rows == [c \in DOMAIN server.rows |-> less(c)]
             few == server.schedules \ {d}
  <2>1. \A c \in DOMAIN server.rows :
          /\ ChannelRowish(less(c), session) /\ less(c).headers = server.rows[c].headers
          /\ less(c).auth = server.rows[c].auth
    <3> TAKE c \in DOMAIN server.rows
    <3> DEFINE r == server.rows[c]
    <3>1. ChannelRowish(r, session)
      BY <1>3
    <3>2. PICK rest \in SUBSET session.schedules : rest = r.schedules \ {d}
      BY <3>1 DEF ChannelRowish
    <3>3. less(c) = [r EXCEPT !.schedules = rest]
      BY <3>2 DEF Receiving!Without
    <3> HIDE DEF r, less
    <3>4. ChannelRowish(less(c), session) /\ less(c).headers = r.headers /\ less(c).auth = r.auth
      BY <3>1, <3>3 DEF ChannelRowish
    <3> QED
      BY <3>4 DEF r
  <2> HIDE DEF less
  <2>2. DOMAIN rows = DOMAIN server.rows /\ \A c \in DOMAIN rows : rows[c] = less(c)
    OBVIOUS
  <2>3. few \in SUBSET session.schedules /\ few \subseteq server.schedules
    BY <1>3
  <2>4. server' = [server EXCEPT !.schedules = few, !.rows = rows]
    BY <1>5 DEF less
  <2> HIDE DEF rows, few
  <2>5. server'.rows = rows /\ server'.schedules = few /\ Knows(server', session)
    BY <1>3, <2>1, <2>2, <2>3, <2>4 DEF Knows
  <2> QED
    BY <1>1, <1>2, <1>5, <2>1, <2>2, <2>3, <2>5, LessKeeps
<1>6. ASSUME server' = [server EXCEPT !.rows = [c \in DOMAIN server.rows \ {Receiving!Channel} |-> server.rows[c]]],
             told' = None
      PROVE  ChannelInv'
  <2> DEFINE rows == [c \in DOMAIN server.rows \ {Receiving!Channel} |-> server.rows[c]]
  <2>1. DOMAIN rows \subseteq DOMAIN server.rows /\ \A c \in DOMAIN rows : rows[c] = server.rows[c]
    OBVIOUS
  <2>2. server' = [server EXCEPT !.rows = rows]
    BY <1>6
  <2> HIDE DEF rows
  <2>3. server'.rows = rows /\ server'.schedules = server.schedules /\ Knows(server', session)
    BY <1>3, <2>1, <2>2 DEF Knows
  <2> QED
    BY <1>1, <1>2, <1>6, <2>1, <2>3, LessKeeps
<1> QED
  BY <1>4, <1>5, <1>6 DEF Receiving!Others

(***************************************************************************)
(* The form.                                                               *)
(***************************************************************************)
LEMMA ChannelInit == ASSUME Receiving!ChannelFormAssumption PROVE Receiving!Init => ChannelInv
<1> SUFFICES ASSUME Receiving!Init PROVE ChannelInv
  OBVIOUS
<1>1. PICK t \in ChannelSessions :
        /\ session = [t EXCEPT !.regular = TRUE]
        /\ server = [rows |-> [c \in {Receiving!Channel} |->
                               [headers |-> t.headers, auth |-> t.auth, all |-> t.all,
                                systems |-> t.systems, schedules |-> t.schedules]],
                     visible |-> PageSystems, schedules |-> t.schedules]
  BY DEF Receiving!Init
<1> DEFINE entry == [headers |-> t.headers, auth |-> t.auth, all |-> t.all,
                     systems |-> t.systems, schedules |-> t.schedules]
<1>2. PICK seen \in {{}, PageSystems} :
        data = [rows |-> [c \in {Receiving!Channel} |-> Receiving!Mask(server.rows[c])],
                visible |-> seen, schedules |-> server.schedules]
  BY DEF Receiving!Init
<1>3. form = None /\ wire = None /\ told = None
  BY DEF Receiving!Init
<1>4. /\ {"mode", "regular", "schedules"} \subseteq DOMAIN t /\ t.mode \in {"new", "edit", "copy"}
      /\ t.headers \in Seq(Receiving!Header) /\ t.auth \in {NoAuth, Token}
      /\ \A i \in DOMAIN t.headers : t.headers[i].name # NoText
         /\ t.headers[i].value \in {NoText, t.headers[i].name}
      /\ t.all \in BOOLEAN /\ t.systems \subseteq PageSystems /\ t.schedules \subseteq PageSchedules
  BY DEF Receiving!ChannelFormAssumption
<1>5. SessionTyped /\ session.schedules = t.schedules
  BY <1>1, <1>4 DEF SessionTyped
<1>6. /\ ChannelRowish(entry, session) /\ Stored(entry)
  BY <1>4, <1>5 DEF ChannelRowish, Stored, Receiving!OfTheirRows
<1>7. server.rows = [c \in {Receiving!Channel} |-> entry] /\ server.schedules = t.schedules
        /\ server.visible = PageSystems
  BY <1>1
<1> HIDE DEF entry
<1>8. ChannelRowish(Receiving!Mask(entry), session)
  BY <1>6, MaskIs
<1>9. Knows(server, session) /\ RowsStored
  <2>1. server \in [rows : {server.rows}, visible : SUBSET PageSystems,
                    schedules : SUBSET session.schedules]
    BY <1>1, <1>5
  <2> QED
    BY <1>6, <1>7, <2>1 DEF Knows, RowsStored
<1>10. Knows(data, session)
  <2> DEFINE rows == [c \in {Receiving!Channel} |-> Receiving!Mask(server.rows[c])]
  <2>1. DOMAIN rows = {Receiving!Channel} /\ rows[Receiving!Channel] = Receiving!Mask(entry)
    BY <1>7
  <2>2. data = [rows |-> rows, visible |-> seen, schedules |-> server.schedules]
    BY <1>2
  <2> HIDE DEF rows
  <2> QED
    BY <1>5, <1>7, <1>8, <2>1, <2>2 DEF Knows
<1>11. ChannelTyped
  BY <1>3, <1>5, <1>9, <1>10 DEF ChannelTyped
<1> QED
  BY <1>3, <1>9, <1>11 DEF ChannelInv, FormFits, AskFits, FormShown, AskShown,
     Receiving!SavedAsShown, Asks

LEMMA ChannelStep ==
  ASSUME Receiving!ChannelFormAssumption
  PROVE  ChannelInv /\ [Receiving!Next]_Receiving!vars => ChannelInv'
<1> SUFFICES ASSUME ChannelInv, [Receiving!Next]_Receiving!vars PROVE ChannelInv'
  OBVIOUS
<1>1. CASE UNCHANGED Receiving!vars
  <2>1. ChannelTyped'
    BY <1>1, SameSession, TypedStays DEF ChannelInv, Receiving!vars
  <2>2. AskFits' /\ AskShown' /\ RowsStored' /\ Receiving!SavedAsShown' /\ FormShown'
    BY <1>1 DEF Receiving!vars, ChannelInv, AskFits, AskShown, RowsStored, Receiving!SavedAsShown,
       FormShown, Asks
  <2>3. FormFits'
    BY <1>1 DEF Receiving!vars, ChannelInv, FormFits, Saved
  <2> QED
    BY <2>1, <2>2, <2>3 DEF ChannelInv
<1>2. CASE Receiving!Cancel
  BY <1>2, ClosedKeeps DEF Receiving!Cancel
<1>3. CASE \E i \in DOMAIN (IF form = None THEN <<>> ELSE form.headers) : Receiving!EditRow(i)
  <2>1. PICK i \in DOMAIN (IF form = None THEN <<>> ELSE form.headers) : Receiving!EditRow(i)
    BY <1>3
  <2>2. i \in DOMAIN form.headers
    BY <2>1 DEF Receiving!EditRow
  <2> QED
    BY <2>1, <2>2, EditRowKeeps
<1>4. CASE Receiving!Read \/ Receiving!Open \/ Receiving!EditAuth
  BY <1>4, ChannelReadKeeps, ChannelOpenKeeps, EditAuthKeeps
<1>5. CASE Receiving!ToggleAll \/ Receiving!SetDelivery
        \/ (\E s \in PageSystems : Receiving!ToggleSystem(s))
        \/ (\E d \in PageSchedules : Receiving!ToggleSchedule(d))
  BY <1>5, BoxesKeep
<1>6. CASE \E n \in Names : Receiving!AddRow(n)
  BY <1>6, AddRowKeeps
<1>7. CASE Receiving!Submit \/ Receiving!Test \/ Receiving!NewSchedule
  BY <1>7, ChannelSubmitKeeps, ChannelAskKeeps
<1>8. CASE Receiving!Serve \/ Receiving!Answer \/ Receiving!Others
  BY <1>8, ChannelServeKeeps, ChannelAnswerKeeps, ChannelOthersKeep
<1> QED
  BY <1>1, <1>2, <1>3, <1>4, <1>5, <1>6, <1>7, <1>8, Zenon DEF Receiving!Next

LEMMA ChannelHolds == ChannelInv => Receiving!ChannelFormSound
BY DEF ChannelInv, RowsStored, Stored, Receiving!ChannelFormSound, Receiving!SecretsStay
================================================================================
