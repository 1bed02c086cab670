--------------------------- MODULE SchemaMigrations ---------------------------
(***************************************************************************)
(* The other half of a start (see StartupMigrations): how initDatabase     *)
(* gives the tables of an older version the columns, flags and rows of     *)
(* this one.  Each statement commits on its own, except for the rebuild of *)
(* the systems table, and each is guarded by what the database looks like, *)
(* so a start that dies is taken up by the next one wherever that sees it  *)
(* stopped.                                                                *)
(***************************************************************************)
EXTENDS Naturals

CONSTANTS Systems, Channels,
          MaxCrashes   \* bound: deaths of the process

VARIABLES columns,    \* of the systems table, with its old UNIQUE constraint
          row,        \* of a system, with the reason its APT update is hidden for
          mail,       \* the config of an email channel
          refreshes,  \* refresh schedules
          markers,    \* migrations that settings say are over
          channel,    \* whether the updates there are were delivered, or are pending
          had,        \* hasAutoHideKeptBackUpdates, of this start
          pc, todo,   \* the statement to come; what its loop has left
          crashes,
          first       \* the database this version found

database == <<columns, row, mail, refreshes, markers, channel>>
vars == <<database, had, pc, todo, crashes, first>>

\* ignore_kept_back_packages became auto_hide_kept_back_updates, and that an
\* entry of the package manager configs of APT.
SystemRow == [verify : BOOLEAN, ignore : BOOLEAN, auto : BOOLEAN,
              apt : {"unset", "on", "off"}, reason : {"manual", "kept_back"}]
ChannelRow == [delivered : BOOLEAN, pending : BOOLEAN]
Modes == {"plain", "starttls", "tls"}
MailConfig == [mode : Modes \cup {"unset"}, secure : {"unset", "false", "true"}, port465 : BOOLEAN]

\* shouldAutoHideKeptBackUpdates
Effective(r) == IF r.apt = "unset" THEN r.auto ELSE r.apt = "on"

\* What the version before made of the row.
Hid(s) == IF "ignore" \in first.columns THEN first.row[s].ignore ELSE Effective(first.row[s])

Init ==
  /\ columns \in {{"unique", "ignore"}, {"ignore"}, {"verification", "ignore"}, {"verification", "auto"}}
  /\ markers \in IF "auto" \in columns
                 THEN {{"refresh"}, {"refresh", "dedupe"}, {"refresh", "dedupe", "reason"}} ELSE {{}}
  /\ row \in [Systems -> SystemRow]
  /\ \A s \in Systems :
       /\ row[s].verify => "verification" \in columns
       /\ row[s].ignore => "ignore" \in columns
       /\ row[s].auto \/ row[s].apt # "unset" => "auto" \in columns
       /\ row[s].reason = "kept_back" => "reason" \in markers
  /\ refreshes \in IF "refresh" \in markers THEN {0, 1} ELSE {0}
  /\ channel \in [Channels -> ChannelRow]
  /\ \A c \in Channels : channel[c].delivered => "dedupe" \in markers
  /\ mail \in MailConfig /\ (mail.mode = "unset" \/ mail.secure = "unset")
  /\ had = FALSE /\ pc = "down" /\ todo = {} /\ crashes = 0
  /\ first = [columns |-> columns, markers |-> markers, row |-> row, mail |-> mail,
              refreshes |-> refreshes, channel |-> channel]

Goto(next, left) == pc' = next /\ todo' = left /\ UNCHANGED <<crashes, first>>

\* The columns are looked at once, at the beginning.
Start ==
  /\ pc = "down" /\ had' = ("auto" \in columns)
  /\ Goto("verification", {}) /\ UNCHANGED database

\* Systems there were before are not verified, new ones are.
AddVerification ==
  /\ \/ /\ pc = "verification" /\ "verification" \notin columns
        /\ columns' = columns \cup {"verification"}
        /\ row' = [s \in Systems |-> [row[s] EXCEPT !.verify = TRUE]]
        /\ Goto("unverified", {})
     \/ /\ pc = "verification" /\ "verification" \in columns
        /\ UNCHANGED <<columns, row>> /\ Goto("columns", {})
     \/ /\ pc = "unverified"
        /\ row' = [s \in Systems |-> [row[s] EXCEPT !.verify = FALSE]]
        /\ UNCHANGED columns /\ Goto("columns", {})
  /\ UNCHANGED <<mail, refreshes, markers, channel, had>>

\* ALTER TABLE .. ADD COLUMN throws, and is caught, when the column exists.
AddColumns ==
  /\ pc = "columns" /\ columns' = columns \cup {"auto"}
  /\ Goto("rebuild", {}) /\ UNCHANGED <<row, mail, refreshes, markers, channel, had>>

\* migrateSystemsTableShape: one transaction.
Rebuilt(s) == [row[s] EXCEPT !.auto = IF had THEN @ ELSE row[s].ignore, !.ignore = FALSE]
RebuildSystems ==
  /\ pc = "rebuild" /\ columns' = columns \ {"unique", "ignore"}
  /\ row' = IF columns' # columns THEN [s \in Systems |-> Rebuilt(s)] ELSE row
  /\ Goto("configs", Systems) /\ UNCHANGED <<mail, refreshes, markers, channel, had>>

\* Mutant: what the operator set since is overwritten.
MergedAlways(r) == IF r.auto THEN [r EXCEPT !.apt = "on"] ELSE r

\* mergeLegacyAutoHideKeptBackUpdates: an entry there is wins.
Merged(r) == IF r.auto /\ r.apt = "unset" THEN [r EXCEPT !.apt = "on"] ELSE r
MergeConfigs ==
  /\ pc = "configs"
  /\ \/ \E s \in todo : row' = [row EXCEPT ![s] = Merged(@)] /\ Goto("configs", todo \ {s})
     \/ /\ todo = {} /\ UNCHANGED row
        /\ IF "reason" \in markers THEN Goto("mail", {}) ELSE Goto("reasons", Systems)
  /\ UNCHANGED <<columns, mail, refreshes, markers, channel, had>>

ClassifyHidden ==
  /\ pc = "reasons"
  /\ \/ /\ \E s \in todo :
             /\ row' = IF Effective(row[s]) THEN [row EXCEPT ![s].reason = "kept_back"] ELSE row
             /\ Goto("reasons", todo \ {s})
        /\ UNCHANGED markers
     \/ /\ todo = {} /\ markers' = markers \cup {"reason"} /\ UNCHANGED row
        /\ Goto("mail", {})
  /\ UNCHANGED <<columns, mail, refreshes, channel, had>>

\* migrateLegacyEmailNotificationConfigs
ModeOf(m) == IF m.mode # "unset" THEN m.mode
             ELSE IF m.secure = "false" THEN "plain" ELSE IF m.port465 THEN "tls" ELSE "starttls"
RewriteMail ==
  /\ pc = "mail" /\ mail' = [mail EXCEPT !.mode = ModeOf(mail), !.secure = "unset"]
  /\ Goto("refresh", {}) /\ UNCHANGED <<columns, row, refreshes, markers, channel, had>>

\* Mutant: a schedule is looked for, not the marker.
RefreshThere == refreshes > 0

\* migrateRefreshScheduleSettings
RefreshDone == "refresh" \in markers
Inserted(n) == IF n = 0 THEN 1 ELSE n
Seeding == IF "dedupe" \in markers THEN Goto("up", {}) ELSE Goto("dedupe", Channels \X {"seed", "strip"})
AddRefresh ==
  /\ \/ /\ pc = "refresh" /\ RefreshDone /\ Seeding /\ UNCHANGED <<refreshes, markers>>
     \/ /\ pc = "refresh" /\ ~RefreshDone
        /\ refreshes' = Inserted(refreshes) /\ UNCHANGED markers /\ Goto("refreshed", {})
     \/ pc = "refreshed" /\ markers' = markers \cup {"refresh"} /\ Seeding /\ UNCHANGED refreshes
  /\ UNCHANGED <<columns, row, mail, channel, had>>

\* migrateNotificationUpdateDedupeState, for channels that are told of
\* updates: those there are count as delivered, and then leave what is pending.
SeedDelivered ==
  /\ pc = "dedupe"
  /\ \/ /\ \A c \in Channels : <<c, "strip">> \in todo => <<c, "seed">> \in todo
        /\ \E c \in {d \in Channels : <<d, "seed">> \in todo} :
             /\ channel' = [channel EXCEPT ![c].delivered = TRUE]
             /\ Goto("dedupe", todo \ {<<c, "seed">>})
     \/ \E c \in {d \in Channels : <<d, "strip">> \in todo /\ <<d, "seed">> \notin todo} :
          /\ channel' = [channel EXCEPT ![c].pending = FALSE]
          /\ Goto("dedupe", todo \ {<<c, "strip">>})
  /\ UNCHANGED <<columns, row, mail, refreshes, markers, had>>

MarkDelivered ==
  /\ pc = "dedupe" /\ todo = {} /\ markers' = markers \cup {"dedupe"} /\ Goto("up", {})
  /\ UNCHANGED <<columns, row, mail, refreshes, channel, had>>

Crash ==
  /\ pc # "down" /\ crashes < MaxCrashes
  /\ pc' = "down" /\ todo' = {} /\ crashes' = crashes + 1
  /\ had' = FALSE /\ UNCHANGED <<database, first>>

Next ==
  \/ Start \/ AddVerification \/ AddColumns \/ RebuildSystems \/ MergeConfigs \/ ClassifyHidden
  \/ RewriteMail \/ AddRefresh \/ SeedDelivered \/ MarkDelivered \/ Crash

Spec == Init /\ [][Next]_vars

-----------------------------------------------------------------------------
(* Once the server serves, however often its start died before:            *)

\* Updates are hidden only where the operator wants it, now or before.
HidesOnlyAsked == \A s \in Systems : Effective(row[s]) => Hid(s)

\* A hidden update counts as hidden automatically if the system hides so when
\* it is classified, and never changes its reason again.
ReasonsFit ==
  \A s \in Systems : row[s].reason = IF "reason" \in first.markers THEN first.row[s].reason
                                     ELSE IF Effective(row[s]) THEN "kept_back" ELSE "manual"

\* The interval of old became one schedule, and a schedule the operator
\* deleted does not come back.
RefreshKept == refreshes = IF "refresh" \in first.markers THEN first.refreshes ELSE 1

\* Nothing that was there before is announced anew, and nothing is taken
\* from what is pending since.
AnnouncedOnce ==
  \A c \in Channels : channel[c] = IF "dedupe" \in first.markers THEN first.channel[c]
                                   ELSE [delivered |-> TRUE, pending |-> FALSE]

\* The mode an operator chose is kept, whatever the port says.
MailKept == mail.mode = ModeOf(first.mail)

SchemaSound == pc = "up" => HidesOnlyAsked /\ ReasonsFit /\ RefreshKept /\ AnnouncedOnce /\ MailKept

\* Not so when a start dies between the column and its values (README): what
\* systems hid stays hidden, and systems of old are not verified.
StillHides == pc = "up" => \A s \in Systems : Hid(s) => Effective(row[s])
OldUnverified ==
  pc = "up" /\ "verification" \notin first.columns => \A s \in Systems : ~row[s].verify
================================================================================
