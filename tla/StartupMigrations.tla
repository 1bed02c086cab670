-------------------------- MODULE StartupMigrations --------------------------
(***************************************************************************)
(* What a start of the server does to the database of an older version     *)
(* before it serves (initDatabase and encryption-migration.ts), one SQL    *)
(* statement at a time: nothing but the rebuild of the systems table is in *)
(* a transaction, so the process may die between any two of them, and the  *)
(* next start meets what is left.                                          *)
(*                                                                         *)
(* A stored secret is the sequence of the salts it is encrypted under,     *)
(* outermost first: "old" is the one all installations shared, "new" the   *)
(* one in the salt file; << >> is a secret in clear.  The key is a         *)
(* passphrase (a raw key needs no salt).  Other columns, tables and        *)
(* settings that are added or renamed are left out.                        *)
(***************************************************************************)
EXTENDS Sequences, Naturals

CONSTANTS Systems,       \* rows of the systems table
          Places,        \* other secrets: sudo passwords, the OIDC secret
          Channels,      \* "email" and "ntfy", the channels old settings held
          Crons,         \* schedules of digests
          None,
          MaxCrashes     \* bound: deaths of the process

VARIABLES saltFile,    \* whether the salt file exists
          table, copy, \* the credentials table and the one it is rebuilt in
          login,       \* the secret of a system row, or None
          credential,  \* the credential of a system, or None
          stored,      \* the secrets of Places
          settings,    \* channels still described by settings: secret or None
          channel,     \* rows of the notifications table, or None
          digests,     \* digest schedules
          pc, todo,    \* the statement to come; what its loop has left
          crashes,
          promised,    \* history: which cron a channel had at first
          legacy       \* history: the systems whose login was under "old" at first

vars == <<saltFile, table, copy, login, credential, stored, settings, channel,
          digests, pc, todo, crashes, promised, legacy>>

disk == <<saltFile, table, copy, login, credential, stored, settings, channel,
          digests, promised, legacy>>

Missing == [shape |-> "missing", rows |-> << >>]

\* Secrets in a database whose salt file does not exist, or exists (it may
\* have been created by a start that died).
Older(exists) == {None, <<"old">>} \cup (IF exists THEN {<<"new">>} ELSE {})
StoredLogins == {<< >>} \cup Older(saltFile)

ChannelRow(secret, cron) == [secret |-> secret, schedule |-> cron]
ChannelRows == [secret : {None, <<"old">>, <<"new">>}, schedule : Crons \cup {None}]

MigrationsAssumption == None \notin ChannelRows \cup {<< >>, <<"old">>, <<"new">>}

Init ==
  /\ saltFile \in BOOLEAN
  /\ \E shape \in {"scoped", "current"}, v \in Older(saltFile) \ {None} :
       table = [shape |-> shape, rows |-> <<v>>]
  /\ copy = Missing
  /\ login \in [Systems -> StoredLogins]
  /\ credential = [s \in Systems |-> None]
  /\ stored \in [Places -> Older(saltFile)]
  /\ \/ /\ settings \in [Channels -> Older(saltFile)]
        /\ channel = [c \in Channels |-> None]
     \/ /\ settings = [c \in Channels |-> None]
        /\ \E secret \in Older(saltFile) : channel \in
             [Channels -> {ChannelRow(secret, cron) : cron \in Crons \cup {None}}]
  /\ digests \in {<< >>} \cup {<<[cron |-> cron, channels |-> {}]>> : cron \in Crons}
  /\ promised = [c \in Channels |-> IF channel[c] = None THEN None ELSE channel[c].schedule]
  /\ legacy = {s \in Systems : login[s] = <<"old">>}
  /\ pc = "down" /\ todo = {} /\ crashes = 0

Goto(next) == pc' = next /\ UNCHANGED <<todo, crashes>>
Kept == UNCHANGED <<saltFile, stored, promised, legacy>>

\* getEncryptionSalt: the file is there before the database is opened.
Start ==
  /\ pc = "down" /\ saltFile' = TRUE /\ Goto("tables")
  /\ UNCHANGED <<table, copy, login, credential, stored, settings, channel, digests, promised, legacy>>

\* CREATE TABLE IF NOT EXISTS credentials.
Tables ==
  /\ pc = "tables"
  /\ table' = IF table = Missing THEN [Missing EXCEPT !.shape = "current"] ELSE table
  /\ Goto(IF table'.shape = "scoped" THEN "create" ELSE "email")
  /\ Kept /\ UNCHANGED <<copy, login, credential, settings, channel, digests>>

\* migrateCredentialsTable: CREATE throws, and the start fails, when the new
\* table exists; then INSERT .. SELECT, DROP and RENAME.
RebuildCredentials ==
  /\ \/ /\ pc = "create" /\ copy # Missing
        /\ Goto("down") /\ UNCHANGED <<table, copy>>
     \/ /\ pc = "create" /\ copy = Missing
        /\ copy' = [Missing EXCEPT !.shape = "current"]
        /\ Goto("fill") /\ UNCHANGED table
     \/ pc = "fill" /\ copy' = [copy EXCEPT !.rows = table.rows] /\ Goto("drop") /\ UNCHANGED table
     \/ pc = "drop" /\ table' = Missing /\ Goto("rename") /\ UNCHANGED copy
     \/ pc = "rename" /\ table' = copy /\ copy' = Missing /\ Goto("email")
  /\ Kept /\ UNCHANGED <<login, credential, settings, channel, digests>>

\* migrateNotificationSettings: nothing when there is any channel, else one
\* INSERT for each that was configured.
Insert(c) == channel' = IF settings[c] = None THEN channel
                        ELSE [channel EXCEPT ![c] = ChannelRow(settings[c], None)]
SettingsToChannels ==
  /\ \/ /\ pc = "email" /\ \A c \in Channels : channel[c] = None
        /\ Insert("email") /\ Goto("ntfy")
     \/ /\ pc = "email" /\ \E c \in Channels : channel[c] # None
        /\ UNCHANGED channel /\ Goto("logins")
     \/ pc = "ntfy" /\ Insert("ntfy") /\ Goto("logins")
  /\ Kept /\ UNCHANGED <<table, copy, login, credential, settings, digests>>

\* normalizeSecretValue: what the encryptor of this installation cannot read
\* is taken for a secret in clear.
Normalized(v) == IF v # << >> /\ Head(v) = "new" THEN v ELSE <<"new">> \o v

\* migrateLegacyCredentials: a credential is inserted for a system that has a
\* login of its own, then the system's row refers to it instead.
NoCredential == {s \in Systems : credential[s] = None /\ login[s] # None}
InsertCredential ==
  /\ pc = "logins"
  /\ \E s \in NoCredential :
       /\ table' = [table EXCEPT !.rows = Append(@, Normalized(login[s]))]
       /\ pc' = "link" /\ todo' = {s}
  /\ UNCHANGED <<copy, login, credential, settings, channel, digests, crashes>>
  /\ Kept
LinkCredential ==
  /\ pc = "link"
  /\ \E s \in todo : /\ credential' = [credential EXCEPT ![s] = Len(table.rows)]
                     /\ login' = [login EXCEPT ![s] = None]
  /\ pc' = "logins" /\ todo' = {}
  /\ UNCHANGED <<table, copy, settings, channel, digests, crashes>>
  /\ Kept
LoginsDone ==
  /\ pc = "logins" /\ NoCredential = {} /\ Goto("digests") /\ UNCHANGED disk

\* migrateNotificationSchedules: the first digest of the channel's cron gets
\* the channel, or a new one is inserted; then the channel's own is cleared.
Scheduled == {c \in Channels : channel[c] # None /\ channel[c].schedule # None}
Found(cron) == {i \in DOMAIN digests : digests[i].cron = cron}
JoinedAlone(digest, c) == [digest EXCEPT !.channels = {c}]
Joined(digest, c) == [digest EXCEPT !.channels = @ \cup {c}]
ScheduleDigest ==
  /\ pc = "digests"
  /\ \E c \in Scheduled : LET cron == channel[c].schedule IN
       /\ digests' = IF Found(cron) = {}
                     THEN Append(digests, [cron |-> cron, channels |-> {c}])
                     ELSE LET i == CHOOSE j \in Found(cron) : \A k \in Found(cron) : j <= k
                          IN [digests EXCEPT ![i] = Joined(digests[i], c)]
       /\ pc' = "clear" /\ todo' = {c}
  /\ UNCHANGED <<table, copy, login, credential, settings, channel, crashes>>
  /\ Kept
ClearSchedule ==
  /\ pc = "clear"
  /\ \E c \in todo : channel' = [channel EXCEPT ![c].schedule = None]
  /\ pc' = "digests" /\ todo' = {}
  /\ UNCHANGED <<table, copy, login, credential, settings, digests, crashes>>
  /\ Kept
\* With the last channel the settings that described channels are deleted, and
\* the rows with secrets are read to be migrated.
ForgetSettings ==
  /\ pc = "digests" /\ Scheduled = {}
  /\ settings' = [c \in Channels |-> None]
  /\ pc' = "salt"
  /\ todo' = {<<"stored", p>> : p \in Places}
             \cup {<<"credential", i>> : i \in DOMAIN table.rows}
             \cup {<<"channel", c>> : c \in {d \in Channels : channel[d] # None}}
  /\ UNCHANGED <<table, copy, login, credential, channel, digests, crashes>>
  /\ Kept

\* migrateEncryptionSalt: what the old salt decrypts is encrypted under the
\* new one, whatever it does not is left alone.
Old(v) == v # None /\ v # << >> /\ Head(v) = "old"
RewrittenAnyway(v) == CASE v = None -> None
                        [] Old(v) -> <<"new">> \o Tail(v)
                        [] OTHER -> <<"new">> \o v
Rewritten(v) == IF Old(v) THEN <<"new">> \o Tail(v) ELSE v
Reencrypt ==
  /\ pc = "salt"
  /\ \E row \in todo :
       /\ \/ /\ row[1] = "stored" /\ stored' = [stored EXCEPT ![row[2]] = Rewritten(@)]
             /\ UNCHANGED <<table, channel>>
          \/ /\ row[1] = "credential"
             /\ table' = [table EXCEPT !.rows[row[2]] = Rewritten(@)]
             /\ UNCHANGED <<stored, channel>>
          \/ /\ row[1] = "channel"
             /\ channel' = [channel EXCEPT ![row[2]].secret = Rewritten(@)]
             /\ UNCHANGED <<stored, table>>
       /\ todo' = todo \ {row}
  /\ UNCHANGED <<saltFile, copy, login, credential, settings, digests, promised, legacy, pc, crashes>>
Serve == pc = "salt" /\ todo = {} /\ Goto("up") /\ UNCHANGED disk

\* The process dies (or is stopped) and will be started again.
Crash ==
  /\ pc # "down" /\ crashes < MaxCrashes
  /\ pc' = "down" /\ todo' = {} /\ crashes' = crashes + 1 /\ UNCHANGED disk

Next ==
  \/ Start \/ Tables \/ RebuildCredentials \/ SettingsToChannels
  \/ InsertCredential \/ LinkCredential \/ LoginsDone
  \/ ScheduleDigest \/ ClearSchedule \/ ForgetSettings
  \/ Reencrypt \/ Serve \/ Crash

Spec == Init /\ [][Next]_vars
-----------------------------------------------------------------------------
StoredPasswords == {table.rows[i] : i \in DOMAIN table.rows}
OtherCells == {stored[p] : p \in Places}
              \cup {channel[c].secret : c \in {d \in Channels : channel[d] # None}}

\* When the server serves, whatever starts died before, each stored secret is
\* encrypted once and under the salt of this installation, so that the encryptor,
\* which knows no other, reads it, but for the credentials made of logins that were
\* under the old salt: the credential of any other system is readable.
SecretsKept ==
  pc = "up" =>
    /\ OtherCells \subseteq {None, <<"new">>}
    /\ StoredPasswords \subseteq {<<"new">>} \cup (IF legacy = {} THEN {} ELSE {<<"new", "old">>})
    /\ \A s \in Systems \ legacy :
         credential[s] # None => table.rows[credential[s]] = <<"new">>

\* Not so (README): no credential is an exception.
SecretsReadable == pc = "up" => StoredPasswords \cup OtherCells \subseteq {None, <<"new">>}

\* A channel that was sent digests on a schedule of its own still is: its row
\* says so until a digest schedule of that cron does, and once the server
\* serves exactly one does.
DigestsKept ==
  \A c \in Channels : promised[c] # None =>
    LET in == {i \in DOMAIN digests : c \in digests[i].channels} IN
    /\ channel[c].schedule = promised[c] \/ \E i \in in : digests[i].cron = promised[c]
    /\ pc = "up" => channel[c].schedule = None /\ \E i \in in : in = {i}

\* A new version takes over what an older one stored, however often its start dies.
MigrationsSound == SecretsKept /\ DigestsKept

\* What does not hold when a start dies at the wrong moment (README): the
\* credentials of an older version stay in the table, and channels described
\* by settings become rows.
CredentialsKept == pc = "up" => table.rows # << >>
BecomesRow == \A c \in Channels : settings[c] # None /\ settings'[c] = None => channel[c] # None
ChannelsKept == [][BecomesRow]_vars
=============================================================================
