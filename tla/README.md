# Verification of linux-update-dashboard

TLA+ models of linux-update-dashboard: of its server (`src/server/`), and of the parts of
its client (`src/client/`) that poll, reconnect, remember, or send back what they have read
before. TLC runs check them on small instances, and TLAPS proofs show the invariants that matter most for every value of the constants.

The server keeps an inventory of Linux systems, connects to them over SSH, checks them for
updates, upgrades and reboots them, and tells users about it (notifications, MQTT,
Telegram). It is one Node/Bun process with a SQLite database: there is no parallelism, but
every `await` is a point where any other request, timer, SSH event or child of
`Promise.all` may run, and the process may die between any two statements. That is where
its hard bugs live, and what the models are about. **In every model an action is the code
between two awaits**, in the order of the source; where the subject is a crash
(`StartupMigrations`), it is one SQL statement.

## 1. Inventory

| Part | State it keeps | Operations | Talks to |
| --- | --- | --- | --- |
| SSH connection pool (`ssh/connection.ts`) | `currentConnections`, `maxConcurrent`, `queue` | `connect`, `disconnect`, `updateRuntimeConfig` | every operation, settings |
| ProxyJump chains and host keys (`ssh/connection.ts`, `services/system-service.ts`, `routes/systems.ts`, `services/system-connection-validation.ts`) | systems with their hop, trusted host key, credential; trust tokens; upgrade groups | create, update, delete, test, trust, revoke; `resolveChain`; order groups | pool, credentials, batches |
| Credentials (`services/credential-service.ts`) | credentials, order | create, update, delete, reorder | systems copy the user name |
| Operations on a system (`services/update-service.ts`, `active-operation-store.ts`) | per-system lock, active operation and its abort controller, history rows | check, repair, upgrade all / full / selected, autoremove, reboot, cancel | pool, persistent commands, MQTT, notifications |
| Persistent commands (`ssh/connection.ts`) | remote process, log, exit and script files | set up, tail, cancel, resume | the remote host |
| Upgrade batches (`services/upgrade-batch-service.ts`, startup cleanup in `db/index.ts`) | batches, items with their remote pid and files, queued history rows | create, run group by group, resume after a restart | operations |
| Facts of a system (`ssh/system-info.ts`, `services/system-service.ts`, `services/package-manager-issue-service.ts`) | boot, pending reboot, issues, their dismissals | check, dismiss | checks, dashboard |
| Caches and hidden updates (`services/cache-service.ts`, `installed-package-service.ts`, `hidden-update-service.ts`) | cached updates, installed packages, hidden and auto-hidden updates | check, invalidate, hide, unhide, reconcile | checks, dashboard, notifications |
| History retention (`update-service.ts`) | `update_history` | log, prune, latest completed checks | operations, dashboard |
| Scheduler and schedules (`services/scheduler.ts`, `schedule-service.ts`) | schedules, timers, run status | start, restart, refresh, update and notification runs, delete | operations, notifications |
| Notifications (`services/notification-service.ts`) | channels, pending events, last hashes, known app version | dedupe, enqueue, deliver, edit, delete | scheduler, providers |
| MQTT runtime (`services/mqtt-runtime.ts`) | clients per channel, discovery topics, pending publishes | sync, install command, stop | operations, notifications |
| Telegram bot (`services/telegram-bot.ts`) | channel's bot, chat and token, workers, offsets, pending confirmations | polling, menus, commands, linking | jobs, tokens |
| Live output (`services/output-stream.ts`, `app.ts`, `client/hooks/useCommandOutput.ts`) | buffered messages, subscribers per system, screens | publish, subscribe, reset | operations, WebSocket clients |
| Jobs (`routes/updates.ts`, `client/lib/updates.ts`, `client/context/UpgradeContext.tsx`) | jobs with a result, removed after five minutes; marks of systems being upgraded | start, poll, expire | operations, batches |
| Scripts and custom managers (`services/script-service.ts`) | script library, custom managers, overrides, detected managers | edit, import, override, detect, resolve | operations, checks |
| Database, its migrations, encryption (`db/index.ts`, `security.ts`, `encryption-migration.ts`) | SQLite file, schema, salt file, encrypted columns | open, migrate, cleanup | everything |
| Accounts (`auth/`, `middleware/`, `routes/auth.ts`, passkeys, API tokens, `request-security.ts`) | users, sessions, challenges, limits | sign in, sign out, register, limit | everything |
| Parsers, command reference, life cycles, settings, providers | none, or values that are read and written | | |
| Client pages (`client/pages/`, `client/components/systems/SystemForm.tsx`) | what was read of the server, forms, dialogs, selections, requests that are not answered yet | page of a system, form of a system, dialog of Upgrade All, form of a channel, list and editor of scripts, managers and their bundles, list and form of schedules | HTTP API, live output |

How they interact: a request or a timer calls an operation of `update-service.ts`, which
takes the system's lock (`withLock`), registers the active operation, takes a permit of
the connection pool, resolves the ProxyJump chain and logs in, runs the scripts of the
system's managers (persistent commands survive the connection), writes history rows,
rechecks, clears the active operation and releases the lock. A check replaces the cached
updates, hides what the settings say, and tells notifications and MQTT. Batches and
schedules start many operations at once; the pool bounds how many connections are open.
Tabs and the bot learn of a result by polling a job, and see the output over a WebSocket.

What makes each part right, in one sentence each: permits are neither lost nor exceeded
and waiters are served in order; chains have no cycle, and no connection goes over a key
that nobody trusted; a system has one operation at a time, cancellation hits that one,
and the history says what happened; a remote command runs at most once and its result is
reported as what it was; a batch upgrades group after group, also across a restart; what
an operator hides or dismisses stays so for as long as it was meant; retention keeps what
other parts read; an event is delivered; MQTT publishes what the channel asks for; a bot
acknowledges what it has handled and executes what was confirmed once; a page shows the
whole output; a caller is told the result of its own job; a script in use is not deleted
or replaced, and what is stored of one can be run; a form stores what it shows and leaves the
rest alone, also when what it was opened on has changed; a start that dies in the middle of a migration can be repeated.

The hard behaviours, each listed with its line in `PROJECT.json` ("hazards"):

- *Interleavings at awaits.* The lock of a system is a promise in a map that several waiters
  are woken by; a cancellation may come at every await of an operation; runs of the
  scheduler, syncs of MQTT and requests of the Telegram page work on snapshots of rows that
  they write back whole.
- *Permits.* Each operation takes and returns an SSH permit up to four times (main
  connection, reconnection attempts, verification, recheck) on paths with many exits.
- *Lost connections.* A remote command resolves with an empty output when the connection
  breaks; a detached upgrade goes on, and its exit code has to be found later. Telegram
  delivers again what was not acknowledged; pages reconnect.
- *Restarts.* The database is all that is left: items that ran are resumed, history rows of
  dead operations are cleaned up, and those a batch still needs are spared; jobs and
  confirmations are forgotten; migrations of an older database are repeated.
- *Partial failure.* A manager's upgrade fails, throws or is not launched, and the others go
  on; a provider accepts a message of which the answer is lost; an import is refused half-way.
- *Stale forms.* Pages and the bot's menus are made of rows that change meanwhile, and send
  back rows, lists or positions; answers come while other dialogs are open.
- *Sequences of legal edits* that reach an illegal state: hops edited under the systems
  behind them, managers deleted under the scripts in use.

## 2. Plan

In the order in which the behaviour matters to a user of the program:

| | Modules | Status |
| --- | --- | --- |
| 1 | `ConnectionPool`, `Semaphore` (abstract), `ConnectionProofs` | done |
| 2 | `SystemOperations`, `MCSystemOperations`, `SystemOperationsProofs` | done; what commands print is abstract |
| 3 | `UpgradeBatch`, `MCUpgradeBatch`, `UpgradeBatchProofs` | done |
| 4 | `PersistentCommand`, `DetachedCommand` (abstract), `ConnectionProofs` | done |
| 5 | `Notifications`, `MCNotifications`, `NotificationsProofs` | done; event filters and hidden systems left out |
| 6 | `SystemRegistry`, `UpgradeGroups`, `HostTrust` | done |
| 7 | `SystemFacts`, `UpdateCache`, `History` | done |
| 8 | `MqttRuntime` | done for one channel |
| 9 | `TelegramChannel`, `TelegramUpdates` | done |
| 10 | `LiveOutput`, `Jobs` | done |
| 11 | `Scripts` | done |
| 12 | `StartupMigrations`, `SchemaMigrations` | done, except for indexes and custom keys of settings |
| 13 | `Schedules` | done |
| 14 | `OperationReports`, `TelegramMenus` | done |
| 15 | `SystemPage`, `SystemForm`, `UpgradeDialog`, `ChannelForm`, `ScriptEditor`, `ManagerBundles`, `SchedulePage` | done; the pages that only show or store values are left out |
| 16 | `Parts`: 6 to 15 but for the menus and the bundles, one at a time; `MCPages`: the same with these, for TLC | done |
| 17 | `SystemPartsProofs`, `ServicePartsProofs`, `ListPagesProofs` (the components of 6 to 15), and in `Parts` what follows of the whole | done for the safety of 6 to 15; `TelegramMenus` and `ManagerBundles` are only checked |

Composition: `SystemOperations` uses of the pool only the number of permits, which is what
`ConnectionPool` is shown to promise (`Semaphore`). `PersistentCommand` is the inside of one
step *command* of `SystemOperations` and `UpgradeBatch`, and is shown to be a
`DetachedCommand`. `UpgradeBatch` runs one `applyUpgradeAll` per item, on different systems,
so that lock and pool only delay the items and are left out; the positions of its groups
are those that `UpgradeGroups` keeps distinct. `Scripts` decides which managers an operation
has and which commands they run, which `SystemOperations` takes as a number.
`OperationReports` tells the same operations again, one by itself, for what is told of them. The parts of
`Parts` and `MCPages` meet the others only through values that each of them may find changed at any
time (a row, a setting, the end of a check), and are modelled with those changes as actions.

## 3. The modules

Every definition that models code is in `PROJECT.json` ("map") with its lines.

### ConnectionPool, Semaphore

A client is a caller of `connect()`. `pc[c]` says where it is: `idle`, `queued` (its resolve
function is in `queue`), `permitted` (the permit is counted, its continuation did not run
yet), `connecting`, `connected`. `currentConnections` and `maxConcurrent` are the fields.

| Action | Code |
| --- | --- |
| `AcquireSemaphore(c)` | `acquireSemaphore`: counted at once when a permit is free, else queued |
| `ResolveChain(c)` | the synchronous part of `connect` after the await: with an unresolvable chain it throws *before* the `try`, keeping the permit |
| `ConnectSucceeds(c)`, `ConnectFails(c)` | the hops of the chain, and the `catch` that releases |
| `Disconnect(c)` | `disconnect` with `releaseSemaphore` and `drainQueue` |
| `UpdateRuntimeConfig(n)` | a new limit, which drains the queue when it is larger |

`Semaphore` has the set of holders, the set of waiters and the limit: it says that free
permits go to waiters at once, as many as there are, and nothing of counters and queues.

### SystemOperations

`Ops` are the calls made, each once, of any of the kinds. A call is a record `task[o]` with
its label `pc` (a waiter of the lock is `blocked` or `woken`), its phase, the manager it is at,
its counters, the history rows it wrote and its result. Shared state: `lock` and `active` of
each system (the call that holds `systemLocks`, and the call whose record `activeOperations`
has), `aborted` (that record's controller), and `connected`, the calls that own a permit.

| Action | Code |
| --- | --- |
| `WithLock` | `withLock`: the `while` loop over the lock; the waiters that a release wakes race with new calls |
| `Begin`, `NothingToDo` | the start in the section; `setActiveOperation`; early returns |
| `TakePermit`, `DialFails`, `DialSucceeds` | `sshManager.connect` and what each operation does with its exceptions |
| `LoopStep`, `CommandEnds`, `CommandCancelled`, `CommandThrows`, `MonitoringLost` | the loop over managers with `insertStartedEntry`, the command, and the row finished |
| `Reconnected`, `AttemptConnect`, `GiveUp`, `ResumeEnds`, `VerifyEnds`, `RetryVerify` | `attemptReconnection`: attempts, resumption, verifying checks |
| `RebootCommand`, `RepairCommand`, `CheckEnds`, `RecheckEnds` | the other operations and the silent recheck |
| `Cancel(s)` | `cancelActiveOperation` |

### UpgradeBatch

The variables are sorted by what survives: `batch`, `item`, `rows`, `cached` are in the
database, `flight` and `op` are lost by `Restart`, `remote` is on the hosts. `Create` makes
the batch (`CreateInterrupted`: a restart between its inserts), `NextGroup` and `StartItems`
are the runner, `Begin` to `ItemEnds` are `runBatchItem` with the `applyUpgradeAll` it calls,
with `onStepStarted` and `onPersistentInfo` as what they write to the item. `Restart` runs
`Cleanup` (`db/index.ts`) and starts the runner again; `ProcessEnds` and `HostReboots` are
the host. `launches` counts for the properties.

### PersistentCommand, DetachedCommand

The host: the script (`proc`) with the log and exit files; the exit file is created before
the code is in it. The dashboard: `runPersistentCommand`, `resumePersistentCommand` and the
attempts of `attemptReconnection`, one action per remote command. A remote command is
answered, or its answer is lost (`runCommand` resolves with an empty output), or it throws.
`DetachedCommand` says what a user is promised: started at most once, it goes on by itself,
and an exit code that is reported is the one it ended with.

### Notifications

`channel[c]` is a row of the table (enabled, pending events, the app version it was last told),
`delivered[c]` the updates marked as told, `sched[d]` a notification schedule with its
channels, `sent[c]` what the channel really accepted (for the properties). A run `r` of a refresh or notification schedule
is a record with the snapshot of the rows it read, the channels it still has to serve and the
message it awaits. `StartCheck`, `Checked`, `ProcessResults`, `AskAppStatus`, `AppStatus` are
a refresh run (`processScheduledResults`, `processAppUpdateNotifications`), `StartDigest` a
notification run (`processScheduledNotificationDeliveries`); `SendSucceeds` and `SendFails` the answers of a
provider, `SendFails` also when it accepted the message and the answer was lost. `Loop` is
the code between two messages: the next channel, the queues it fills and the marks it sets.
The world changes by `Release` and `Change`; users by `AssignSchedules`, `DeleteSchedule`,
`UpdateSchedule`, `ToggleChannel`, `ResetDedupe`.

### SystemRegistry, UpgradeGroups

The handlers of `system-service.ts` and `credential-service.ts` run without an await once
their request is read, so each is one step on the rows. `Save` is what creating and updating
a system share: the credential must have its secret (`Usable`), the chain of the form is
walked along the stored rows (`ValidHop`), and no other row may be the same account
(`Unique`). A credential's form may leave out a stored secret. `UpgradeGroups` has the
positions of the groups, with that of the implicit group in a setting or nowhere;
`CreateGroup` takes the place before the first one.

### HostTrust

`row[s]` has the address and the trusted key of a system, `hostKey` what the hosts present,
`challenges` and `validated` the tokens in the operator's browser and in memory. A call of
`connect` reads its hops in one step (`ResolveChain`) and then meets one host at a time:
`HopConnects`, `HopRefused`, `HopFails`. A test goes on behind a hop with an unknown key, by
accepting it for this call only, so as to collect all challenges (`transient`); whether
`connect` may then return is `ConnectSucceeds`. Meanwhile rows are edited, keys revoked,
hosts rekeyed and tokens used.

### SystemFacts, UpdateCache, History

What one check leaves behind, in three independent parts. `SystemFacts`: `BeginInfo` reads
the row, `StoreInfo` writes it back whole after the information command; the host boots
between them, and the operator dismisses. `UpdateCache`: `BeginCheck` reads which managers
are enabled, `CheckManager` is one of them, `EndCheck` replaces the cache and the lists of
packages and applies the hiding of kept-back updates; `HideUpdate`, `UnhideUpdate`,
`SaveSystem` and `InvalidateCache` are requests. `wish` remembers for the properties what the
operator last asked for. `History`: the rows are records with an id and the time they started at
(`clock` counts both), since a row that waited gets a new start when it begins; each insertion
prunes (`Prune`) to the limit and the latest check that is over. `checked` is the id of the last
check that ended, `queued` the row of a batch item that waits.

### MqttRuntime

One channel. `syncAllChannels` (`Snapshot` to `Connecting`) compares the row with the record
in the map and replaces it: stop, end of the client, new client. A record's syncs run one
after the other (`SyncBegins` to `SyncEnds`), each with the systems it read at its begin;
topics are `retained` at the broker. The broker goes away and comes back (`Connect`, `Drop`),
rows are edited, systems hidden. A broker may refuse the subscription of a sync (`SyncRefused`,
`mqtt-runtime.ts:547`), which gives the sync up with the published sets as they were and queues
no other. Nothing keeps a request from editing the channel while the reconciliation of
another is in progress, so `Reconcilers` may have any number of members; an edit that leaves
the row as it is stands for one of another MQTT channel, whose save reconciles all of them. The
history `overlap` tells whether an edit met a reconciliation in progress: `SettledMatchesRow` says
what is certain whatever it is (the client in the map is alive, its channel is to run, and it
knows what is published unless its last subscription was refused), and what more is when the
last edit met none, or none ever did.

### TelegramChannel, TelegramUpdates

`TelegramChannel` is the stored configuration: every request and the worker read it whole,
wait (for the bot's name, for a hash) and write it whole; `op` holds what each has read.
Any number of requests may be in progress. The history `overtaken` is the requests that wait
for the bot's name while another one begins, `late` that the stored token was written by such a
one: then it may be a revoked one (section 4), and else it never is (`CommandTokenValid`).
`TelegramUpdates` is the polling: `acked` is what Telegram has forgotten, a worker's `batch`
what it took; a worker that is told to stop finishes its batch beside its successor, which
gets the same updates again; `Restart` forgets workers and confirmations.

### LiveOutput, Jobs

`LiveOutput`: the buffer of one system, a pipe per page (in order, lost with the
connection), and the screen as the hook `useCommandOutput` keeps it. `Jobs`: the map in
memory, a caller that posts, waits, polls and is told; `Expire` and `Restart` forget jobs;
the tab's marks of systems being upgraded (`UpgradeContext`) with the data of the dashboard,
which clears them. React Query's rule that only the last mutation of a hook has its callbacks
called is `Callback`.

### Scripts

A scope is what a script is for (an operation of a manager, or of the system itself).
`Resolve(s, k)` is which script the system runs: its override, the default of the scope, or
the built-in one. `Used` is what protects a script from deletion: the code counts defaults
and overrides of managers the system has *enabled* (`Counts`). Managers are created, imported,
deleted with their scripts, switched per system, and detected one command at a time
(`StartDetection`, `Detect`, `EndDetection`), with the row written at the end.

### StartupMigrations

`initDatabase` and `migrateEncryptionSalt` on the database of an older version, one SQL
statement per action: the rebuild of the credentials table with a copy, logins of system
rows that become credentials, notification channels and schedules that move from settings
to tables, secrets that are rewritten under the salt of the installation. A secret is the
sequence of the salts it is encrypted under. `Crash` may come between any two statements,
and `Start` begins again with what is on disk. What an older database may hold is the
initial states.

### SchemaMigrations

The other half of a start: columns, flags and rows that older versions lack
(`AddVerification`, `AddColumns`, `RebuildSystems`, `MergeConfigs`, `ClassifyHidden`,
`RewriteMail`, `AddRefresh`, `SeedDelivered`, `MarkDelivered`). Each statement commits on its
own, except for the rebuild of the systems table, and each is guarded by what the database
looks like; `first` is the database this version found, which the properties compare with.

### Schedules

`schedule[s]` is a row, `timers[s]` the row its timer was made for: every edit stops all timers
and makes new ones, while runs go on with the row they began with. An update run checks its
systems side by side (`CheckEnds`) and upgrades those with updates one after the other
(`UpgradeEnds`, `UpgradeThrows`); `boot` is the refresh that a start still owes.
`Copies` are runs of one schedule that overlap. The run `parts` has one, and three edits instead:
runs read the table and never write what `SchedulesSound` relates, which is proved for any number.

### OperationReports

One operation by itself, of any kind, with a request to cancel it at any moment: the messages
it publishes by their type (output is left out), the statuses of its rows, and its answer. A
command is abstracted to how it ends. `SystemOperations` has its lock, permits and attempts.

### TelegramMenus

One chat of one channel. `buttons` are those that are in the chat and may be pressed at any
later time; a typed command is the press of a button that need not have been shown. `doing` is
the update the worker handles, between its awaits (`ReadRow`, `SystemsListed`, `PackagesListed`,
`Revalidated` within `Confirmed`, `Start`); exclusions, the channel's scope, hidden systems and updates change
meanwhile (`Edit`). Names and texts are left out; the dashboard's order is that of the ids.
A command reads the channel's scope first and the systems after an await: a system that leaves
the scope after the first read, and is hidden only until the second, is started although at
no moment between both was it permitted. So `barred` keeps the two reasons apart, and
`StartsPermitted` speaks of a system for which one of them holds all the time.

### SystemPage

The page of one system over the server. A poll (`fetch`) is as old as its read, messages of
the live output arrive in order (`wire`), requests are answered in any order (`asked`); React
calls the callbacks of the last mutation of a hook only (`Supersede`). A dialog covers the
page. `fresh` says for the properties whether the page has heard of everything.

### SystemForm

The form of a new system, of one that is edited, or of a copy: its fields, the approved host key
it shows, the test with the review of the key the host presented, the token of a validated
configuration, and what a save stores. Fields are edited during a test; the page behind reads
the row again; others approve and revoke keys (`Foreign`), hosts get other keys. A test is
one step of the server here, over a target without hops; `HostTrust` has the hops.

### UpgradeDialog

The dialog of an Upgrade All: what it took over when it was opened, what is checked, toggled,
dragged and grouped, each shown before the server has it, and the batch that is sent. The
answers of requests that overlap come in any order, the polls go on behind it. Answers that get
lost are left out, and so are other users who change an exclusion; a dialog that was opened, or
last put into edit mode, on data older than the server is not `regular`, and only shown what it
took over. The proof of `ShowsSaved` is what made edit mode a part of this. With one request to
place a system saved and not yet read, and a second one refused (which forgets both), edit mode
may be left and entered again: the dialog then takes the places from before, a drag that starts
there keeps them as what to go back to, and when it is cancelled after the systems were read,
the old places are shown although everything is answered and read. It takes more requests and
reads than the sessions of the run have.

### ChannelForm

The form of a channel: the systems and schedules it is for, and its secrets, which are shown
as `Masked` and stay when they come back as that. The channel is a webhook with headers and a
token; the secrets of the other providers are treated like the token. A value is written as
the name of the header it belongs to, so that a mix-up shows. `regular` means that the form was opened
on current data. Others delete systems and schedules and hide systems; a second user who edits
the same channel is left out.

### ScriptEditor, ManagerBundles, SchedulePage

Two halves of the page Scripts. `ScriptEditor`: the list and the editor, whose state is that
of the script it was opened on. A step is named for what it was made for, and its command is
blank, as it was, typed or beautified, so that commands in a wrong step show; of the
parser rules the step is kept whose output is parsed. `untouched` and `source` remember for the
properties whether anything but the editor may have changed the script, and which script
it was. A script in use may be refused (`MayRefuse`); why is in `Scripts`. One save, one toggle, one
copy and one beautification are under way at a time.

`ManagerBundles`: the dialog of a manager with its entries, the export to a file, the import
under another key, and the deletion with or without scripts. Names and operations
of scripts are numbers, as they are sorted. A file is loaded as it was exported, edited by hand so
that a script is refused, or as an older version wrote it (with the manager in its keys). An
import goes script by script until one is refused (`Imported`). Labels and parser rules of managers
are left out; a manager that a system uses is in `Scripts`.

`SchedulePage`: the list of schedules, whose order is dragged, the form in which one is made,
edited or copied, and what they send; the server checks it (`Serve`), normalises it (`Normal`)
and gives a new row its place (`NextPlace`). Requests are answered in any order, the page is
read again at any time, and channels, systems and schedules change behind it. The texts of
validation messages are left out; what a schedule does is in `Schedules`.

### Parts, MCPages

`Parts` has the modules from `SystemRegistry` to `SchedulePage`, except for `TelegramMenus` and
`ManagerBundles`. They share no state that matters to
another one, so a behaviour goes through one of them (`part`), and the state spaces add up
instead of multiplying; the parts have the variables `v1` to `v14` in common. A property of each
part is stated again under its name. The modules are instantiated in `SystemPartsProofs`
(what belongs to a system, and its page and form), `ServicePartsProofs` (the services around
systems, and the form of a channel) and `ListPagesProofs` (the pages that keep a list in order),
which prove about each component by itself, and `Parts` instantiates those: its theorems say
what holds of `PartsSpec`. `MCPages` extends `Parts` with the menus and the bundles, and gives the
small instances that TLC checks in one run; its `PagesSound` is `PagesHold` of `Parts` with what
those two are for.

## 4. Runs

| Run | Instance | What it shows |
| --- | --- | --- |
| `pool` | 4 clients, limit 1 to 3, all chains resolve | FIFO, nobody waits for ever; implements `Semaphore`, so no permit is lost or duplicated |
| `pool_unresolvable` | 2 clients, one chain does not resolve | *violation*: the counter exceeds the connections |
| `ops` | 2 calls of any of 6 kinds on one system, 1 permit, 2 managers, 2 attempts, 2 verifying checks, symmetric calls | cancellation, rows and results are consistent at every await |
| `ops_live` | 3 upgrades of one system, 1 permit, everything else 1 | one at a time although a release wakes two waiters; all of them end |
| `batch` | 1 system, 2 managers, 2 restarts | what is stored for a resumption is current; rows and item agree |
| `batch_groups` | 2 systems in 2 groups, 1 restart | group after group, also across a restart; the batch ends |
| `batch_relaunch` | 1 system, 2 managers, 1 restart | *violation*: an upgrade that runs is launched again |
| `command` | 3 attempts | a reported code is real; the command is over eventually; implements `DetachedCommand` |
| `notifications` | 2 channels (one immediate, one scheduled), 2 refresh runs and a digest run, 1 app version, 1 change or restart | nothing is marked as told that was not sent; no message that merely repeats |
| `notifications_live` | the same channels, 1 refresh run and a digest run, 1 outage, 1 change or restart | an update that stays is announced on every enabled channel |
| `parts` | see below | the other components, one at a time |
| `startup_legacy` | 1 system row with a login under the old shared salt, no crash | *violation*: its password becomes unreadable |

The instances of `parts`:

| Part | Instance | Property |
| --- | --- | --- |
| registry | 3 systems, 2 credentials, 2 logins, 1 address, chains of 2 | `RegistrySound` (with `NoHopCycle`) |
| ordering | 3 groups, 2 systems, positions down to -2 | `GroupsSound` |
| trust | a target behind one jump, 2 addresses (one rekeys; at first each system has its own), 1 call, 1 edit, 1 token at the begin | `VerifiedConnections`, `NewAddressKnowsNoOldKey` |
| facts | 3 boots | `DismissalOfThisBoot` |
| updates | 2 managers, 1 update that may be kept back | `HiddenSound` |
| history | limits 2 and 3, 7 rows | `LatestCheckKept` |
| discovery | 1 system, 2 clients, 2 reconciliations (that of the start and that of 1 edit), 1 sync that waits | `SettledMatchesRow` |
| binding | 1 bot, 1 chat, 3 tokens, 1 link, 2 edits, 2 requests beside the worker | `CommandTokenValid` |
| commands | 2 edits that overlap, 3 updates, 1 confirmation, 2 workers, 1 restart | `UpdatesSound` (`ConfirmedOnce`, `AckedWereHandled`) |
| output | 1 page, 4 messages, 2 resets, 2 breaks | `ShowsWholeOperation` |
| start | a system (its login under either salt, or none), another secret, 2 channels, 2 crons, 1 death | `MigrationsSound` |
| schema | 1 system, 1 channel, 1 death | `MigrationsSound` |
| schedules | 1 schedule, 1 system, 1 channel, 1 run at a time, 3 edits | `SchedulesSound` |
| system page | 1 package with 2 versions; 8 sessions of 1 or 2 requests, 1 operation of others, 1 message on its way | `PagesSound` |
| system form | 2 addresses (one with 2 keys), 2 routes, 3 moves | `PagesSound` |
| upgrade dialog | 2 systems, 2 groups; 6 sessions of 1 to 3 requests | `PagesSound` |
| channel form | 2 systems, 2 schedules, 3 names of headers; 7 sessions of 2 or 3 edits, opened up to twice | `PagesSound` |
| reports | all operations of up to 2 steps | `PagesSound` |
| menus | 2 systems, 2 packages, 1 of them on a page; 6 visits of 2 to 4 presses | `PagesSound` |
| script editor | up to 3 scripts of up to 3 steps; 8 sessions of 2 or 3 presses | `PagesSound` |
| bundles | 2 custom managers and a built-in one, up to 5 scripts; 5 sessions of 3 to 5 presses | `PagesSound` |
| schedule page | 2 systems, 1 channel, up to 3 schedules (4 ids); 9 sessions | `PagesSound` |
| scripts | 1 system, a built-in and a custom manager, 2 scripts | `ScriptsSound`, `UsedScriptsStay` |
| jobs, bot | 2 calls for one system (both of the tab, or one of the bot), 1 restart | `ToldOfOwnJob` |

Why these bounds are enough to mean something:

- *pool.* More clients than permits, so that clients queue; a limit that may fall below the
  number of holders and rise by two, so that one drain serves two.
- *ops.* One system: the lock separates systems, which share only the pool, and with one
  permit an operation meets the pool's worst case. Two calls of all kinds give each kind a
  neighbour that waits, cancels or comes after; three upgrades are what it takes for one
  release to wake two waiters. Two managers distinguish the first from the last, two
  attempts a retry from giving up. The code has 20 attempts and 3 checks; they count down to
  the same exits.
- *batch.* Two restarts reach a restart during a resumption. Two groups are what it takes to
  start one too early.
- *notifications.* Two refresh runs of the same channels may overlap in every order with a
  digest run. An update has two versions (none, or one), which lets it come, go and come
  again; `MaxApp` lets the dashboard's own release appear at any point.
- *parts.* Three systems make a cycle that no edit of its own chain sees. Three boots: that of
  the dismissal, of the check and a later one. Two managers: the checks of one fail or are
  disabled while the other's succeed; hidden rows of different updates never meet. Seven rows
  exceed every limit twice. Two clients and two reconciliations are an edit that replaces the client of the
  start, meets it in progress, or makes a second one (the theorem has any number of both, and of edits:
  `overlap` is `earlier` only after a second one); two requests are one that overtakes the other; two workers are one that stops and its successor; four messages and two resets give two
  operations on a page that breaks twice. One death is enough to meet every half-done
  migration; a second one meets a database that the first could have left. The pages are
  bounded by sessions: each names the kinds of requests that meet each other through the same
  state, and their number, so that two of a kind overlap; kinds that share no state are not
  combined. Two versions of a package let an update change behind a selection; two steps of a
  script are what it takes to move one past another; two scripts of one operation to take
  a mark from each other; one system or package on a page makes every list turn pages. Keys and
  routes differ in name only, so a behaviour begins with a named one (`PagesInit`).

The theorems of section 6 lift these bounds for the properties they state. `CHECK_DEADLOCK
FALSE` is set where the system stops by itself: calls that are over, a batch that ended, a
command that is over, changes that are used up. The pool is checked for deadlocks.

### What the violations show

1. *A permit lost for ever* (`pool_unresolvable`; `connection.ts:311`). `resolveChain` throws
   after the permit was acquired and before the `try`. As many failures as the limit has
   permits stop every connection until the dashboard restarts or the limit is raised.
2. *An upgrade launched twice* (`batch_relaunch`; `upgrade-batch-service.ts:236`). A restart
   after the launch and before the process id is stored leaves an item that looks as if it
   had not begun.
3. *Logins lost in a migration* (`startup_legacy`; `db/index.ts:1876`). Logins of system rows
   are made credentials before the salt is migrated. One that is still under the salt all
   installations shared cannot be decrypted, is taken for a password in clear, and is encrypted
   once more; the migration of the salt then leaves it as it is. `MigrationsSound` has exactly these
   credentials as its exception, and `parts` and the theorem have such logins among their initial states.

### Weaker disagreements, kept as definitions

These properties are defined beside the others and fail; they have no run of their own.
Adding one to the configuration named reproduces its counterexample. Where a module is named
instead, `MCPages` instantiates it, and the property is checked there like
`part = "system page" => Page!EverySelectionIsCurrent`.

| Property (configuration, or module) | What happens |
| --- | --- |
| `RowsFinished` (`SystemOperations.cfg`) | a manager whose command cannot be launched after others ran leaves its row as started (`update-service.ts:1640`); the next start of the dashboard takes it for an interrupted operation (`db/index.ts:1005`) |
| `QueuedRowsSettled` (`UpgradeBatch.cfg`) | an item that fails before its first command leaves its queued row (`update-service.ts:1642`) |
| `MissingFilesMeanReboot` (`UpgradeBatch.cfg`) | a restart after the code was read and the files were removed: the resumption finds nothing and takes it for a reboot (`connection.ts:899`, `1038`) |
| `InferredMeansKilled` (`PersistentCommand.cfg`) | anything but the answer `alive` means dead, an empty one of a lost connection too (`connection.ts:1095`); and a script that ends between the two tests leaves a code that is removed unread |
| `ReconnectionReads` (`PersistentCommand.cfg`) | the connection is lost again during the reconnection: the sentinel -2 is taken for the exit code (`update-service.ts:637`) |
| `CancelledIsStopped` (`PersistentCommand.cfg`) | a cancellation during the setup command leaves the script it started running |
| `EventsAreDelivered` (`Notifications.cfg` with `MaxOutages = 1`) | the digest clears the queue it reads anew after the message about what it read before (`notification-service.ts:1153`): an outage queued meanwhile is lost |
| `AppVersionSentOnce` (`Notifications.cfg`) | two overlapping runs announce one app version twice: the snapshot of the second is older than the mark of the first |
| `AppVersionRemembered` (`Notifications.cfg`) | a digest stores the app version of its snapshot over a newer one (`notification-service.ts:1157`) |
| `SavedSystemsResolve` (`Parts.cfg`) | a chain that was accepted is one jump longer than `resolveChain` follows, or was made longer by an edit of a hop (`system-service.ts:1067`) |
| `KeyOfItsHost` (`Parts.cfg`) | an approval is stored on the row it names: of a hop whose address was edited meanwhile, or of a tested address that was never saved (`routes/systems.ts:1193`) |
| `DismissalsLast` (`Parts.cfg`) | a dismissal during the information command of a check is written over (`system-service.ts:863`) |
| `CacheOfEnabledManagers` (`Parts.cfg`) | a check stores what it found for a manager that was disabled meanwhile |
| `ShownCheckKept` (`Parts.cfg`) | the check that retention keeps may be a cancelled one, which the list of systems skips (`update-service.ts:178`) |
| `QueuedRowKept` (`Parts.cfg`) | the row of a batch item that waits is removed by as many checks as the limit |
| `SettledPublished` (`Parts.cfg`) | a subscription that the broker refuses gives a sync up before anything is published, and no other follows (`mqtt-runtime.ts:547`) |
| `SettledClient` (`Parts.cfg`) | two reconciliations that overlap both create a client, and one stays connected beside the channel's; or the one with the older row comes last, and its client stays in the map (`mqtt-runtime.ts:702`) |
| `StoredTokenValid` (`Parts.cfg`) | a link request that waited for the bot's name while another request revoked the token writes it back (`telegram-bot.ts:1846`) |
| `NoTopicLeft`, `SettledTopicsThere` (`Parts.cfg`) | a sync that is publishing when its record is stopped has topics retained that `stopRecord` does not know of; and the removal by the old record may come after the topics of the next one |
| `NoTokenLeft` (`Parts.cfg`) | a request that was overtaken leaves the token it issued in the database |
| `BoundStays` (`Parts.cfg`) | a request writes the configuration from before a chat was bound (`telegram-bot.ts:1846`) |
| `WorkerOfEnabled` (`Parts.cfg`, with two `Requests` for `Commands`) | a sync that waited for the bot's menu starts a worker for a disabled bot |
| `ShowsOnlyOperation` (`Parts.cfg`) | a page that reconnects shows everything it had a second time |
| `CredentialsKept` (`Parts.cfg`) | a start that dies between the drop of the credentials table and the renaming of its copy leaves an empty table |
| `ChannelsKept` (`Parts.cfg`) | a start that dies between the two channels finds one and does not make the other |
| `EveryUsedScriptStays` (`Parts.cfg`) | README.md:350 says that used scripts are protected from deletion; an override of a disabled manager is no usage, may become stale, and then the default that the system falls back to can be deleted; and an operation of a built-in manager that has no built-in script falls back to the first custom one, which no usage counts (`script-service.ts:1639`) |
| `DetectedKnown` (`Parts.cfg`) | a manager that is deleted while a detection is in progress comes back into the list of the system |
| `ErrorsAreReal` (`Parts.cfg`) | a lost answer to the request, or polls that fail too often, are told as an error of an operation that goes on or succeeds |
| `UnknownAfterRestart` (`Parts.cfg`) | "The backend restarted before the job result could be read" (`client/lib/updates.ts:13`) is also said to a tab that slept for five minutes |
| `MarkedUntilOver` (`Parts.cfg`) | data of the dashboard that was read before the upgrade began clears the mark of the system (`Dashboard.tsx:395`) |
| `UpgradesWhereUpdatesRemain` (`Schedules`, with two `Copies`) | README.md:293: update schedules "run the normal per-system Upgrade action where visible updates remain"; a run that overlaps may have upgraded the system since the check |
| `UpgradesOfEnabled` (`Schedules`) | a run of a schedule that was disabled or deleted goes on upgrading |
| `StillHides`, `OldUnverified` (`SchemaMigrations`) | a start that dies between the column that replaces a setting and its values finds the column and skips the values: what was hidden shows again (`tests/server/db-startup-cleanup.test.ts:226` has the start that does not die), and systems of old count as verified (`tests/server/proxyjump-hostkey-migration.test.ts:120`) |
| `EverySelectionIsCurrent` (`SystemPage`) | the selection that comes back when its upgrade is refused may be of versions that are no longer shown |
| `UnwarnedIsTrusted` (`SystemForm`) | a copy shows the key of its source, which is not copied; an edit of the credential drops the token of an approval and keeps the key shown; the save then does not warn, although the form says "Approved host key will be saved with this system." (`client/locales/en.json:79`) |
| `QueuedWereListed` (`UpgradeDialog`) | a system whose updates were found while the dialog was open is queued, although the dialog did not list it (`Dashboard.tsx:1078`) |
| `OrderShownIsSaved` (`UpgradeDialog`) | a group that is added after the groups were dragged is shown last and saved first (`Dashboard.tsx:492`) |
| `SecretsOfTheirRows` (`ChannelForm`) | secrets of a webhook are matched by their place: behind a row that was removed, one that is shown as "(unchanged)" is replaced by that of another header, or by the mask (`Notifications.tsx:549`) |
| `UntouchedSystemsStay` (`ChannelForm`) | a form that is saved before the systems are read, or while some are hidden, takes them off the channel (`Notifications.tsx:869`) |
| `CopyCanBeTested` (`ChannelForm`) | a copy has the id 0, and its test is refused (`routes/notifications.ts:521`) |
| `WaitingRowsAreOver` (`OperationReports`) | an upgrade that cannot connect, is cancelled before its first command, or finds nothing to resume leaves the row that waited for it |
| `EndsAreTold` (`OperationReports`) | a repair that is cancelled before or behind its commands, and a check that finds no manager, publish no end |
| `FailuresHaveRows` (`OperationReports`) | a repair that cannot connect has no row |
| `ErrorsAreTold` (`OperationReports`) | a check that cannot connect publishes no error |
| `AllAreAllowed` (`TelegramMenus`) | "all" in the menu leaves out systems that are excluded from Upgrade All, which the list above the button shows |
| `ConfirmedHaveUpdates` (`TelegramMenus`) | of a confirmed upgrade only the system is looked up again, not its updates |
| `ErrorsStartedNothing` (`TelegramMenus`) | one refused request ends a command for all in an error; the jobs the others started are not reported (`telegram-bot.ts:1154`) |
| `CommandsStayWithSteps` (`ScriptEditor`) | a command that was beautified is put where its step was when the button was pressed (`Scripts.tsx:1140`) |
| `ParsedStepStays` (`ScriptEditor`) | the step whose output is parsed is a place: when steps are moved, another one is parsed |
| `EditorIsNamed` (`ScriptEditor`) | a copy that is ready while an editor is open is lost, and names that editor for a new script (`Scripts.tsx:2364`) |
| `OwnAnswerCloses` (`ScriptEditor`) | the answer to a save closes the editor that was opened after a cancel (`Scripts.tsx:2159`) |
| `TogglesOnlyMark`, `MarksStay` (`ScriptEditor`) | the star of the list sends the whole script as it was read, and undoes what others saved; an editor opened before the answer to a star undoes that |
| `ManagerIsSet` (`ScriptEditor`) | the type switched to system and back leaves no manager, while the list shows the first one (`Scripts.tsx:1212`) |
| `RefusedImportLeavesNothing` (`ManagerBundles`) | an import that is refused at a script leaves the manager and the scripts before it, and its key is then taken (`routes/scripts.ts:63`) |
| `EveryScriptIsImported` (`ManagerBundles`) | of scripts of one name and operation in a file the last one is stored |
| `DeletesWhatIsShown` (`ManagerBundles`) | scripts saved since the dialog was opened are deleted with the manager, beyond the number it asked for |
| `ImportRunsTheSame` (`ManagerBundles`) | without a mark systems run the oldest script of an operation; a file has them by name, so another one becomes the oldest |
| `ListIsWhatWasRead` (`SchedulePage`) | a drag that is refused puts back the list from before it, also when it was read again meanwhile (`Schedules.tsx:688`) |
| `OneDragAtATime` (`SchedulePage`) | rows can be dragged while the last order is on its way; the one that is served last is stored (`Schedules.tsx:699`) |
| `UntouchedChannelsStay` (`SchedulePage`) | a digest whose channels were not touched is saved with those its form was opened with (`Schedules.tsx:384`) |
| `SaveCanBeValid` (`SchedulePage`) | a channel that is deleted meanwhile cannot be unticked, and the save is refused (`schedule-service.ts:316`) |
| `ClosedByItsOwnAnswer` (`SchedulePage`) | the answer to a save that was cancelled closes the form that is open then (`Schedules.tsx:763`) |
| `TargetsAreNamed` (`SchedulePage`) | the targets that the list names leave out hidden systems, which the schedule upgrades all the same (`Schedules.tsx:714`) |

Seen while modelling, without a property:

- *Notifications and schedules.* An app version pending for a channel whose schedule is
  disabled silences the immediate message (`notification-service.ts:735`); deleting one of a
  channel's two schedules drops what is pending (`schedule-service.ts:412`). A check whose
  connection fails returns normally, so the system counts as refreshed. Saving any schedule
  within 30 seconds of a start cancels the refresh of the start. The deletion of a system in
  the middle of its scheduled upgrade may end the run, so that the systems after it get no
  turn; overlapping update schedules upgrade a system twice.
- *Batches.* An item resumed at its second manager forgets a failure of the first
  (`update-service.ts:1461`), for which `ItemMatchesRows` is stated for runs without restart.
- *Registry.* A credential saved with an empty secret keeps its systems and can no longer be
  selected; the login names copied into systems stay when the credential's is edited.
- *Scripts.* A request that saves a system and has invalid
  overrides saves the system; scripts may be made for managers that do not exist.
- *Telegram.* Commands that need no confirmation (a refresh) run again when they are
  delivered again.

## 5. Fairness

Fairness is given to what the event loop, a `finally` or a time limit brings about, and never
to users, hosts or networks:

- `ConnectionPool`: a continuation runs (`ResolveChain`); a connection attempt succeeds or
  fails (`readyTimeout`); a connected caller disconnects (every caller does so in `finally`).
- `SystemOperations`: an operation in progress advances (each await has a time limit); a
  woken waiter runs. There is no fairness among waiters, since the lock has none: all calls end
  because they are finitely many, and with an endless stream of calls one may starve.
- `UpgradeBatch`: the runner and each operation advance. Restarts are bounded.
- `PersistentCommand`: the dashboard's steps, weakly. Nothing is assumed of the host: a script
  may run for ever, and the tail then ends by its time limit.
- `Notifications`: runs advance, a refresh of all systems and each digest timer come again and
  again, and a provider that is tried again and again accepts in the end (strong fairness of
  `SendSucceeds`): a provider that refuses for ever is nothing the dashboard can help.

The parts of `Parts` and `MCPages` have safety properties only and no fairness.

## 6. Proofs

TLAPS proves these for every value of the constants that satisfies the named assumption.

| Module | Assumption | Theorems |
| --- | --- | --- |
| `ConnectionProofs` (pool) | `PoolAssumption` (finitely many clients, a limit of at least 1) | `TypeCorrect`, `QueueCorrect`, `NoLostWakeUp`, `GrantsUnderLimit`, `ServedInOrder`; with `Unresolvable = {}`: `PermitsCorrect`, `PoolImplementsSemaphore` |
| `SystemOperationsProofs` | `OperationsAssumption` | `TypeCorrect`, `MutualExclusion`, `ActiveCorrect`, `CancellationCorrect`, `PermitsCorrect`, `ResultsCorrect`, `RowsExplained`, `LaunchesCorrect` |
| `UpgradeBatchProofs` | `BatchAssumption` | `TypeCorrect`, `InfoCorrect`, `OpenRowCorrect`, `LaunchesCorrect`, `ResultsCorrect`, `CleanupCorrect`, `GroupsCorrect` |
| `ConnectionProofs` (command) | `AttemptsAssumption` | `CommandTypeCorrect`, `CodeIsReal`, `RetryFindsCode`, `PromiseKept` |
| `NotificationsProofs` | `NotificationsAssumption` | `TypeCorrect`, `MarksCorrect`, `MessagesAreNews` |
| `SystemPartsProofs` | as hypotheses: `GroupsAssumption`, `PathAssumption`, `BootsAssumption`, `JobsAssumption`, `PageAssumption`, `FormAssumption` | `GroupsCorrect`, `TrustCorrect`, `FactsTyped`, `DismissalsCorrect`, `UpdatesCorrect`, `HistoryCorrect`, `JobsCorrect`; of the page, the form and the reports of a system, that `PageInv`, `FormInv` and `ReportsInv` are inductive |
| `ServicePartsProofs` | as hypotheses: `BindingAssumption`, `ScriptsAssumption`, `SchedulesAssumption`, `MigrationsAssumption`, `ChannelFormAssumption` | `DiscoveryCorrect`, `BindingCorrect`, `CommandsCorrect`, `OutputCorrect`, `ScriptsCorrect`, `SchedulesCorrect`, `MigrationsCorrect`, `SchemaCorrect`; that `ChannelInv` is inductive |
| `ListPagesProofs` | as hypotheses: `DialogAssumption`, `ScriptEditorAssumption`, `SchedulePageAssumption` | that `DialogInv`, `EditorInv` and `TimingInv` are inductive, and the lemmas about lists in order that they share |
| `Parts` | `RegistryAssumption`, `PartsAssumption` (all of the above, for the constants of the parts) | `TypeCorrect`, `RegistryCorrect`, `ChainsCorrect`; of `PartsSpec`: `RegistryAlwaysSound`, `GroupsAlwaysSound`, `ConnectionsAlwaysVerified`, `OldKeysForgotten`, `DismissalAlwaysOfThisBoot`, `HiddenAlwaysSound`, `LatestCheckAlwaysKept`, `AlwaysToldOfOwnJob`, `AlwaysSettlesOnRow`, `CommandTokenAlwaysValid`, `UpdatesAlwaysSound`, `WholeOperationAlwaysShown`, `ScriptsAlwaysSound`, `UsedScriptsAlwaysStay`, `SchedulesAlwaysSound`, `MigrationsAlwaysSound`, `PagesAlwaysHold` |

Most assumptions say that a constant is a number, a finite set, or no member of another set.
One says something of the program: `PathAssumption`, that the path of a system ends with it, as
`resolveChain` builds it. No assumption bounds how many reconciliations or requests are in
progress, or says under which salt a login is.

The arguments:

- *Pool.* None of the invariants is inductive without the others: the counter equals the number
  of holders only because each entry of the queue is a waiter, once, so that a drain adds as
  many holders as it counts; nobody waits while a permit is free because a drain stops only at
  an empty queue or at the limit. For the refinement, a drain maps to the `Admit` of
  `Semaphore` with the front of the queue as the set admitted; the cardinalities are lemmas.
  That the counter is the number of holders and that no permit is idle are theorems rather
  than properties of the run, which checks what they imply (`ImplementsSemaphore`).
- *Operations.* Mutual exclusion is not inductive: a call in the section must hold the lock
  *in the map*, and only its release removes it. The invariant also says that the active
  operation is that of the busy call, that its controller is aborted only when somebody
  cancelled *that* call, and that a call owns a permit exactly at the labels with a connection.
  Every step of a call either moves it inside its section or ends it; the two shapes preserve
  the invariant, and each action is shown to have one of them. On top of it, `RowsInv` says
  which history rows go with each label: closed ones between commands (`Settled`, all
  successful as long as the flag of the loop says so), exactly one open one, the last, while a
  command runs or its result is looked for (`OpenLast`). Each end then closes that row with a
  status that fits the result, or, when the command could not be launched, adds a failed row.
  `LaunchesCorrect` uses the permits: a step that gives the permit back, or begins without
  one, launches nothing, and the few that remain look at the signal.
- *Batch.* Each conjunct of the invariant speaks of one system (`SystemInv`), and an action of
  an item touches that system only, so a frame lemma leaves one system to look at. A process id
  that is stored is that of the last launch because a step clears it before it launches; a run
  launches a manager once because launched managers leave the list of those to do, which the
  invariant relates to the label. The order of groups is inductive together with it: the items
  of later groups are queued and idle while an earlier one is unfinished.
- *Command.* A code is real because it can only be read from a file the script wrote and the
  host did not clear; a retry finds it because only a read that succeeded, or an inference,
  removes the files. The invariant relates the file, the label and what was read. `PromiseKept`
  is the safety part of the refinement of `DetachedCommand`: each step is one of its steps or
  a stutter.
- *Notifications.* A mark is set only from a snapshot, so the invariant states for every
  snapshot what `MarksWereSent` states for the rows. `MessagesHaveNews` is an action property:
  the step that continues after a message computes the next one from a row it has just marked,
  and the invariant needed is that a message is on the way to a channel the run does not come
  to again, and what the message about a new app version was computed from.
- *Registry.* The walk of a save visits a set of saved systems that nothing in it leaves and
  that does not contain the edited system. A set of systems that all hop inside it would, after
  the edit, contain the edited system; without it and the walked set it is closed already
  before, which the invariant excludes.
- *Groups and facts.* Both are inductive with the types: a new position is below every other;
  a dismissal that is written was of the boot that is written with it, or has expired.
- *Host keys* (`TrustInv`). That a returned connection is verified does not follow from the
  phase of the call: the invariant relates the hops a call has read, those it has met, and the
  keys it accepted for this call only, for paths of any length; what a hop was met with stays
  what it was, although its row changes. `OldKeysForgotten` needs that a stored token is for
  an address where the host has that key.
- *Updates* (`UpdatesInv`). A check is sound for the managers that worked; what the operator
  wished is stored in a row the check cannot overwrite. Both halves of `HiddenSound` then follow
  from the cases of `Hide` and from the reconciliation that ends each check.
- *History* (`HistoryInv`). The check that is kept started after every other that is over, and so
  it is the newest one of what remains, whatever number of rows retention removes.
- *Jobs* (`JobsInv`). An id is given once. A call's id finds its own job or none, and a job that
  is over has the result with which its operation ended; a result is told only from a job.
- *Discovery* (`DiscoveryInv`). A record that has left the map belongs to whoever took it out and
  never comes back; each sync of a record is owned by its phase; and the record in the map is
  synced to what is wanted now, or a sync that will read it is queued. The invariant is needed at
  every await of the reconciliation, not only at rest. What speaks of edits one at a time hangs on
  `overlap`: while it is not `now`, a reconciliation in progress works with the stored row.
- *Binding* (`BindingInv`). The worker never revokes: a stored token belongs to a channel with
  commands and a bot, and the worker gives it a chat. Only requests revoke, and each that does
  overtakes the others, so the token in a snapshot that was not overtaken and the one in the row
  are valid or replaced in the same step; `late` stands until another token is written.
- *Bot updates* (`CommandsInv`). A worker has handled all that is before its offset except
  for the update it is at; a confirmation leaves the pending ones before its command starts.
- *Live output* (`OutputInv`). The screen of a page followed by what its connection carries ends
  with the buffer, and nothing but a reset is before it on a page that was cleared.
- *Scripts* (`ScriptsInv`). Defaults are unique because each change of scope or mark clears the
  others; an override names a script that exists because a deletion clears those it does not
  refuse. `UsedScriptsAlwaysStay` is an argument by the cases of `Resolve`: what a system runs
  was counted as used, or is one of the two exceptions.
- *Schedules* (`SchedulesInv`). Only digests have channels, and every edit makes all timers anew.
- *Migrations* (`MigrationsInv`, `SchemaInv`). Each conjunct speaks of the disk for one place in
  the program, and a death forgets the place only: so the invariant of the place `down` must hold of
  the disk at every other one. A secret is under one of the two salts at every moment, but for a
  credential made of a login under the old one, which is under both and stays so; and the last
  loop has what it did not read yet still before it; a channel keeps its schedule until a digest has
  it; a marker of a schema migration is set after its statement, which does nothing when it is
  repeated.
- *Page of a system* (`PageInv`). A selection is of what is shown because whatever changes the
  updates that are shown resets it. A page that has heard of everything is idle when the server
  is, because a poll that counts is one that was read after the last operation ended, and a mark
  without a request is of an operation that the server still has.
- *Form of a system* (`FormInv`). A test is of the connection as it was sent, unless the form was
  edited meanwhile. As long as nobody else approves or revokes, one of the token, the review and
  the test holds the key, and it is the one the host presents: so what a save stores is
  what the form shows (`TokenStores`).
- *Reports* (`ReportsInv`). By kind of operation: which rows may be open at each label, and that
  nothing which ends an operation was told before.
- *Form of a channel* (`ChannelInv`). A mask in the form or in a request stands at the place of
  the header it is of, as long as no row was removed; a merge by places then puts each
  secret back under its name. That holds of the row, the form, the data and the request, and each
  step moves it from one to the next.
- *Dialog of Upgrade All* (`DialogInv`). What is shown is saved or on its way: each kind of
  request has its own clause, and the restored value of a request that fails is what was saved
  when it was sent. For the places it must also say that pending ones, the list, and the list a drag
  started from fit the server up to deleted groups.
- *Schedules page* (`TimingInv`). No two rows share a place: a new one gets one more than the
  greatest, a reordering is of exactly the rows there are. The list is the rows by place, whose
  existence is an induction on their number (`HasOrder`).
- *Script editor* (`EditorInv`). No two scripts of one scope have the mark. As long as nothing else was
  saved since, an editor has the stored script, and a request has what its editor had; a step
  that is parsed stays within the steps through every way to move, add and remove them.
- *Parts.* A behaviour begins in one part and every step is one of that part, or a stutter of it
  (`PartBegins`, `PartSteps`); so the invariant of a component carries over to the whole.

Only model-checked:

- liveness (`EveryWaiterServed`, `EveryOperationEnds`, `BatchEnds`, `EventuallyOver`,
  `UpdatesAnnounced`) and the fairness part of both refinements (`ImplementsSemaphore`,
  `ImplementsPromise`), which are out of the prover's reach;
- of `PagesSound` what the menus of the bot and the bundles are for (`TelegramMenus`,
  `ManagerBundles`); the rest of it is `PagesHold`, which is proved.

`TypeOK` of the modules with proofs is proved and not run. No module declares a RECURSIVE
operator.

## 7. Not modelled

- *In the modelled components.* What remote commands print (only how they end) and the text of
  messages; hidden systems and filters of event kinds in `Notifications` (a system hidden between
  the queueing and the digest may leave a message with less in it than was queued), and the unused column
  `notifications.schedule`; when a cron expression fires; the display order and flags of systems; MQTT install
  commands, which call an upgrade; the bot's status message and profile; tokens that
  are revoked by hand while a channel uses them; indexes and the order of old rows in migrations.
- *Accounts, sessions, tokens and request middleware.* The models are about what operations do,
  and take every caller as authorised.
- *Parsers, detection patterns, the command reference and the distribution data* are functions of
  their input that unit tests reach.
- *Settings, providers, life cycles of the dashboard and of distributions* only store, move or
  show data; the one setting that interacts, the number of connections, is a variable of
  `ConnectionPool`.
- *The client*, beyond the pages, dialogs and forms of section 3: layout, translations, filters and
  lists that are only read, the settings, and the pages of accounts. It is most of the
  source by lines that no module names.
