----------------------------- MODULE UpgradeBatch -----------------------------
(***************************************************************************)
(* An Upgrade All batch: its creation, the runner that starts the items of *)
(* one group after the other (server/services/upgrade-batch-service.ts),   *)
(* each item's applyUpgradeAll with what it writes for a resumption, the   *)
(* processes on the remote hosts, and restarts of the dashboard with the   *)
(* cleanup of db/index.ts and the resumption of the batch.                 *)
(*                                                                         *)
(* batch, item, rows and cached are in the database; flight, created and   *)
(* op are lost in a restart; remote is on the hosts.  The items lock       *)
(* different systems, so the lock and the pool only delay them.            *)
(***************************************************************************)
EXTENDS Integers, Sequences, FiniteSets

CONSTANTS
  Systems,
  GroupOf,      \* groupSortOrder of each system's item
  Managers,     \* package managers 1..Managers; 1 is the primary one
  MaxRestarts,  \* bound: restarts of the dashboard
  None

ASSUME BatchAssumption ==
  /\ IsFiniteSet(Systems)
  /\ GroupOf \in [Systems -> Nat]
  /\ Managers \in Nat \ {0}
  /\ MaxRestarts \in Nat
  /\ None \notin Systems \union {"queued", "running", "success", "warning", "failed", "cancelled"}
  /\ None \notin [mgr : 1..Managers, n : Nat]

VARIABLES
  batch,     \* status of the batch, or None
  item,      \* upgrade_batch_items: status, manager, history row, remote info
  rows,      \* update_history of each system
  cached,    \* the managers with updates in update_cache
  flight,    \* the items of the Promise.all of the runner
  op,        \* applyUpgradeAll of each item
  remote,    \* the process of each manager's upgrade on each host
  launches,  \* how often it was launched (for the properties)
  restarts

vars == <<batch, item, rows, cached, flight, op, remote, launches, restarts>>
database == <<batch, item, rows, cached>>
hosts == <<remote, launches>>

Mgrs == 1..Managers
Final == {"success", "warning", "failed", "cancelled"}
Unfinished == {"queued", "running"}

NoItem == [status |-> None, mgr |-> 0, hist |-> 0, info |-> None]

\* todo: managers still to do; resume: the item's data when it resumes; queued:
\* the queued row; first: no command was launched yet; lost: reconnectionUsed.
Idle == [pc |-> "idle", todo |-> {}, mgr |-> 0, row |-> 0, resume |-> FALSE,
         queued |-> 0, first |-> TRUE, conn |-> FALSE, ok |-> TRUE, lost |-> FALSE,
         asked |-> FALSE, result |-> None]

Init ==
  /\ batch = None
  /\ item = [s \in Systems |-> NoItem]
  /\ rows = [s \in Systems |-> <<>>]
  /\ cached = [s \in Systems |-> Mgrs]
  /\ flight = {}
  /\ op = [s \in Systems |-> Idle]
  /\ remote = [s \in Systems |-> [m \in Mgrs |-> "none"]]
  /\ launches = [s \in Systems |-> [m \in Mgrs |-> 0]]
  /\ restarts = 0

-----------------------------------------------------------------------------
(* Creation. *)

QueuedRow == [mgr |-> 0, status |-> "queued"]
QueuedItem == [status |-> "queued", mgr |-> 0, hist |-> 1, info |-> None]

\* createUpgradeBatch for the systems S, in the group order; a row and then an
\* item for each.
Create(S) ==
  /\ batch = None /\ S # {}
  /\ batch' = "queued"
  /\ rows' = [s \in Systems |-> IF s \in S THEN <<QueuedRow>> ELSE <<>>]
  /\ item' = [s \in Systems |->
                IF s \in S THEN QueuedItem ELSE NoItem]
  /\ UNCHANGED <<cached, flight, op, hosts, restarts>>

-----------------------------------------------------------------------------
(* The runner. *)

Active == {s \in Systems : item[s].status \in Unfinished}

\* MUTANT of NextGroup: items that were running before a restart are left out.
NextGroupQueuedOnly ==
  {s \in Active : item[s].status = "queued" /\ \A t \in Active : GroupOf[s] <= GroupOf[t]}

\* getNextGroupItems
NextGroup == {s \in Active : \A t \in Active : GroupOf[s] <= GroupOf[t]}

\* MUTANT of StartItems: the items of all groups at once.
StartItemsOfAllGroups(start) ==
  /\ flight' = Active
  /\ op' = [s \in Systems |-> IF s \in Active THEN start[s] ELSE op[s]]

\* Promise.all over the items of the next group.
StartItems(start) ==
  /\ flight' = NextGroup
  /\ op' = [s \in Systems |-> IF s \in NextGroup THEN start[s] ELSE op[s]]

\* What runBatchItem reads before its first await: a running item with remote
\* info resumes, any other starts from its history row.
ItemOp(s) ==
  LET resume == item[s].status = "running" /\ item[s].info # None
  IN [Idle EXCEPT !.pc = "waiting", !.resume = resume,
                  !.mgr = IF resume THEN item[s].mgr ELSE 0,
                  !.row = IF resume THEN item[s].hist ELSE 0,
                  !.queued = IF resume THEN 0 ELSE item[s].hist]

RunGroup ==
  /\ batch \in Unfinished /\ flight = {} /\ Active # {}
  /\ batch' = "running"
  /\ StartItems([s \in Systems |-> ItemOp(s)])
  /\ UNCHANGED <<item, rows, cached, hosts, restarts>>

\* summarizeBatch, when no item is left.
Summary ==
  LET Some(status) == \E s \in Systems : item[s].status = status IN
  IF Some("failed") THEN "failed"
  ELSE IF Some("warning") THEN "warning"
  ELSE IF Some("cancelled") THEN "cancelled" ELSE "success"

EndBatch ==
  /\ batch \in Unfinished /\ flight = {} /\ Active = {}
  /\ batch' = Summary
  /\ UNCHANGED <<item, rows, cached, flight, op, hosts, restarts>>

-----------------------------------------------------------------------------
(* applyUpgradeAll for the item of s. *)

SetOp(s, o) == op' = [op EXCEPT ![s] = o]
SetRow(s, i, row) == rows' = [rows EXCEPT ![s][i] = row]
AddRow(s, row) == rows' = [rows EXCEPT ![s] = Append(@, row)]

Done(s, o, res) == SetOp(s, [o EXCEPT !.pc = "finishing", !.result = res])

\* getUpgradeAllPkgManagers
ManagersOf(s) == IF cached[s] # {} THEN cached[s] ELSE {1}

\* The lock is free.  A resumption starts at the manager of the item, if the
\* cache still names it, and needs no connection yet.
Begin(s) ==
  LET o == op[s]
      list == ManagersOf(s) IN
  /\ o.pc = "waiting"
  /\ SetOp(s, [o EXCEPT
       !.todo = IF o.resume /\ o.mgr \in list THEN {m \in list : m >= o.mgr} ELSE list,
       !.pc = IF o.resume THEN "loop" ELSE "connecting"])
  /\ UNCHANGED <<database, flight, hosts, restarts>>

\* No package manager was detected: the queued row is finished.
NoManager(s) ==
  /\ op[s].pc = "waiting"
  /\ IF op[s].queued # 0 THEN SetRow(s, op[s].queued, [mgr |-> 0, status |-> "failed"])
                         ELSE UNCHANGED rows
  /\ Done(s, op[s], "failed")
  /\ UNCHANGED <<batch, item, cached, flight, hosts, restarts>>

\* The connection; the catch block logs a row of its own when it fails.
Connect(s) ==
  /\ op[s].pc = "connecting"
  /\ \/ /\ IF op[s].asked THEN Done(s, op[s], "cancelled")
           ELSE SetOp(s, [op[s] EXCEPT !.pc = "loop", !.conn = TRUE])
        /\ UNCHANGED rows
     \/ /\ Done(s, op[s], "failed")
        /\ AddRow(s, [mgr |-> 0, status |-> "failed"])
  /\ UNCHANGED <<batch, item, cached, flight, hosts, restarts>>

\* cancelActiveOperation
Cancel(s) ==
  /\ op[s].pc \notin {"idle", "waiting", "finishing"}
  /\ SetOp(s, [op[s] EXCEPT !.asked = TRUE])
  /\ UNCHANGED <<database, flight, hosts, restarts>>

CancelSeen(s) ==
  /\ op[s].pc = "loop" /\ op[s].asked /\ op[s].todo # {}
  /\ Done(s, op[s], "cancelled")
  /\ UNCHANGED <<database, flight, hosts, restarts>>

NextMgr(s, m) == m \in op[s].todo /\ \A n \in op[s].todo : m <= n
Resumes(s, m) == op[s].resume /\ m = op[s].mgr

\* The manager has no command (any more).
SkipManager(s) ==
  /\ op[s].pc = "loop" /\ ~op[s].asked
  /\ \E m \in Mgrs : NextMgr(s, m) /\ SetOp(s, [op[s] EXCEPT !.todo = @ \ {m}])
  /\ UNCHANGED <<database, flight, hosts, restarts>>

\* A resumed operation connects before its next manager.
NeedConnection(s) ==
  /\ op[s].pc = "loop" /\ ~op[s].asked /\ ~op[s].conn
  /\ \E m \in Mgrs : NextMgr(s, m) /\ ~Resumes(s, m)
  /\ SetOp(s, [op[s] EXCEPT !.pc = "connecting"])
  /\ UNCHANGED <<database, flight, hosts, restarts>>

\* MUTANT of StepStarted: the remote info of the previous step stays.
StepStartedKeepsInfo(s, m, row) ==
  item' = [item EXCEPT ![s] = [@ EXCEPT !.status = "running", !.mgr = m, !.hist = row]]

\* onStepStarted: the item names the step, its remote info is cleared.
StepStarted(s, m, row) ==
  item' = [item EXCEPT ![s] = [status |-> "running", mgr |-> m, hist |-> row, info |-> None]]

\* The row a step goes on with: that of the resumed step, the queued row for
\* the first command, none for the others.
StepRow(s, m) == IF Resumes(s, m) THEN op[s].row ELSE IF op[s].first THEN op[s].queued ELSE 0

InStep(s, m, row) ==
  SetOp(s, [op[s] EXCEPT !.pc = IF Resumes(s, m) THEN "reconnecting" ELSE "setup",
                         !.mgr = m, !.row = row, !.first = FALSE, !.todo = @ \ {m}])

\* MUTANT of StartStep: the queued row is not marked as started (markEntryStarted).
StartStepUnmarked(s) ==
  /\ op[s].pc = "loop" /\ ~op[s].asked
  /\ \E m \in Mgrs :
       LET row == IF StepRow(s, m) # 0 THEN StepRow(s, m) ELSE Len(rows[s]) + 1 IN
       /\ NextMgr(s, m) /\ (Resumes(s, m) \/ op[s].conn)
       /\ IF StepRow(s, m) # 0 THEN UNCHANGED rows
                               ELSE AddRow(s, [mgr |-> m, status |-> "started"])
       /\ StepStarted(s, m, row) /\ InStep(s, m, row)
  /\ UNCHANGED <<batch, cached, flight, hosts, restarts>>

\* The next manager: a resumed step needs no connection, a new one gets a row
\* unless it takes over the queued one.
StartStep(s) ==
  /\ op[s].pc = "loop" /\ ~op[s].asked
  /\ \E m \in Mgrs :
       LET row == IF StepRow(s, m) # 0 THEN StepRow(s, m) ELSE Len(rows[s]) + 1
           started == [mgr |-> m, status |-> "started"] IN
       /\ NextMgr(s, m) /\ (Resumes(s, m) \/ op[s].conn)
       /\ IF StepRow(s, m) # 0 THEN SetRow(s, row, started) ELSE AddRow(s, started)
       /\ StepStarted(s, m, row) /\ InStep(s, m, row)
  /\ UNCHANGED <<batch, cached, flight, hosts, restarts>>

\* MUTANT of EndStep: overallSuccess is that of the last manager.
EndStepForgetsFailure(s, status) ==
  LET o == op[s] IN
  /\ SetRow(s, o.row, [mgr |-> o.mgr, status |-> status])
  /\ SetOp(s, [o EXCEPT !.pc = "loop", !.ok = status # "failed",
                        !.todo = IF o.lost THEN {} ELSE @])

\* MUTANT of EndStep: a failed manager is tried again.
EndStepRetries(s, status) ==
  LET o == op[s] IN
  /\ SetRow(s, o.row, [mgr |-> o.mgr, status |-> status])
  /\ SetOp(s, [o EXCEPT !.pc = "loop", !.ok = @ /\ status # "failed",
                        !.todo = IF o.lost THEN {} ELSE IF status = "failed" THEN @ \union {o.mgr} ELSE @])

\* A step of s is over with `status`, and the loop goes on.
EndStep(s, status) ==
  LET o == op[s] IN
  /\ SetRow(s, o.row, [mgr |-> o.mgr, status |-> status])
  /\ SetOp(s, [o EXCEPT !.pc = "loop", !.ok = @ /\ status # "failed",
                        !.todo = IF o.lost THEN {} ELSE @])

\* The operation of s ends inside a step, which gets the status res.
EndInStep(s, res) ==
  /\ SetRow(s, op[s].row, [mgr |-> op[s].mgr, status |-> res])
  /\ Done(s, op[s], res)

SetRemote(s, state) == remote' = [remote EXCEPT ![s][op[s].mgr] = state]

\* The setup command starts the process on the host...
Launch(s) ==
  /\ op[s].pc = "setup"
  /\ SetRemote(s, "running")
  /\ launches' = [launches EXCEPT ![s][op[s].mgr] = @ + 1]
  /\ SetOp(s, [op[s] EXCEPT !.pc = "launched"])
  /\ UNCHANGED <<database, flight, restarts>>

\* ... and its answer, with the process id and the files, is stored in the item.
SetupAnswers(s) ==
  /\ op[s].pc = "launched"
  /\ item' = [item EXCEPT ![s].info = [mgr |-> op[s].mgr, n |-> launches[s][op[s].mgr]]]
  /\ SetOp(s, [op[s] EXCEPT !.pc = "tailing"])
  /\ UNCHANGED <<batch, rows, cached, flight, hosts, restarts>>

\* No answer, or none that can be used: the step failed.
SetupFails(s) ==
  /\ op[s].pc \in {"setup", "launched"}
  /\ EndStep(s, "failed")
  /\ UNCHANGED <<batch, item, cached, flight, hosts, restarts>>

\* exec throws because the connection is gone: for the setup, the tail, or the
\* exit file.
StepThrows(s) ==
  /\ op[s].pc \in {"setup", "tailing"}
  /\ AddRow(s, [mgr |-> 0, status |-> "failed"])
  /\ Done(s, op[s], "failed")
  /\ UNCHANGED <<batch, item, cached, flight, hosts, restarts>>

\* The abort ends the setup or the tail; a known process is killed if the host
\* can be reached.
StepCancelled(s) ==
  /\ op[s].pc \in {"setup", "launched", "tailing"} /\ op[s].asked
  /\ EndInStep(s, "cancelled")
  /\ UNCHANGED remote \/ (op[s].pc = "tailing" /\ SetRemote(s, "killed"))
  /\ UNCHANGED <<batch, item, cached, flight, launches, restarts>>

\* The files of the process of s are removed.
FilesRemoved(s) ==
  remote' = [remote EXCEPT ![s][op[s].mgr] = IF @ \in {"ok", "failed"} THEN "read" ELSE @]

\* The tail ends with the process; its exit code is read and its files removed.
TailEnds(s) ==
  /\ op[s].pc = "tailing"
  /\ FilesRemoved(s)
  /\ \/ remote[s][op[s].mgr] = "ok" /\ EndStep(s, "success")
     \/ \* A failed command, or an exit code that could not be read.
        /\ remote[s][op[s].mgr] # "running" /\ EndStep(s, "failed")
  /\ UNCHANGED <<batch, item, cached, flight, launches, restarts>>

TailLost(s) ==
  /\ op[s].pc = "tailing"
  /\ SetOp(s, [op[s] EXCEPT !.pc = "reconnecting", !.conn = FALSE, !.lost = TRUE])
  /\ UNCHANGED <<database, flight, hosts, restarts>>

\* attemptReconnection found the exit code.
ReconnectReads(s) ==
  LET end == remote[s][op[s].mgr] IN
  /\ op[s].pc = "reconnecting" /\ end \in {"ok", "failed"}
  /\ EndStep(s, IF end = "failed" THEN "failed" ELSE IF op[s].lost THEN "warning" ELSE "success")
  /\ FilesRemoved(s)
  /\ UNCHANGED <<batch, item, cached, flight, launches, restarts>>

\* EXIT_FILES_GONE, also when the process could not be looked for: the files are
\* removed and the number of updates before and after a check decides.
ReconnectInfers(s) ==
  /\ op[s].pc = "reconnecting"
  /\ \E left \in SUBSET Mgrs : cached' = [cached EXCEPT ![s] = left]
  /\ \E guess \in {IF op[s].lost THEN "warning" ELSE "success", "failed"} : EndStep(s, guess)
  /\ UNCHANGED <<batch, item, flight, hosts, restarts>>

\* No connection in time, no check, or a second loss: the process may run on.
ReconnectFails(s) ==
  /\ op[s].pc = "reconnecting"
  /\ EndStep(s, "failed")
  /\ UNCHANGED <<batch, item, cached, flight, hosts, restarts>>

\* After the loop: nothing was launched, a reconnection checked already, or the
\* recheck starts.
EndLoop(s) ==
  LET o == op[s] IN
  /\ o.pc = "loop" /\ o.todo = {}
  /\ \/ /\ o.first /\ o.queued # 0
        /\ SetRow(s, o.queued, [mgr |-> 0, status |-> "failed"])
        /\ Done(s, o, "failed")
     \/ /\ ~(o.first /\ o.queued # 0)
        /\ IF o.lost THEN Done(s, o, IF o.ok THEN "warning" ELSE "failed")
                     ELSE SetOp(s, [o EXCEPT !.pc = "rechecking"])
        /\ UNCHANGED rows
  /\ UNCHANGED <<batch, item, cached, flight, hosts, restarts>>

\* The silent recheck ends, with or without new contents of the cache.
Rechecked(s) ==
  /\ op[s].pc = "rechecking"
  /\ \/ /\ \E left \in SUBSET Mgrs : cached' = [cached EXCEPT ![s] = left]
        /\ Done(s, op[s], IF op[s].ok THEN "success" ELSE "failed")
     \/ /\ op[s].asked /\ Done(s, op[s], "cancelled")
        /\ UNCHANGED cached
  /\ UNCHANGED <<batch, item, rows, flight, hosts, restarts>>

\* runBatchItem stores the result after the MQTT sync of the finally block.
ItemEnds(s) ==
  /\ op[s].pc = "finishing"
  /\ item' = [item EXCEPT ![s].status = op[s].result]
  /\ flight' = flight \ {s}
  /\ SetOp(s, Idle)
  /\ UNCHANGED <<batch, rows, cached, hosts, restarts>>

-----------------------------------------------------------------------------
(* The hosts and the restarts of the dashboard. *)

\* A process ends by itself, or the host reboots and clears /tmp.
ProcessEnds(s, m) ==
  /\ remote[s][m] = "running"
  /\ \E end \in {"ok", "failed"} : remote' = [remote EXCEPT ![s][m] = end]
  /\ UNCHANGED <<database, flight, op, launches, restarts>>

HostReboots(s) ==
  /\ \E m \in Mgrs : remote[s][m] = "running"
  /\ remote' = [remote EXCEPT ![s] = [m \in Mgrs |-> IF @[m] \in {"running", "ok", "failed"} THEN "lost" ELSE @[m]]]
  /\ UNCHANGED <<database, flight, op, launches, restarts>>

\* MUTANT of Cleanup: the rows of batch items are not spared.
CleanupAll(table, items) ==
  [s \in Systems |-> [i \in DOMAIN table[s] |->
     IF table[s][i].status = "started" THEN [table[s][i] EXCEPT !.status = "warning"]
                                       ELSE table[s][i]]]

\* The cleanup of initDatabase: started rows of no unfinished item.
Cleanup(table, items) ==
  [s \in Systems |-> [i \in DOMAIN table[s] |->
     IF /\ table[s][i].status = "started"
        /\ ~(items[s].status \in Unfinished /\ items[s].hist = i)
     THEN [table[s][i] EXCEPT !.status = "warning"] ELSE table[s][i]]]

\* The dashboard dies, and starts again: cleanup, then resumeUpgradeBatches.
Restart ==
  /\ restarts < MaxRestarts /\ batch # None
  /\ restarts' = restarts + 1
  /\ rows' = Cleanup(rows, item)
  /\ batch' = IF batch = "queued" THEN "running" ELSE batch
  /\ flight' = {}
  /\ op' = [s \in Systems |-> Idle]
  /\ UNCHANGED <<item, cached, hosts>>

\* It dies in createUpgradeBatch, which writes row by row: the items of T are
\* there, and the row of at most one other system.
CreateInterrupted(T, U) ==
  /\ batch = None /\ restarts < MaxRestarts
  /\ T \subseteq U /\ Cardinality(U \ T) <= 1
  /\ restarts' = restarts + 1
  /\ batch' = "running"
  /\ rows' = [s \in Systems |-> IF s \in U THEN <<QueuedRow>> ELSE <<>>]
  /\ item' = [s \in Systems |->
                IF s \in T THEN QueuedItem ELSE NoItem]
  /\ UNCHANGED <<cached, flight, op, hosts>>

-----------------------------------------------------------------------------
(* The specification. *)

Advance(s) ==
  \/ Begin(s) \/ NoManager(s) \/ Connect(s) \/ CancelSeen(s) \/ SkipManager(s)
  \/ NeedConnection(s) \/ StartStep(s) \/ Launch(s) \/ SetupAnswers(s) \/ SetupFails(s)
  \/ StepThrows(s) \/ StepCancelled(s) \/ TailEnds(s) \/ TailLost(s) \/ ReconnectReads(s)
  \/ ReconnectInfers(s) \/ ReconnectFails(s) \/ EndLoop(s) \/ Rechecked(s) \/ ItemEnds(s)

Next ==
  \/ \E S \in SUBSET Systems : Create(S)
  \/ RunGroup \/ EndBatch
  \/ \E s \in Systems : Advance(s) \/ Cancel(s) \/ HostReboots(s)
  \/ \E s \in Systems, m \in Mgrs : ProcessEnds(s, m)
  \/ Restart
  \/ \E T, U \in SUBSET Systems : CreateInterrupted(T, U)

Spec == Init /\ [][Next]_vars

\* The runner and the operations go on: every await has a time limit.
Fairness == WF_vars(RunGroup) /\ WF_vars(EndBatch) /\ \A s \in Systems : WF_vars(Advance(s))

FairSpec == Spec /\ Fairness

-----------------------------------------------------------------------------
(* Properties. *)

RowStatus == Final \union {"queued", "started"}
PcStates == {"idle", "waiting", "connecting", "loop", "setup", "launched", "tailing",
             "reconnecting", "rechecking", "finishing"}

Item == [status : {None} \union Unfinished \union Final, mgr : 0..Managers, hist : Nat,
         info : {None} \union [mgr : Mgrs, n : Nat]]
Row == [mgr : 0..Managers, status : RowStatus]
Operation == [pc : PcStates, todo : SUBSET Mgrs, mgr : 0..Managers, row : Nat,
              resume : BOOLEAN, queued : Nat, first : BOOLEAN, conn : BOOLEAN,
              ok : BOOLEAN, lost : BOOLEAN, asked : BOOLEAN, result : {None} \union Final]
Process == {"none", "running", "ok", "failed", "lost", "read", "killed"}

\* Every variable has its type.
TypeOK ==
  /\ batch \in {None} \union Unfinished \union Final
  /\ item \in [Systems -> Item]
  /\ rows \in [Systems -> Seq(Row)]
  /\ cached \in [Systems -> SUBSET Mgrs]
  /\ flight \in SUBSET Systems
  /\ op \in [Systems -> Operation]
  /\ remote \in [Systems -> [Mgrs -> Process]]
  /\ launches \in [Systems -> [Mgrs -> Nat]]
  /\ restarts \in Nat

\* README.md:298, "the next group starts only after the current group finishes":
\* also when the dashboard restarts in the middle of a group.
GroupOrder ==
  \A s, t \in Systems :
    (GroupOf[s] < GroupOf[t] /\ item[s].status \in Unfinished)
      => op[t].pc = "idle" /\ item[t].status \in {None, "queued"}

\* The process id and the files stored in an item are those of the last process
\* of the step the item names: a resumption never watches another process.
StoredInfoIsCurrent ==
  \A s \in Systems :
    item[s].info # None => item[s].info = [mgr |-> item[s].mgr, n |-> launches[s][item[s].mgr]]

\* While an operation is inside a step, its item names the step's row, which is
\* open and is a row of the step's manager.
StepHasOpenRow ==
  \A s \in Systems :
    op[s].pc \in {"setup", "launched", "tailing", "reconnecting"} =>
      /\ item[s].status = "running"
      /\ item[s].mgr = op[s].mgr /\ item[s].hist = op[s].row
      /\ rows[s][op[s].row] = [mgr |-> op[s].mgr, status |-> "started"]

\* The cleanup at startup leaves alone what the batch is going to resume.
CleanupSparesBatch ==
  [][restarts' # restarts =>
       \A s \in Systems : item[s].status \in Unfinished =>
         rows'[s][item[s].hist] = rows[s][item[s].hist]]_vars

\* A run of the dashboard launches the upgrade of a manager at most once.
OneLaunchPerRun == \A s \in Systems, m \in Mgrs : launches[s][m] <= restarts + 1

\* A successful item has only successful steps, one with a warning no failed one.
\* A restart breaks it: the item then ends with the result of the managers from
\* the resumed one on.
ItemMatchesRows ==
  restarts = 0 =>
    \A s \in Systems : item[s].status \in {"success", "warning"} =>
      \A i \in 1..Len(rows[s]) : rows[s][i].status \in {"success", item[s].status}

\* A batch ends, although the dashboard restarts, connections are lost and hosts reboot.
BatchEnds == (batch \in Unfinished) ~> (batch \in Final)

-----------------------------------------------------------------------------
(* What the documentation and comments say, and the code does not keep. *)

\* The upgrade of a manager is launched once: after a restart of the dashboard
\* the running process is watched (README.md:367, "they continue if SSH
\* disconnects or the dashboard restarts").
LaunchedOnce == \A s \in Systems, m \in Mgrs : launches[s][m] <= 1

\* Every activity row a batch queued is finished when the batch is (the rows are
\* the "queued activity rows" of upgrade-batch-service.test.ts:23).
QueuedRowsSettled ==
  batch \in Final => \A s \in Systems : \A i \in 1..Len(rows[s]) : rows[s][i].status # "queued"

\* A reconnection never looks for a process whose exit code was read already and
\* whose files the dashboard itself removed: missing files mean a reboot, as
\* connection.ts:1038 says.
MissingFilesMeanReboot ==
  \A s \in Systems : op[s].pc = "reconnecting" => remote[s][op[s].mgr] # "read"
=============================================================================
