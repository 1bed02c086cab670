--------------------------- MODULE SystemOperations ---------------------------
(***************************************************************************)
(* The operations of server/services/update-service.ts on a system: the    *)
(* per-system lock (withLock), the active operation and its cancellation   *)
(* (active-operation-store.ts), the SSH permits each operation takes, the  *)
(* history rows it writes, its loop over package managers, the             *)
(* reconnection after a lost monitor and the silent recheck at the end.    *)
(*                                                                         *)
(* An action is the code between two awaits.  What a remote command prints *)
(* is abstracted to how it ends; the connection pool is abstracted to the  *)
(* number of its permits (ConnectionPool models it).                       *)
(***************************************************************************)
EXTENDS Integers, Sequences, FiniteSets

CONSTANTS
  Ops,           \* calls of the operation functions, each made once
  Systems,
  SystemOf,      \* the system of each call
  Kinds,         \* the operations considered, a subset of AllKinds
  Permits,       \* the setting concurrent_connections
  Managers,      \* package managers (steps) of an operation
  MaxAttempts,   \* bound: RECONNECT_TIMEOUT_MS / RECONNECT_INTERVAL_MS is 20
  CheckRetries,  \* CHECK_RETRIES of attemptReconnection, 3 in the code
  None

AllKinds == {"check", "repair", "upgrade", "select", "autoremove", "reboot"}

\* "upgrade" stands for applyUpgradeAll and applyFullUpgradeAll.
LoopKinds == {"upgrade", "select", "autoremove"}

Results == {"success", "warning", "failed", "cancelled"}

ASSUME OperationsAssumption ==
  /\ SystemOf \in [Ops -> Systems]
  /\ Kinds \subseteq AllKinds
  /\ Permits \in Nat \ {0} /\ Managers \in Nat \ {0}
  /\ MaxAttempts \in Nat \ {0} /\ CheckRetries \in Nat \ {0}
  /\ None \notin Ops \union Results

VARIABLES
  lock,       \* systemLocks: the call that owns the system's lock, or None
  active,     \* activeOperations: the call whose record is stored, or None
  aborted,    \* whether the AbortController of that record was aborted
  connected,  \* the calls that own an SSH permit
  task        \* the progress of each call

vars == <<lock, active, aborted, connected, task>>

\* Where a call is:
\* "new", "blocked" (awaits the lock's promise), "woken" (that promise is
\* resolved), "starting" and "rechecking" (await the MQTT sync), "connecting"
\* (awaits a permit), "dialing" (awaits the SSH handshakes), "loop" (between two
\* managers), "running" (awaits a command), "checking" (awaits the commands of
\* checkUpdatesUnlocked), "reconnecting" (head of the loop of
\* attemptReconnection), "resuming" (awaits resumePersistentCommand),
\* "verifyWait" (awaits the delay between two checks), "releasing" (awaits the
\* MQTT sync of the finally block), "done".
PcStates == {"new", "blocked", "woken", "starting", "connecting", "dialing",
             "loop", "running", "checking", "reconnecting", "resuming",
             "verifyWait", "rechecking", "releasing", "done"}

\* What connect() is called for.
Phases == {"main", "check", "resume", "verify", "recheck"}

RowStatus == {"started", "success", "warning", "failed", "cancelled"}

\* In these states the call has entered its section and not left it.
SectionStates == PcStates \ {"new", "blocked", "woken", "done"}

Sys(o) == SystemOf[o]
Cancelled(o) == aborted[Sys(o)]
LastRow(o, status) == [task[o].rows EXCEPT ![Len(task[o].rows)] = status]

\* The task of o becomes t, the other tasks stay.
SetTask(o, t) == task' = [task EXCEPT ![o] = t]
Goto(o, label) == SetTask(o, [task[o] EXCEPT !.pc = label])

-----------------------------------------------------------------------------
NewTask == [pc |-> "new", kind |-> "check", phase |-> "main", step |-> 0,
            tries |-> 0, checks |-> 0, ok |-> TRUE, rows |-> <<>>,
            result |-> None, asked |-> FALSE]

Init ==
  /\ lock = [s \in Systems |-> None]
  /\ active = [s \in Systems |-> None]
  /\ aborted = [s \in Systems |-> FALSE]
  /\ connected = {}
  /\ task = [o \in Ops |-> NewTask]

\* MUTANT of SetActive: the record of the new operation keeps the controller
\* of the previous one.
SetActiveKeepsController(o) ==
  /\ active' = [active EXCEPT ![Sys(o)] = o]
  /\ UNCHANGED aborted

\* setActiveOperation with a new operation: a record with a new controller.
SetActive(o) ==
  /\ active' = [active EXCEPT ![Sys(o)] = o]
  /\ aborted' = [aborted EXCEPT ![Sys(o)] = FALSE]

\* MUTANT of Finish: the connection is not closed in the finally block.
FinishKeepsConnection(o, t, res) ==
  /\ SetTask(o, [t EXCEPT !.pc = "releasing", !.result = res])
  /\ active' = [active EXCEPT ![Sys(o)] = None]
  /\ UNCHANGED <<lock, aborted, connected>>

\* The operation ends with `res` and the task `t`: the finally blocks close
\* the connection and clear the active operation.
Finish(o, t, res) ==
  /\ SetTask(o, [t EXCEPT !.pc = "releasing", !.result = res])
  /\ connected' = connected \ {o}
  /\ active' = [active EXCEPT ![Sys(o)] = None]
  /\ UNCHANGED <<lock, aborted>>

\* Finish after writing `status` into the row of the current command.
FinishRow(o, status, res) ==
  Finish(o, [task[o] EXCEPT !.rows = LastRow(o, status), !.ok = @ /\ res # "failed"], res)

-----------------------------------------------------------------------------
(* The lock. *)

\* What runs in the same task as the acquisition of the lock: everything up to
\* the first await of the operation.
EnterSection(o, k) ==
  LET t == [task[o] EXCEPT !.kind = k] IN
  \/ /\ k = "check"
     /\ SetActive(o)
     /\ SetTask(o, [t EXCEPT !.pc = "connecting", !.phase = "check"])
  \/ /\ k # "check"
     /\ SetActive(o)
     /\ SetTask(o, [t EXCEPT !.pc = "starting"])
  \/ \* applyUpgradePackages validates before it registers the operation.
     /\ k = "select"
     /\ SetTask(o, [t EXCEPT !.pc = "releasing", !.result = "failed"])
     /\ UNCHANGED <<active, aborted>>

\* MUTANT of WithLock: a woken waiter takes the lock without looking again.
WithLockOnce(o, k) ==
  /\ \/ task[o].pc = "new"
     \/ task[o].pc = "woken" /\ task[o].kind = k
  /\ \/ /\ task[o].pc = "new" /\ lock[Sys(o)] # None
        /\ SetTask(o, [task[o] EXCEPT !.pc = "blocked", !.kind = k])
        /\ UNCHANGED <<lock, active, aborted>>
     \/ /\ task[o].pc = "woken" \/ lock[Sys(o)] = None
        /\ lock' = [lock EXCEPT ![Sys(o)] = o]
        /\ EnterSection(o, k)
  /\ UNCHANGED connected

\* withLock: the while loop looks at the map again each time it wakes up.
WithLock(o, k) ==
  /\ \/ task[o].pc = "new"
     \/ task[o].pc = "woken" /\ task[o].kind = k
  /\ \/ /\ lock[Sys(o)] # None
        /\ SetTask(o, [task[o] EXCEPT !.pc = "blocked", !.kind = k])
        /\ UNCHANGED <<lock, active, aborted>>
     \/ /\ lock[Sys(o)] = None
        /\ lock' = [lock EXCEPT ![Sys(o)] = o]
        /\ EnterSection(o, k)
  /\ UNCHANGED connected

\* The finally block of withLock: every waiter's promise is resolved.
ReleaseLock(o) ==
  /\ task[o].pc = "releasing"
  /\ lock' = [lock EXCEPT ![Sys(o)] = None]
  /\ task' = [p \in Ops |->
       IF p = o THEN [task[p] EXCEPT !.pc = "done"]
       ELSE IF task[p].pc = "blocked" /\ Sys(p) = Sys(o)
            THEN [task[p] EXCEPT !.pc = "woken"]
            ELSE task[p]]
  /\ UNCHANGED <<active, aborted, connected>>

\* cancelActiveOperation; `asked` remembers it for the properties.
Cancel(s) ==
  /\ active[s] # None
  /\ aborted' = [aborted EXCEPT ![s] = TRUE]
  /\ task' = [task EXCEPT ![active[s]].asked = TRUE]
  /\ UNCHANGED <<lock, active, connected>>

-----------------------------------------------------------------------------
(* From the registration of the operation to its connection. *)

\* The system was deleted, no manager applies, or no issue is left.
NothingToDo(o) ==
  /\ task[o].pc = "starting"
  /\ task[o].kind # "select"
  /\ Finish(o, task[o], "failed")

\* The first throwIfActiveOperationCancelled; rebootSystem inserts its row first.
Begin(o) ==
  LET t == IF task[o].kind = "reboot" THEN [task[o] EXCEPT !.rows = <<"started">>]
                                      ELSE task[o] IN
  /\ task[o].pc = "starting"
  /\ \/ /\ Cancelled(o)
        /\ Finish(o, IF t.kind = "reboot" THEN [t EXCEPT !.rows = <<"cancelled">>]
                                          ELSE t, "cancelled")
     \/ /\ ~Cancelled(o)
        /\ SetTask(o, [t EXCEPT !.pc = "connecting", !.phase = "main"])
        /\ UNCHANGED <<lock, active, aborted, connected>>

\* acquireSemaphore of the connection pool.
TakePermit(o) ==
  /\ task[o].pc = "connecting"
  /\ Cardinality(connected) < Permits
  /\ connected' = connected \union {o}
  /\ Goto(o, "dialing")
  /\ UNCHANGED <<lock, active, aborted>>

\* The result of the loop over the managers.
LoopResult(t) == IF t.ok THEN "success" ELSE "failed"

\* connect() rejects; its catch block releases the permit.
DialFails(o) ==
  LET t == task[o] IN
  /\ t.pc = "dialing"
  /\ \/ /\ t.phase = "main"
        /\ Finish(o, [t EXCEPT !.rows =
                        IF t.kind = "repair" THEN <<>> ELSE <<"failed">>], "failed")
     \/ \* checkUpdatesUnlocked returns an empty list: the call succeeds.
        /\ t.phase = "check"
        /\ Finish(o, [t EXCEPT !.rows = <<"failed">>], "success")
     \/ /\ t.phase = "recheck"
        /\ \/ Finish(o, t, LoopResult(t))
           \/ t.kind = "repair" /\ Finish(o, t, "failed")
     \/ /\ t.phase = "resume"
        /\ Goto(o, "reconnecting")
        /\ connected' = connected \ {o}
        /\ UNCHANGED <<lock, active, aborted>>
     \/ \* The check could not verify the result; it is tried CheckRetries times.
        /\ t.phase = "verify"
        /\ \/ /\ t.checks < CheckRetries
              /\ Goto(o, "verifyWait")
              /\ connected' = connected \ {o}
              /\ UNCHANGED <<lock, active, aborted>>
           \/ /\ t.checks = CheckRetries
              /\ FinishRow(o, "failed", "failed")

\* connect() returns; every caller but attemptReconnection looks at the signal.
DialSucceeds(o) ==
  LET t == task[o] IN
  /\ t.pc = "dialing"
  /\ \/ /\ t.phase = "main" /\ Cancelled(o)
        /\ Finish(o, IF t.kind = "reboot" THEN [t EXCEPT !.rows = <<"cancelled">>]
                                          ELSE t, "cancelled")
     \/ /\ t.phase = "main" /\ ~Cancelled(o)
        /\ Goto(o, IF t.kind \in LoopKinds THEN "loop" ELSE "running")
        /\ UNCHANGED <<lock, active, aborted, connected>>
     \/ /\ t.phase = "check" /\ Cancelled(o)
        /\ Finish(o, [t EXCEPT !.rows = <<"cancelled">>], "cancelled")
     \/ /\ t.phase = "recheck" /\ Cancelled(o)
        /\ Finish(o, t, "cancelled")
     \/ \* attemptReconnection catches the cancellation and keeps retrying.
        /\ t.phase = "verify" /\ Cancelled(o)
        /\ Goto(o, "reconnecting")
        /\ connected' = connected \ {o}
        /\ UNCHANGED <<lock, active, aborted>>
     \/ /\ t.phase \in {"check", "recheck", "verify"} /\ ~Cancelled(o)
        /\ Goto(o, "checking")
        /\ UNCHANGED <<lock, active, aborted, connected>>
     \/ /\ t.phase = "resume"
        /\ Goto(o, "resuming")
        /\ UNCHANGED <<lock, active, aborted, connected>>

-----------------------------------------------------------------------------
(* The commands of an operation. *)

\* checkUpdatesUnlocked(systemId, true) from its first statement: the
\* cancellation is looked at before a connection is asked for.
Recheck(o, t) ==
  \/ Cancelled(o) /\ Finish(o, t, "cancelled")
  \/ /\ ~Cancelled(o)
     /\ SetTask(o, [t EXCEPT !.pc = "connecting", !.phase = "recheck"])
     /\ connected' = connected \ {o}
     /\ UNCHANGED <<lock, active, aborted>>

\* MUTANT of LoopStep: the cancellation is looked at once, before the loop.
LoopStepUnchecked(o) ==
  LET t == task[o] IN
  /\ t.pc = "loop"
  /\ \/ /\ t.step < Managers
        /\ SetTask(o, [t EXCEPT !.pc = "running", !.rows = Append(@, "started")])
        /\ UNCHANGED <<lock, active, aborted, connected>>
     \/ /\ t.step = Managers
        /\ Goto(o, "rechecking")
        /\ connected' = connected \ {o}
        /\ UNCHANGED <<lock, active, aborted>>

\* One turn of the loop over the managers, and what follows the loop.
LoopStep(o) ==
  LET t == task[o] IN
  /\ t.pc = "loop"
  /\ \/ /\ t.step < Managers /\ Cancelled(o)
        /\ Finish(o, t, "cancelled")
     \/ /\ t.step < Managers /\ ~Cancelled(o)
        /\ SetTask(o, [t EXCEPT !.pc = "running", !.rows = Append(@, "started")])
        /\ UNCHANGED <<lock, active, aborted, connected>>
     \/ \* The manager has no command for this operation.
        /\ t.step < Managers /\ ~Cancelled(o)
        /\ SetTask(o, [t EXCEPT !.step = @ + 1, !.ok = @ /\ t.kind # "select"])
        /\ UNCHANGED <<lock, active, aborted, connected>>
     \/ /\ t.step = Managers
        /\ Goto(o, "rechecking")
        /\ connected' = connected \ {o}
        /\ UNCHANGED <<lock, active, aborted>>

\* MUTANT of CommandEnds: a failure does not clear overallSuccess.
CommandEndsForgetsFailure(o) ==
  LET t == task[o] IN
  /\ t.pc = "running" /\ t.kind \in LoopKinds
  /\ \E status \in {"success", "failed"} :
       SetTask(o, [t EXCEPT !.pc = "loop", !.step = @ + 1, !.rows = LastRow(o, status)])
  /\ UNCHANGED <<lock, active, aborted, connected>>

\* A manager's command ends with an exit code; the loop goes on in both cases.
CommandEnds(o) ==
  LET t == task[o] IN
  /\ t.pc = "running" /\ t.kind \in LoopKinds
  /\ \E status \in {"success", "failed"} :
       SetTask(o, [t EXCEPT !.pc = "loop", !.step = @ + 1, !.rows = LastRow(o, status),
                            !.ok = @ /\ status = "success"])
  /\ UNCHANGED <<lock, active, aborted, connected>>

\* MUTANT of CommandCancelled: the row of the command is forgotten.
CommandCancelledKeepsRow(o) ==
  /\ task[o].pc = "running" /\ task[o].kind # "repair"
  /\ Cancelled(o)
  /\ Finish(o, task[o], "cancelled")

\* The cancellation reaches the command of an upgrade, an autoremove or a reboot.
CommandCancelled(o) ==
  /\ task[o].pc = "running" /\ task[o].kind # "repair"
  /\ Cancelled(o)
  /\ FinishRow(o, "cancelled", "cancelled")

\* The connection is gone when the command is launched, exec throws: the catch
\* block logs a failed row and does not know the row of the command.
CommandThrows(o) ==
  /\ task[o].pc = "running" /\ task[o].kind \in {"upgrade", "select"}
  /\ Finish(o, [task[o] EXCEPT !.rows = Append(@, "failed")], "failed")

\* EXIT_MONITORING_LOST: an upgrade reconnects, an autoremove gives up.
MonitoringLost(o) ==
  /\ task[o].pc = "running"
  /\ \/ /\ task[o].kind \in {"upgrade", "select"}
        /\ Goto(o, "reconnecting")
        /\ connected' = connected \ {o}
        /\ UNCHANGED <<lock, active, aborted>>
     \/ /\ task[o].kind = "autoremove"
        /\ FinishRow(o, "warning", "failed")

\* A command of rebootSystem; an expected disconnection counts as success.
RebootCommand(o) ==
  /\ task[o].pc = "running" /\ task[o].kind = "reboot"
  /\ \/ /\ task[o].step + 1 < Managers /\ ~Cancelled(o)
        /\ SetTask(o, [task[o] EXCEPT !.step = @ + 1])
        /\ UNCHANGED <<lock, active, aborted, connected>>
     \/ FinishRow(o, "success", "success")
     \/ FinishRow(o, "failed", "failed")

\* A command of solvePackageManagerIssue, which logs one row at its end (none
\* when exec throws).
RepairCommand(o) ==
  LET t == task[o]
      Logged(status) == [t EXCEPT !.rows = Append(@, status)] IN
  /\ t.pc = "running" /\ t.kind = "repair"
  /\ \/ /\ t.step + 1 < Managers /\ ~Cancelled(o)
        /\ SetTask(o, [t EXCEPT !.step = @ + 1])
        /\ UNCHANGED <<lock, active, aborted, connected>>
     \/ t.step + 1 = Managers /\ Recheck(o, Logged("success"))
     \/ Finish(o, Logged("failed"), "failed")
     \/ Finish(o, t, "failed")
     \/ Cancelled(o) /\ Finish(o, Logged("cancelled"), "cancelled")

\* The recheck at the end of the loop, after the MQTT sync.
StartRecheck(o) ==
  /\ task[o].pc = "rechecking"
  /\ Recheck(o, task[o])

\* The commands of checkUpdatesUnlocked for the check itself: every manager
\* succeeds, some do, none does (the call throws), none applies (no row), or
\* the connection fails (an empty list is returned).
CheckEnds(o) ==
  LET Row(status, res) == Finish(o, [task[o] EXCEPT !.rows = <<status>>], res) IN
  /\ task[o].pc = "checking" /\ task[o].phase = "check"
  /\ \/ Row("success", "success")
     \/ Row("warning", "success")
     \/ Row("failed", "failed")
     \/ Finish(o, task[o], "success")
     \/ Row("failed", "success")
     \/ Cancelled(o) /\ Row("cancelled", "cancelled")

\* The silent check after an operation; a repair looks at its issue again.
RecheckEnds(o) ==
  /\ task[o].pc = "checking" /\ task[o].phase = "recheck"
  /\ \/ Finish(o, task[o], LoopResult(task[o]))
     \/ task[o].kind = "repair" /\ Finish(o, task[o], "failed")
     \/ Cancelled(o) /\ Finish(o, task[o], "cancelled")

-----------------------------------------------------------------------------
(* attemptReconnection. *)

\* The exit code found after a reconnection: the row says warning or failed.
Reconnected(o) ==
  \/ FinishRow(o, "warning", IF task[o].ok THEN "warning" ELSE "failed")
  \/ FinishRow(o, "failed", "failed")

\* One attempt.  The signal is not looked at.
AttemptConnect(o) ==
  /\ task[o].pc = "reconnecting"
  /\ task[o].tries < MaxAttempts
  /\ SetTask(o, [task[o] EXCEPT !.pc = "connecting", !.phase = "resume", !.tries = @ + 1])
  /\ UNCHANGED <<lock, active, aborted, connected>>

\* The time is over, or the system was deleted meanwhile.
GiveUp(o) ==
  /\ task[o].pc = "reconnecting"
  /\ FinishRow(o, "failed", "failed")

\* resumePersistentCommand ends: with an exit code (a second loss is one), with
\* EXIT_FILES_GONE (the result is inferred from a check), or it throws.
ResumeEnds(o) ==
  LET t == task[o] IN
  /\ t.pc = "resuming"
  /\ \/ Reconnected(o)
     \/ /\ IF Cancelled(o) THEN Goto(o, "reconnecting")
           ELSE SetTask(o, [t EXCEPT !.pc = "connecting", !.phase = "verify", !.checks = 1])
        /\ connected' = connected \ {o}
        /\ UNCHANGED <<lock, active, aborted>>
     \/ /\ Goto(o, "reconnecting")
        /\ connected' = connected \ {o}
        /\ UNCHANGED <<lock, active, aborted>>

\* The check that infers the result.  Its cancellation is caught by the
\* reconnection loop, which tries again; a failing connection is retried.
VerifyEnds(o) ==
  LET t == task[o] IN
  /\ t.pc = "checking" /\ t.phase = "verify"
  /\ \/ Reconnected(o)
     \/ /\ \/ Cancelled(o) /\ Goto(o, "reconnecting")
           \/ t.checks < CheckRetries /\ Goto(o, "verifyWait")
        /\ connected' = connected \ {o}
        /\ UNCHANGED <<lock, active, aborted>>

RetryVerify(o) ==
  LET t == task[o] IN
  /\ t.pc = "verifyWait"
  /\ IF Cancelled(o) THEN Goto(o, "reconnecting")
     ELSE SetTask(o, [t EXCEPT !.pc = "connecting", !.checks = @ + 1])
  /\ UNCHANGED <<lock, active, aborted, connected>>

-----------------------------------------------------------------------------
(* The specification. *)

\* The steps of a call that was made.
Advance(o) ==
  \/ NothingToDo(o) \/ Begin(o) \/ TakePermit(o) \/ DialFails(o) \/ DialSucceeds(o)
  \/ LoopStep(o) \/ CommandEnds(o) \/ CommandCancelled(o) \/ CommandThrows(o)
  \/ MonitoringLost(o) \/ RebootCommand(o) \/ RepairCommand(o)
  \/ StartRecheck(o) \/ CheckEnds(o) \/ RecheckEnds(o)
  \/ AttemptConnect(o) \/ GiveUp(o) \/ ResumeEnds(o) \/ VerifyEnds(o) \/ RetryVerify(o)
  \/ ReleaseLock(o)

Next ==
  \/ \E o \in Ops : Advance(o)
  \/ \E o \in Ops, k \in Kinds : WithLock(o, k)
  \/ \E s \in Systems : Cancel(s)

\* The server may stop when all calls are done.
Spec == Init /\ [][Next]_vars

\* Every await of a call ends: commands, connections and syncs have time limits,
\* and a woken waiter runs.  New calls and cancellations are the users' choice.
Fairness ==
  \A o \in Ops : /\ WF_vars(Advance(o))
                 /\ WF_vars(task[o].pc = "woken" /\ WithLock(o, task[o].kind))

FairSpec == Spec /\ Fairness

-----------------------------------------------------------------------------
(* Properties. *)

Task == [pc : PcStates, kind : AllKinds, phase : Phases, step : 0..Managers,
         tries : 0..MaxAttempts, checks : 0..CheckRetries, ok : BOOLEAN,
         rows : Seq(RowStatus),
         result : Results \union {None},
         asked : BOOLEAN]

\* Every variable has its type, and no call ends without a result.
TypeOK ==
  /\ lock \in [Systems -> Ops \union {None}]
  /\ active \in [Systems -> Ops \union {None}]
  /\ aborted \in [Systems -> BOOLEAN]
  /\ connected \in SUBSET Ops
  /\ task \in [Ops -> Task]
  /\ \A o \in Ops : (task[o].result = None) <=> (task[o].pc \notin {"releasing", "done"})

\* withLock: two operations on one system never overlap, whatever they await
\* and however many waiters one release wakes up.
OneOperationPerSystem ==
  \A o, p \in Ops :
    (task[o].pc \in SectionStates /\ task[p].pc \in SectionStates /\ Sys(o) = Sys(p)) => o = p

\* The record that cancelActiveOperation aborts, and the dashboard shows, is
\* that of the operation that runs on the system; between operations there is none.
ActiveIsRunning ==
  \A s \in Systems :
    active[s] # None => /\ lock[s] = active[s]
                        /\ Sys(active[s]) = s
                        /\ task[active[s]].pc \in SectionStates \ {"releasing"}

\* A cancellation never reaches a later operation of the same system: only an
\* operation that was asked to stop ends as cancelled.
NoStrayCancellation ==
  \A o \in Ops : task[o].result = "cancelled" => task[o].asked

\* Every path of an operation gives its permit back before it waits for another
\* one, and holds one while it uses the connection.
PermitHeldWhileConnected ==
  connected = {o \in Ops : task[o].pc \in {"dialing", "loop", "running", "resuming", "checking"}}

\* No command is launched once the operation was asked to stop.
LaunchesUncancelled ==
  [][\A o \in Ops :
       (task'[o].pc = "running" /\ (task[o].pc # "running" \/ task'[o].step # task[o].step))
         => ~Cancelled(o)]_vars

\* What an operation tells its caller is what its rows say: a success has only
\* successful rows, a warning one warning, which is the last row.  (A check
\* whose connection fails returns an empty list, and is left out.)
ResultMatchesRows ==
  \A o \in Ops : task[o].kind # "check" =>
    /\ task[o].result = "success" => \A i \in 1..Len(task[o].rows) : task[o].rows[i] = "success"
    /\ task[o].result = "warning" =>
         /\ task[o].rows # <<>>
         /\ \A i \in 1..Len(task[o].rows) :
              task[o].rows[i] = IF i = Len(task[o].rows) THEN "warning" ELSE "success"

\* A row that is still "started" when its operation is over is the row of a
\* command that could not be launched, and a failed row follows it.
UnfinishedRowIsExplained ==
  \A o \in Ops : task[o].result # None =>
    \A i \in 1..Len(task[o].rows) :
      task[o].rows[i] = "started" => /\ i + 1 = Len(task[o].rows)
                                     /\ task[o].rows[i + 1] = "failed"

\* A row that says "started" belongs to an operation in progress, which is what
\* the cleanup of db/index.ts assumes when it finds one at startup ("Server
\* restarted while operation was in progress").  The code breaks it: see CommandThrows.
RowsFinished ==
  \A o \in Ops : task[o].result # None =>
    \A i \in 1..Len(task[o].rows) : task[o].rows[i] # "started"

\* Every operation that was asked for ends and lets the next one in, although
\* waiters race for the lock and reconnections wait for permits.
EveryOperationEnds ==
  \A o \in Ops : (task[o].pc # "new") ~> (task[o].pc = "done")
=============================================================================
