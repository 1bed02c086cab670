---------------------------- MODULE OperationReports ----------------------------
(***************************************************************************)
(* What one operation on a system tells (server/services/                  *)
(* update-service.ts): the messages it publishes to the pages, the rows it *)
(* leaves in the history, and the answer to its caller, for each of the    *)
(* operations and each way it may end.  SystemOperations has their locks,  *)
(* permits and attempts; here one operation runs by itself, with a request *)
(* to cancel it at any moment.                                             *)
(*                                                                         *)
(* A command is abstracted to how it ends, a message to its type (output   *)
(* is left out), a row to its status.  The silent check at the end of an   *)
(* operation publishes nothing and has no row.                             *)
(***************************************************************************)
EXTENDS Integers, Sequences, Functions

CONSTANTS Steps,   \* package managers, or commands of a repair or a reboot
          Absent

VARIABLES run,        \* the operation: see NewRun
          pc,
          cancelled,  \* its signal is aborted
          told,       \* the messages since resetStream
          rows,
          answer

vars == <<run, pc, cancelled, told, rows, answer>>

\* "resume" is applyUpgradeAll that goes on with a command of before a restart.
Upgrades == {"upgrade_all", "resume", "full_upgrade_all", "upgrade_package"}
Loops == Upgrades \cup {"autoremove"}
Kinds == Loops \cup {"check", "package_manager_repair", "reboot"}

\* queued: a row waits for it; resuming: the command of before is not over; left: steps
\* to go; conn: it holds a connection; lost: its connection was lost under a command;
\* ok: no step failed; some: a step of a check succeeded.
NewRun(kind, queued, steps) ==
  [kind |-> kind, queued |-> queued, resuming |-> kind = "resume", left |-> steps, conn |-> FALSE,
   lost |-> FALSE, ok |-> TRUE, some |-> FALSE]

Result(success, warning, stopped) == [success |-> success, warning |-> warning, cancelled |-> stopped]
Failure == Result(run.kind = "check", FALSE, FALSE)   \* a check returns no updates
Cancellation == Result(FALSE, FALSE, TRUE)
Done(success) == IF success THEN "done" ELSE "done, failed"
Dones == {Done(TRUE), Done(FALSE)}

TypeOK ==
  /\ run \in [kind : Kinds, queued : BOOLEAN, resuming : BOOLEAN, left : 0..Steps, conn : BOOLEAN,
              lost : BOOLEAN, ok : BOOLEAN, some : BOOLEAN]
  /\ pc \in {"begin", "starting", "connecting", "loop", "running", "reconnecting", "listing",
             "rechecking", "over"}
  /\ cancelled \in BOOLEAN
  /\ told \in Seq({"started", "phase", "reconnecting", "warning", "error"} \cup Dones)
  /\ rows \in Seq({"queued", "started", "success", "warning", "failed", "cancelled"})
  /\ answer # Absent <=> pc = "over"

Init ==
  /\ \E kind \in Kinds, steps \in 1..Steps :
       \E queued \in (IF kind = "upgrade_all" THEN BOOLEAN ELSE {FALSE}) :
         run = NewRun(kind, queued, steps)
  /\ rows = (CASE run.queued -> <<"queued">> [] run.resuming -> <<"started">> [] OTHER -> <<>>)
  /\ pc = "begin" /\ told = <<>> /\ answer = Absent /\ cancelled = FALSE

\* finishEntry
LastRow(status) == [rows EXCEPT ![Len(rows)] = status]

Goto(next) == pc' = next /\ UNCHANGED <<cancelled, answer>>

\* The operation is over, and its connection is closed.
End(history, messages, result) ==
  /\ pc' = "over" /\ rows' = history /\ told' = told \o messages /\ answer' = result
  /\ run' = [run EXCEPT !.conn = FALSE] /\ UNCHANGED cancelled

\* The catch block: for a cancellation noticed between two awaits, which a repair does
\* not publish, and for an error, which a check does not publish.
Caught(cancel) ==
  End(CASE run.kind = "package_manager_repair" -> rows
        [] run.kind = "check" -> Append(rows, IF cancel THEN "cancelled" ELSE "failed")
        [] run.kind = "reboot" -> LastRow(IF cancel THEN "cancelled" ELSE "failed")
        [] OTHER -> IF cancel THEN rows ELSE Append(rows, "failed"),
      CASE run.kind = "package_manager_repair" /\ cancel -> <<>>
        [] run.kind = "check" /\ ~cancel -> <<Done(FALSE)>>
        [] OTHER -> <<IF cancel THEN "warning" ELSE "error", Done(FALSE)>>,
      IF cancel THEN Cancellation ELSE Failure)

Cancel ==
  /\ pc # "over" /\ ~cancelled /\ cancelled' = TRUE
  /\ UNCHANGED <<run, pc, told, rows, answer>>

-------------------------------------------------------------------------------
\* There is no system (whose rows go with it), no package manager, issue or script.
Refuse ==
  /\ pc = "begin"
  /\ \/ End(<<>>, <<>>, Failure)
     \/ run.kind # "check" /\ End(IF run.queued THEN <<"failed">> ELSE rows, <<>>, Failure)

Begin ==
  /\ pc = "begin" /\ Goto("starting")
  /\ rows' = IF run.kind = "reboot" THEN <<"started">> ELSE rows
  /\ UNCHANGED <<run, told>>

\* publishSshConnectionStep, connect
Dial ==
  /\ pc = "starting"
  /\ \/ cancelled /\ Caught(TRUE)
     \/ /\ ~cancelled /\ run.resuming /\ Goto("loop")
        /\ \E found \in BOOLEAN : run' = [run EXCEPT !.resuming = found]   \* its manager
        /\ UNCHANGED <<told, rows>>
     \/ /\ ~cancelled /\ ~run.resuming /\ Goto("connecting")
        /\ told' = told \o <<"started", "phase">> /\ UNCHANGED <<run, rows>>

Connected ==
  /\ pc = "connecting"
  /\ \/ cancelled /\ Caught(TRUE)
     \/ /\ ~cancelled /\ Goto("loop")
        /\ run' = [run EXCEPT !.conn = TRUE] /\ UNCHANGED <<told, rows>>

ConnectFails == pc = "connecting" /\ Caught(FALSE)

\* A check that finds no package manager.
NothingToCheck ==
  /\ pc = "loop" /\ run.kind = "check" /\ told = <<"started", "phase">>
  /\ ~cancelled /\ End(rows, <<>>, Result(TRUE, FALSE, FALSE))

-------------------------------------------------------------------------------
(* The steps.  Loops and checks look at the signal before each. *)

Noticed ==
  /\ pc = "loop" /\ run.left > 0 /\ ~run.lost /\ cancelled
  /\ run.kind \in Loops \cup {"check"} /\ Caught(TRUE)

\* A manager without a command; for selected packages, that is a failure.
Skip ==
  /\ pc = "loop" /\ run.left > 0 /\ ~run.lost /\ ~cancelled
  /\ run.kind \in Loops /\ ~run.resuming /\ Goto("loop")
  /\ run' = [run EXCEPT !.left = @ - 1, !.ok = @ /\ run.kind # "upgrade_package"]
  /\ UNCHANGED <<told, rows>>

\* insertStartedEntry, or markEntryStarted of the row that waits.
StartStep ==
  /\ pc = "loop" /\ run.left > 0 /\ ~run.lost
  /\ cancelled => run.kind \in {"package_manager_repair", "reboot"}
  /\ IF run.conn \/ run.resuming
     THEN /\ Goto(IF run.resuming THEN "reconnecting" ELSE "running")
          /\ run' = [run EXCEPT !.left = @ - 1]
          /\ told' = told \o (IF run.resuming THEN <<"started", "warning", "reconnecting">>
                              ELSE <<"started">>)
          /\ rows' = CASE run.resuming \/ rows = <<"queued">> -> <<"started">>
                       [] run.kind \in Loops /\ ~run.resuming /\ rows # <<"queued">> ->
                            Append(rows, "started")
                       [] OTHER -> rows
     ELSE Goto("connecting") /\ UNCHANGED <<run, told, rows>>   \* behind what was resumed

\* A command of a loop ended.
CommandEnds(success) ==
  /\ pc = "running" /\ run.kind \in Loops /\ Goto("loop")
  /\ run' = [run EXCEPT !.ok = @ /\ success]
  /\ rows' = LastRow(IF success THEN "success" ELSE "failed") /\ UNCHANGED told

\* A command was cancelled: a repair and a check have their row only now.
CommandCancelled ==
  /\ pc \in {"running", "listing"} /\ cancelled
  /\ IF run.kind = "check" THEN Caught(TRUE)
     ELSE End(IF run.kind = "package_manager_repair" THEN Append(rows, "cancelled")
              ELSE LastRow("cancelled"), <<"warning", Done(FALSE)>>, Cancellation)

\* A command could not be run: an autoremove takes that for its end, a check for a failure
\* of the package manager.
CommandThrows ==
  /\ pc = "running" /\ run.kind \in Upgrades \cup {"package_manager_repair"} /\ Caught(FALSE)

\* EXIT_MONITORING_LOST: an autoremove is left to itself, the others reconnect.
MonitoringLost ==
  /\ pc = "running" /\ run.kind \in Loops
  /\ IF run.kind = "autoremove"
     THEN /\ told' = Append(told, "warning")
          /\ run' = [run EXCEPT !.lost = TRUE, !.ok = FALSE] /\ rows' = LastRow("warning")
          /\ Goto("loop")
     ELSE /\ told' = told \o <<"warning", "reconnecting">>
          /\ run' = [run EXCEPT !.conn = FALSE] /\ Goto("reconnecting") /\ UNCHANGED rows

\* Mutant: the loop goes on.
ReconnectedAsUsual(success) ==
  /\ pc = "reconnecting" /\ Goto("loop")
  /\ run' = [run EXCEPT !.ok = @ /\ success, !.resuming = FALSE]
  /\ rows' = LastRow(IF success THEN "success" ELSE "failed")
  /\ told' \in {told, Append(told, "warning")}

\* What attemptReconnection found; a command that is resumed was not lost.
Reconnected(success) ==
  /\ pc = "reconnecting" /\ Goto("loop")
  /\ run' = [run EXCEPT !.ok = @ /\ success, !.resuming = FALSE, !.lost = ~run.resuming]
  /\ rows' = LastRow(IF ~success THEN "failed" ELSE IF run.resuming THEN "success" ELSE "warning")
  /\ told' \in {told, Append(told, "warning")}

RepairCommandEnds(success) ==
  /\ pc = "running" /\ run.kind = "package_manager_repair"
  /\ \/ ~success /\ End(Append(rows, "failed"), <<"error", Done(FALSE)>>, Failure)
     \/ success /\ run.left > 0 /\ Goto("loop") /\ UNCHANGED <<run, told, rows>>
     \/ /\ success /\ run.left = 0 /\ Goto("rechecking")
        /\ rows' = Append(rows, "success") /\ run' = [run EXCEPT !.conn = FALSE]
        /\ UNCHANGED told

\* The commands of a reboot: it succeeds with the first that breaks the connection, or with
\* the last.  The safety checks before fail where they do not pass, also when the connection
\* breaks under them.
RebootCommandEnds(exit) ==
  /\ pc = "running" /\ run.kind = "reboot"
  /\ CASE exit = "failure" -> End(LastRow("failed"), <<"error", Done(FALSE)>>, Failure)
       [] exit = "success" /\ run.left > 0 -> Goto("loop") /\ UNCHANGED <<run, told, rows>>
       [] OTHER -> End(LastRow("success"), <<Done(TRUE)>>, Result(TRUE, FALSE, FALSE))

\* A check asks a package manager for its updates ...
CheckCommandEnds(success) ==
  /\ pc = "running" /\ run.kind = "check" /\ Goto("listing")
  /\ run' = [run EXCEPT !.ok = @ /\ success, !.some = @ \/ success]
  /\ told' = IF success THEN told ELSE Append(told, "error")
  /\ UNCHANGED rows

\* ... and for its packages, where there is a script for it.
Listed(success) ==
  /\ pc = "listing" /\ ~cancelled /\ Goto("loop")
  /\ run' = [run EXCEPT !.ok = @ /\ success]
  /\ \/ success /\ UNCHANGED told
     \/ told' = told \o <<"started", "phase">> \o (IF success THEN <<>> ELSE <<"warning">>)
  /\ UNCHANGED rows

-------------------------------------------------------------------------------
(* The end. *)

Stopped == pc = "loop" /\ (run.left = 0 \/ run.lost)

\* A queued upgrade without any command.
NoCommand ==
  /\ Stopped /\ rows = <<"queued">>
  /\ End(<<"failed">>, <<Done(FALSE)>>, Failure)

Recheck ==
  /\ Stopped /\ run.kind \in Loops /\ rows # <<"queued">> /\ ~run.lost /\ Goto("rechecking")
  /\ run' = [run EXCEPT !.conn = FALSE]
  /\ told' = Append(told, "phase") /\ UNCHANGED rows

\* Mutant: the check at the end is not silent.
RecheckToldAloud == <<"started", Done(TRUE)>>

\* What checkUpdatesUnlocked publishes there.
RecheckTold == <<>>

LostEnds ==
  /\ Stopped /\ run.kind \in Loops /\ run.lost
  /\ End(rows, <<Done(run.ok)>>,
         Result(run.ok, IF run.kind = "autoremove" THEN TRUE ELSE run.ok, FALSE))

Rechecked ==
  /\ pc = "rechecking"
  /\ \/ cancelled /\ Caught(TRUE)
     \/ /\ run.kind \in Loops
        /\ End(rows, RecheckTold \o <<Done(run.ok)>>, Result(run.ok, FALSE, FALSE))
     \/ /\ run.kind = "package_manager_repair"
        /\ \E repaired \in BOOLEAN :
             End(rows, <<"phase", Done(repaired)>>, Result(repaired, FALSE, FALSE))

\* A check in which every package manager failed throws.
CheckEnds ==
  /\ Stopped /\ run.kind = "check"
  /\ LET status == IF run.ok THEN "success" ELSE IF run.some THEN "warning" ELSE "failed"
     IN End(Append(rows, status), <<Done(run.ok)>>, Result(run.some, FALSE, FALSE))

Next ==
  \/ Cancel \/ Refuse \/ Begin \/ Dial \/ Connected \/ ConnectFails \/ NothingToCheck
  \/ Noticed \/ Skip \/ StartStep \/ CommandCancelled \/ CommandThrows \/ MonitoringLost
  \/ NoCommand \/ Recheck \/ LostEnds \/ Rechecked \/ CheckEnds
  \/ \E success \in BOOLEAN :
       CommandEnds(success) \/ Reconnected(success) \/ RepairCommandEnds(success)
       \/ CheckCommandEnds(success) \/ Listed(success)
  \/ \E exit \in {"success", "broken", "failure"} : RebootCommandEnds(exit)

Spec == Init /\ [][Next]_vars

-------------------------------------------------------------------------------
IsDone(message) == message \in Dones

\* The pages hear of the end of an operation once and last, with the outcome that its
\* caller is given (of a check, that it failed is not an error to its caller).
ToldOnceAndLast ==
  \A i \in DOMAIN told :
    IsDone(told[i]) => i = Len(told) /\ pc = "over"
                       /\ (run.kind # "check" => told[i] = Done(answer.success))

\* When an operation is over, no row that it added still runs, except that of a command
\* that could not be run; and each row that failed under it is seen in its answer.
RowsAreOver ==
  pc = "over" =>
    /\ \A i \in DOMAIN rows :
         rows[i] \in {"queued", "started"}
           => \/ i = 1 /\ (run.queued \/ run.kind = "resume")
              \/ i = Len(rows) - 1 /\ rows[Len(rows)] = "failed" /\ ~answer.success
    /\ run.kind # "check" /\ Range(rows) \cap {"failed", "cancelled"} # {} => ~answer.success

\* An operation that lost its connection never answers with an unqualified success:
\* the managers behind were not upgraded, and what the command did was not seen.
LostIsTold ==
  pc = "over" /\ answer.success /\ run.kind # "resume" /\ "reconnecting" \in Range(told)
    => answer.warning

ReportsSound == ToldOnceAndLast /\ RowsAreOver /\ LostIsTold

\* Not so: nor does a row that waited for it.  Where an upgrade cannot connect, is cancelled
\* before its first command, or finds nothing to resume, that row stays as it is.
WaitingRowsAreOver ==
  pc = "over" /\ (run.queued \/ run.kind = "resume") /\ rows # <<>>
    => rows[1] \notin {"queued", "started"}

\* Not so: an operation that published anything publishes its end.  A repair that is
\* cancelled before or behind its commands, and a check that finds no package manager,
\* do not.
EndsAreTold == pc = "over" /\ told # <<>> => IsDone(told[Len(told)])

\* Not so: a repair that fails has a row.  Where it cannot connect, it has none.
FailuresHaveRows == pc = "over" /\ told # <<>> /\ ~answer.success => rows # <<>>

\* Not so: where an operation ends badly, the pages are told why.  A check that cannot
\* connect publishes no error.
ErrorsAreTold ==
  Done(FALSE) \in Range(told) => Range(told) \cap {"error", "warning"} # {}
================================================================================
