--------------------------- MODULE PersistentCommand ---------------------------
(***************************************************************************)
(* One SSH-safe command: the detached script on the host with its log and  *)
(* exit files (buildPersistentSetupCommand), and the dashboard that starts *)
(* it, tails it, cancels it, and after a loss of the connection looks for  *)
(* its result (runPersistentCommand and resumePersistentCommand of         *)
(* server/ssh/connection.ts, attemptReconnection of update-service.ts).    *)
(*                                                                         *)
(* A command the dashboard runs on the host is answered, or its answer is  *)
(* lost (runCommand then resolves with an empty output), or it throws      *)
(* because the connection is known to be gone.                             *)
(***************************************************************************)
EXTENDS Integers

CONSTANTS
  MaxAttempts  \* reconnection attempts in RECONNECT_TIMEOUT_MS

ASSUME AttemptsAssumption == MaxAttempts \in Nat \ {0}

VARIABLES
  proc,      \* the script: none, running, writing, written, ended or killed
  outcome,   \* the exit code it ended with
  log,       \* its log file exists
  exit,      \* its exit file: none, empty, ok or failed
  cleared,   \* the host cleared /tmp in a reboot (for the properties)
  link,      \* the connection is up
  place,     \* where the dashboard is
  known,     \* it knows the process id and the files
  asked,     \* the operation was cancelled
  code,      \* what it read from the exit file
  attempts,
  result     \* how the operation counts the command

commandVars ==
  <<proc, outcome, log, exit, cleared, link, place, known, asked, code, attempts, result>>
host == <<proc, outcome, log, exit, cleared>>
dash == <<place, known, asked, code, attempts, result>>

Codes == {"ok", "failed"}
Alive == {"running", "writing", "written"}
Results == {"read", "unreadable", "notStarted", "threw", "cancelled", "lostAgain",
            "inferred", "timeout", "abandoned"}

CommandInit ==
  /\ proc = "none" /\ outcome = "none" /\ log = FALSE /\ exit = "none" /\ cleared = FALSE
  /\ link = TRUE /\ place = "setup" /\ known = FALSE /\ asked = FALSE
  /\ code = "none" /\ attempts = 0 /\ result = "none"

-----------------------------------------------------------------------------
(* The host. *)

\* The script's subshell ends; the redirection creates the exit file, and printf
\* writes the code.
CommandEnds ==
  /\ proc = "running"
  /\ proc' = "writing" /\ outcome' \in Codes /\ exit' = "empty"
  /\ UNCHANGED <<log, cleared, link, dash>>

WriteCode ==
  /\ proc = "writing"
  /\ proc' = "written" /\ exit' = outcome
  /\ UNCHANGED <<outcome, log, cleared, link, dash>>

ScriptExits ==
  /\ proc = "written" /\ proc' = "ended"
  /\ UNCHANGED <<outcome, log, exit, cleared, link, dash>>

\* The host reboots; /tmp may be kept or cleared.
Reboot ==
  /\ proc # "none"
  /\ proc' = IF proc \in Alive THEN "killed" ELSE proc
  /\ link' = FALSE
  /\ \/ UNCHANGED <<log, exit, cleared>>
     \/ log' = FALSE /\ exit' = "none" /\ cleared' = TRUE
  /\ UNCHANGED <<outcome, dash>>

Drop == link /\ link' = FALSE /\ UNCHANGED <<host, dash>>

-----------------------------------------------------------------------------
(* The dashboard: the answers of a command, and the end of the command. *)

Go(to) == place' = to
End(res) == place' = "over" /\ result' = res

\* A command ran on the host, or its answer was lost: the connection broke, or
\* the time was up.
Answered == link /\ UNCHANGED link
Lost == link' \in {link, FALSE}

\* rm -f of the log and the exit file, whose answer nobody awaits.
RemoveFiles == UNCHANGED <<log, exit>> \/ (link /\ log' = FALSE /\ exit' = "none")

\* The code that was read, if it was one, decides.
EndRead == End(IF code \in Codes THEN "read" ELSE "unreadable")

Cancel ==
  /\ ~asked /\ place # "over" /\ asked' = TRUE
  /\ UNCHANGED <<host, link, place, known, code, attempts, result>>

-----------------------------------------------------------------------------
(* runPersistentCommand *)

\* The setup command writes and starts the script...
Launch ==
  /\ place = "setup" /\ link /\ ~asked
  /\ proc' = "running" /\ log' = TRUE
  /\ Go("launched")
  /\ UNCHANGED <<outcome, exit, cleared, link, known, asked, code, attempts, result>>

\* ... and prints the process id and the files.
SetupAnswers ==
  /\ place = "launched" /\ Answered
  /\ known' = TRUE
  /\ Go(IF asked THEN "killing" ELSE "tailing")
  /\ UNCHANGED <<host, asked, code, attempts, result>>

\* The answer is lost, or names no process.
SetupFails ==
  /\ place \in {"setup", "launched"} /\ Lost
  /\ End("notStarted")
  /\ UNCHANGED <<host, known, asked, code, attempts>>

\* The abort settles the setup command.
SetupCancelled ==
  /\ place \in {"setup", "launched"} /\ asked
  /\ End("cancelled")
  /\ UNCHANGED <<host, link, known, asked, code, attempts>>

\* runTailMonitor ends a second after the process.
TailEnds ==
  /\ place = "tailing" /\ Answered /\ proc \notin Alive
  /\ Go("readExit")
  /\ UNCHANGED <<host, known, asked, code, attempts, result>>

\* The connection is gone, or the time is up: EXIT_MONITORING_LOST.
TailLost ==
  /\ place = "tailing" /\ Lost
  /\ Go("reconnecting")
  /\ UNCHANGED <<host, known, asked, code, attempts, result>>

\* applyAutoremove does not reconnect: the command ends with a warning.
Abandon ==
  /\ place = "reconnecting" /\ attempts = 0
  /\ End("abandoned")
  /\ UNCHANGED <<host, link, known, asked, code, attempts>>

TailCancelled ==
  /\ place = "tailing" /\ asked
  /\ Go("killing")
  /\ UNCHANGED <<host, link, known, asked, code, attempts, result>>

\* cancelPersistentCommand, whose errors are ignored.
Kill ==
  /\ place = "killing"
  /\ \/ /\ link /\ log' = FALSE /\ exit' = "none"
        /\ proc' = IF proc \in Alive THEN "killed" ELSE proc
     \/ UNCHANGED <<proc, log, exit>>
  /\ Lost /\ Go("killed")
  /\ UNCHANGED <<outcome, cleared, known, asked, code, attempts, result>>

KillAnswers ==
  /\ place = "killed"
  /\ End("cancelled")
  /\ UNCHANGED <<host, link, known, asked, code, attempts>>

\* MUTANT of ReadExit: what is no number counts as 0.
ReadExitDefaults ==
  /\ place = "readExit"
  /\ \/ Answered /\ code' = IF exit \in Codes THEN exit ELSE "ok"
     \/ Lost /\ code' = "ok"
  /\ Go("read")
  /\ UNCHANGED <<host, known, asked, attempts, result>>

\* cat of the exit file; an empty answer is no number.
ReadExit ==
  /\ place = "readExit"
  /\ \/ Answered /\ code' = exit
     \/ Lost /\ code' = "none"
  /\ Go("read")
  /\ UNCHANGED <<host, known, asked, attempts, result>>

\* The files are removed, and the command is over.
ReadDone ==
  /\ place = "read" /\ RemoveFiles
  /\ EndRead
  /\ UNCHANGED <<proc, outcome, cleared, link, known, asked, code, attempts>>

\* exec throws on a connection that is gone: the operation's catch block.
Throws ==
  /\ place \in {"setup", "tailing", "readExit"} /\ ~link
  /\ End("threw")
  /\ UNCHANGED <<host, link, known, asked, code, attempts>>

-----------------------------------------------------------------------------
(* attemptReconnection and resumePersistentCommand *)

\* MUTANT of Reconnect: the time limit is not looked at.
ReconnectForever ==
  /\ place = "reconnecting"
  /\ attempts' = IF attempts = MaxAttempts THEN attempts ELSE attempts + 1
  /\ \/ link' = TRUE /\ Go("checkLog")
     \/ link' = FALSE /\ UNCHANGED place
  /\ UNCHANGED <<host, known, asked, code, result>>

\* An attempt to connect.
Reconnect ==
  /\ place = "reconnecting" /\ attempts < MaxAttempts
  /\ attempts' = attempts + 1
  /\ \/ link' = TRUE /\ Go("checkLog")
     \/ link' = FALSE /\ UNCHANGED place
  /\ UNCHANGED <<host, known, asked, code, result>>

GiveUp ==
  /\ place = "reconnecting" /\ attempts = MaxAttempts
  /\ End("timeout")
  /\ UNCHANGED <<host, link, known, asked, code, attempts>>

\* test -f of the log file.
CheckLog ==
  /\ place = "checkLog"
  /\ \/ Answered /\ Go(IF log THEN "checkExit" ELSE "inferring")
     \/ Lost /\ Go("checkExit")
  /\ UNCHANGED <<host, known, asked, code, attempts, result>>

\* test -f of the exit file.
CheckExit ==
  /\ place = "checkExit"
  /\ \/ Answered /\ Go(IF exit # "none" THEN "catExit" ELSE "checkPid")
     \/ Lost /\ Go("checkPid")
  /\ UNCHANGED <<host, known, asked, code, attempts, result>>

\* MUTANT of CatExit: the files are removed at once, before the log is read.
CatExitRemoves ==
  /\ place = "catExit" /\ RemoveFiles
  /\ \/ Answered /\ code' = exit
     \/ Lost /\ code' = "none"
  /\ Go("catLog")
  /\ UNCHANGED <<proc, outcome, cleared, known, asked, attempts, result>>

CatExit ==
  /\ place = "catExit"
  /\ \/ Answered /\ code' = exit
     \/ Lost /\ code' = "none"
  /\ Go("catLog")
  /\ UNCHANGED <<host, known, asked, attempts, result>>

CatLog ==
  /\ place = "catLog" /\ Lost
  /\ Go("read")
  /\ UNCHANGED <<host, known, asked, code, attempts, result>>

\* Is /proc/PID there?  After a reboot another process may have the number.  Any
\* answer but "alive" means dead: the files are removed.
CheckPid ==
  /\ place = "checkPid"
  /\ \/ /\ Answered /\ proc \in Alive \union {"killed"} /\ Go("tailAgain")
        /\ UNCHANGED <<log, exit>>
     \/ Answered /\ proc \notin Alive /\ RemoveFiles /\ Go("inferring")
     \/ Lost /\ RemoveFiles /\ Go("inferring")
  /\ UNCHANGED <<proc, outcome, cleared, known, asked, code, attempts, result>>

\* The second tail ends with the process, or is lost: then -2 is taken for the
\* exit code.
TailAgain ==
  /\ place = "tailAgain"
  /\ \/ Answered /\ proc \notin Alive /\ Go("readAgain") /\ UNCHANGED result
     \/ Lost /\ End("lostAgain")
  /\ UNCHANGED <<host, known, asked, code, attempts>>

\* MUTANT of ReadAgain: what is no number counts as 0.
ReadAgainDefaults ==
  /\ place = "readAgain"
  /\ \/ Answered /\ code' = IF exit \in Codes THEN exit ELSE "ok"
     \/ Lost /\ code' = "ok"
  /\ Go("read")
  /\ UNCHANGED <<host, known, asked, attempts, result>>

ReadAgain ==
  /\ place = "readAgain"
  /\ \/ Answered /\ code' = exit
     \/ Lost /\ code' = "none"
  /\ Go("read")
  /\ UNCHANGED <<host, known, asked, attempts, result>>

\* The connection is known to be gone: the next attempt.
AttemptThrows ==
  /\ place \in {"checkLog", "checkExit", "catExit", "catLog", "checkPid", "tailAgain", "readAgain"}
  /\ ~link
  /\ Go("reconnecting") /\ code' = "none"
  /\ UNCHANGED <<host, link, known, asked, attempts, result>>

\* EXIT_FILES_GONE: the number of updates before and after a check decides.
Infer ==
  /\ place = "inferring"
  /\ End("inferred")
  /\ UNCHANGED <<host, link, known, asked, code, attempts>>

-----------------------------------------------------------------------------
(* The specification. *)

Step ==
  \/ Launch \/ SetupAnswers \/ SetupFails \/ SetupCancelled \/ TailEnds \/ TailLost \/ Abandon
  \/ TailCancelled \/ Kill \/ KillAnswers \/ ReadExit \/ ReadDone \/ Throws \/ Reconnect \/ GiveUp
  \/ CheckLog \/ CheckExit \/ CatExit \/ CatLog \/ CheckPid \/ TailAgain \/ ReadAgain
  \/ AttemptThrows \/ Infer

CommandNext == Step \/ Cancel \/ CommandEnds \/ WriteCode \/ ScriptExits \/ Reboot \/ Drop

CommandSpec == CommandInit /\ [][CommandNext]_commandVars

\* Every command and every wait of the dashboard has a time limit; nothing is
\* assumed about the command on the host.
FairCommandSpec == CommandSpec /\ WF_commandVars(Step)

-----------------------------------------------------------------------------
(* Properties. *)

Places == {"setup", "launched", "tailing", "killing", "killed", "readExit", "read", "reconnecting",
             "checkLog", "checkExit", "catExit", "catLog", "checkPid", "tailAgain",
             "readAgain", "inferring", "over"}

Flags ==
  /\ log \in BOOLEAN /\ cleared \in BOOLEAN /\ link \in BOOLEAN
  /\ known \in BOOLEAN /\ asked \in BOOLEAN

Values ==
  /\ proc \in {"none", "ended", "killed"} \union Alive
  /\ outcome \in {"none"} \union Codes
  /\ exit \in {"none", "empty"} \union Codes
  /\ code \in {"none", "empty"} \union Codes
  /\ place \in Places
  /\ attempts \in 0..MaxAttempts
  /\ result \in {"none"} \union Results
  /\ (result = "none") <=> (place # "over")

\* Every variable has its type; a result goes with the end.
CommandTypeOK == Flags /\ Values

\* An exit code the operation reports is the one the command ended with.
ReadCodeIsReal == result = "read" => code = outcome

\* As long as nothing was read, a failed attempt has destroyed nothing: the code
\* of a script that ended is still in its file for the next attempt, unless the
\* host cleared /tmp.
RetryKeepsCode ==
  place \in {"reconnecting", "checkLog", "checkExit", "catExit", "catLog", "checkPid"} =>
    (proc = "ended" /\ ~cleared => exit = outcome)

\* Whatever happens to the connection, the host and the script, the operation
\* learns something and goes on.
EventuallyOver == <>(result # "none")

\* The detached command, as README.md describes it.
Report ==
  CASE result = "none" -> "none"
    [] result = "read" -> code
    [] result = "cancelled" -> "cancelled"
    [] OTHER -> "unknown"

CommandState ==
  CASE proc = "none" -> "none"
    [] proc = "killed" /\ outcome = "none" -> "killed"
    [] outcome \in Codes -> outcome
    [] OTHER -> "running"

Promise == INSTANCE DetachedCommand WITH command <- CommandState, report <- Report
ImplementsPromise == Promise!Spec

-----------------------------------------------------------------------------
(* What comments of the source say, and the code does not keep. *)

\* connection.ts:1136, "PID is dead but no exit file", the process was "killed ...
\* before it could write the exit code": only then the result is inferred.
InferredMeansKilled == [][place = "checkPid" /\ place' = "inferring" => proc = "killed"]_commandVars

\* update-service.ts:637, "Files existed - we got an actual result": what a
\* reconnection returns without inference was read.
ReconnectionReads == result # "lostAgain"

\* A command reported as cancelled does not run on ("Cancel the running command",
\* client/locales/en.json:879) while the host can be reached.
CancelledIsStopped == result = "cancelled" /\ link => proc \notin Alive
=============================================================================
