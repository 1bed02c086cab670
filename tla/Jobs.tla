---------------------------------- MODULE Jobs ----------------------------------
(***************************************************************************)
(* The jobs of the HTTP API (routes/updates.ts): an operation that a tab   *)
(* or the Telegram bot asks for is started at once, and its result is      *)
(* polled for by the id in the answer.  Jobs are kept in memory, and for   *)
(* five minutes after their end.                                           *)
(*                                                                         *)
(* One tab with the systems it marks as being upgraded (UpgradeContext),   *)
(* and the data of its dashboard, which clears marks.  The calls are       *)
(* upgrades: checks, repairs and autoremoves are jobs too, without a mark. *)
(* The text of results is left out, and so is the live output, which       *)
(* clears the mark of a system whose page is open.                         *)
(***************************************************************************)
EXTENDS Integers, FiniteSets

CONSTANTS Systems, None,
          Calls,       \* the calls that the tab and the bot may make
          Bot,         \* those of the bot
          SystemOf,    \* of each call
          KindOf,      \* of each call: an upgrade of all packages, a full one, ...
          Awaited,     \* the kinds the tab awaits (mutateAsync)
          Results,     \* the statuses of results
          MaxRestarts  \* bound

VARIABLES jobs,       \* the map in memory, by id
          given,      \* the ids given out: they are random, and never come again
          call,       \* of each call: what its caller knows
          ended,      \* what really became of the operation of each call
          latest,     \* of each kind of upgrade, a mutation of the tab: its last call
          marks,      \* upgradingSystems
          answer,     \* to a request for the dashboard, on its way
          restarts    \* so far

vars == <<jobs, given, call, ended, latest, marks, answer, restarts>>

Ids == 1 .. Cardinality(Calls)
Pages == Calls \ Bot
Kinds == {KindOf[c] : c \in Calls}
Over == Results \cup {"error"}     \* error: it threw

States == {"waiting", "upgrading", "rechecking"} \cup Over
JobRow == [call : Calls, state : States]
CallRow == [job : Ids \cup {None}, pc : {"posting", "starting", "polling", "told", "done"},
            told : Over \cup {"unknown", None}]

JobsAssumption ==
  /\ IsFiniteSet(Calls)
  /\ Results \cap {"error", "unknown", "waiting", "upgrading", "rechecking"} = {}
  /\ None \notin Ids /\ None \notin Over /\ None \notin JobRow /\ None \notin CallRow

TypeOK ==
  /\ given \in 0 .. Cardinality(Calls)
  /\ jobs \in [Ids -> JobRow \cup {None}]
  /\ call \in [Calls -> CallRow \cup {None}]
  /\ ended \in [Calls -> Over \cup {None}]
  /\ latest \in [Kinds -> Pages \cup {None}]
  /\ marks \subseteq Systems
  /\ answer \in (SUBSET Systems) \cup {None}
  /\ restarts \in 0 .. MaxRestarts

Init ==
  /\ jobs = [i \in Ids |-> None] /\ given = 0
  /\ call = [c \in Calls |-> None] /\ ended = [c \in Calls |-> None]
  /\ latest = [k \in Kinds |-> None] /\ marks = {}
  /\ answer = None /\ restarts = 0

At(c, pc) == call[c] # None /\ call[c].pc = pc
Tell(c, told) == call' = [call EXCEPT ![c].pc = "told", ![c].told = told]

-------------------------------------------------------------------------------
\* A system that is marked has no button, and the bot knows no marks.
Ask(c) ==
  /\ call[c] = None
  /\ c \in Pages => SystemOf[c] \notin marks
  /\ call' = [call EXCEPT ![c] = [job |-> None, pc |-> "posting", told |-> None]]
  /\ marks' = IF c \in Pages THEN marks \cup {SystemOf[c]} ELSE marks
  /\ latest' = IF c \in Pages THEN [latest EXCEPT ![KindOf[c]] = c] ELSE latest
  /\ UNCHANGED <<jobs, given, ended, answer, restarts>>

\* startJob, whose answer is on its way; or the request is refused, or lost.
Post(c) ==
  /\ At(c, "posting")
  /\ \/ /\ given' = given + 1
        /\ jobs' = [jobs EXCEPT ![given'] = [call |-> c, state |-> "waiting"]]
        /\ call' = [call EXCEPT ![c].pc = "starting", ![c].job = given']
     \/ Tell(c, "error") /\ UNCHANGED <<jobs, given>>
  /\ UNCHANGED <<ended, latest, marks, answer, restarts>>

\* The answer may be lost: the job goes on.
Started(c) ==
  /\ At(c, "starting")
  /\ \/ call' = [call EXCEPT ![c].pc = "polling"]
     \/ Tell(c, "error")
  /\ UNCHANGED <<jobs, given, ended, latest, marks, answer, restarts>>

\* pollJob and awaitJobResult; a tab takes a job that is gone for lost in a restart.
Poll(c) ==
  /\ At(c, "polling")
  /\ LET job == jobs[call[c].job] IN
     \/ job = None /\ Tell(c, IF c \in Bot THEN "error" ELSE "unknown")
     \/ job # None /\ job.state \in Over /\ Tell(c, job.state)
  /\ UNCHANGED <<jobs, given, ended, latest, marks, answer, restarts>>

\* Out of attempts, or not authorised any more; the bot retries no request at all.
GiveUp(c) ==
  /\ At(c, "polling") /\ Tell(c, "error")
  /\ UNCHANGED <<jobs, given, ended, latest, marks, answer, restarts>>

(* The callback of a call, after its onSettled has read the data again:    *)
(* of a mutation that is not awaited only the last call has one.           *)
Callback(c) ==
  /\ At(c, "told")
  /\ call' = [call EXCEPT ![c].pc = "done"]
  /\ marks' = IF c \in Pages /\ (KindOf[c] \in Awaited \/ latest[KindOf[c]] = c)
              THEN marks \ {SystemOf[c]} ELSE marks
  /\ UNCHANGED <<jobs, given, ended, latest, answer, restarts>>

-------------------------------------------------------------------------------
On(i) == SystemOf[jobs[i].call]
InState(i, states) == jobs[i] # None /\ jobs[i].state \in states
Upgrading == {On(i) : i \in {j \in Ids : InState(j, {"upgrading"})}}

\* The operation waits for the lock of its system, and then becomes the active one.
Begin(i) ==
  /\ InState(i, {"waiting"})
  /\ \A j \in Ids : InState(j, {"upgrading", "rechecking"}) => On(j) # On(i)
  /\ jobs' = [jobs EXCEPT ![i].state = "upgrading"]
  /\ UNCHANGED <<given, call, ended, latest, marks, answer, restarts>>

Recheck(i) ==
  /\ InState(i, {"upgrading"})
  /\ jobs' = [jobs EXCEPT ![i].state = "rechecking"]
  /\ UNCHANGED <<given, call, ended, latest, marks, answer, restarts>>

End(i) ==
  /\ InState(i, {"upgrading", "rechecking"})
  /\ \E result \in Over :
       /\ jobs' = [jobs EXCEPT ![i].state = result]
       /\ ended' = [ended EXCEPT ![jobs[i].call] = result]
  /\ UNCHANGED <<given, call, latest, marks, answer, restarts>>

Expire(i) ==
  /\ InState(i, Over)
  /\ jobs' = [jobs EXCEPT ![i] = None]
  /\ UNCHANGED <<given, call, ended, latest, marks, answer, restarts>>

\* The calls of the bot go with the process.
Gone == [c \in Calls |-> IF c \in Bot /\ call[c] # None
                         THEN [call[c] EXCEPT !.pc = "done"] ELSE call[c]]

\* Mutant: jobs are counted, from one in every process.
RestartCounts ==
  /\ restarts < MaxRestarts /\ restarts' = restarts + 1
  /\ jobs' = [i \in Ids |-> None] /\ given' = 0
  /\ call' = Gone /\ answer' = None
  /\ UNCHANGED <<ended, latest, marks>>

Restart ==
  /\ restarts < MaxRestarts /\ restarts' = restarts + 1
  /\ jobs' = [i \in Ids |-> None]
  /\ call' = Gone /\ answer' = None
  /\ UNCHANGED <<given, ended, latest, marks>>

-------------------------------------------------------------------------------
\* The server reads the active operations; others than upgrades keep a mark, too.
ReadDashboard ==
  /\ \E others \in SUBSET Systems : answer' = Upgrading \cup others
  /\ UNCHANGED <<jobs, given, call, ended, latest, marks, restarts>>

\* Data that is newer than a mark clears it, if nothing is active.
ShowDashboard ==
  /\ answer # None
  /\ marks' = marks \cap answer /\ answer' = None
  /\ UNCHANGED <<jobs, given, call, ended, latest, restarts>>

Next ==
  \/ \E c \in Calls : Ask(c) \/ Post(c) \/ Started(c) \/ Poll(c) \/ GiveUp(c) \/ Callback(c)
  \/ \E i \in Ids : Begin(i) \/ Recheck(i) \/ End(i) \/ Expire(i)
  \/ Restart \/ ReadDashboard \/ ShowDashboard

Spec == Init /\ [][Next]_vars

-------------------------------------------------------------------------------
(* A result that a caller is told is what became of its own operation,     *)
(* although jobs are forgotten, also by restarts, while callers poll.      *)
ToldOfOwnJob ==
  \A c \in Calls : call[c] # None /\ call[c].told \in Results => call[c].told = ended[c]

\* Not so: an error is also told of operations that go on, or that succeeded.
ErrorsAreReal ==
  \A c \in Calls : call[c] # None /\ call[c].told = "error" /\ call[c].job # None => ended[c] = "error"

\* Not so: a tab that slept for five minutes finds no job either, and says the
\* same ("The backend restarted before the job result could be read").
UnknownAfterRestart ==
  (\E c \in Calls : call[c] # None /\ call[c].told = "unknown") => restarts > 0

\* Not so: the age of the data is that of its arrival.  What was read before the
\* upgrade had its turn, or started at all, clears the mark, and the button is back.
MarkedUntilOver ==
  \A c \in Pages :
    call[c] # None /\ call[c].pc \in {"posting", "starting", "polling"}
      /\ (call[c].job # None => InState(call[c].job, {"waiting", "upgrading"}))
        => SystemOf[c] \in marks
================================================================================
