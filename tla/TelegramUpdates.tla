---------------------------- MODULE TelegramUpdates ----------------------------
(***************************************************************************)
(* The workers that take a bot's updates from Telegram and run its         *)
(* commands (services/telegram-bot.ts): long polling with an offset that   *)
(* acknowledges, confirmations kept in memory between a prompt and the     *)
(* press of its button, workers stopped and started as the channel is      *)
(* edited, and restarts of the process.                                    *)
(***************************************************************************)
EXTENDS Integers, Sequences

CONSTANTS Requests,          \* edits of the channel in progress at a time
          MaxUpdates,        \* bound: updates ever sent
          MaxConfirmations,  \* bound: confirmations ever created
          MaxWorkers,        \* bound: workers ever started
          MaxRestarts        \* bound: restarts of the process

VARIABLES enabled,    \* a channel of this bot is enabled
          sync,       \* each request: whether its sync() waits for the bot's menu
          current,    \* workers: the bot's worker, 0 for none
          worker,
          sent,       \* at Telegram: the updates in order; ids are positions
          acked,      \* and the last one acknowledged
          pending,    \* pendingConfirmations
          created,    \* confirmations created, and their buttons shown
          handled,    \* updates that processUpdate has returned from, or failed with
          executed,   \* each confirmation: how often its command was started
          cancelled,  \* confirmations answered with "Cancelled."
          restarts

vars == <<enabled, sync, current, worker, sent, acked, pending, created, handled,
          executed, cancelled, restarts>>

Updates == 1 .. MaxUpdates
Confirmations == 1 .. MaxConfirmations
Workers == 1 .. MaxWorkers

\* A command that asks for confirmation, and the buttons of one.
Update == {<<"ask", 0>>} \cup ({"confirm", "cancel"} \X Confirmations)

\* A batch is what is left of it: the updates from next to last.
Unused == [pc |-> "none", stop |-> FALSE, offset |-> 0, next |-> 1, last |-> 0]

TypeOK ==
  /\ enabled \in BOOLEAN /\ sync \in [Requests -> {"idle", "menu"}]
  /\ current \in Workers \cup {0}
  /\ \A w \in Workers :
       /\ worker[w].pc \in {"none", "loop", "polling", "batch", "asking", "confirmed", "gone"}
       /\ worker[w].offset \in 0 .. MaxUpdates + 1
  /\ sent \in Seq(Update) /\ acked \in 0 .. Len(sent)
  /\ pending \subseteq 1 .. created /\ created \in 0 .. MaxConfirmations
  /\ handled \subseteq Updates /\ cancelled \subseteq Confirmations

Init ==
  /\ enabled = TRUE /\ sync = [q \in Requests |-> "idle"]
  /\ current = 1 /\ worker = [w \in Workers |-> IF w = 1 THEN [Unused EXCEPT !.pc = "loop"]
                                                         ELSE Unused]
  /\ sent = <<>> /\ acked = 0 /\ pending = {} /\ created = 0 /\ handled = {}
  /\ executed = [c \in Confirmations |-> 0] /\ cancelled = {} /\ restarts = 0

Stays == UNCHANGED <<enabled, sync, current, restarts>>
Go(w, pc) == worker' = [worker EXCEPT ![w].pc = pc]

-------------------------------------------------------------------------------
(* sync(): a worker whose bot is not active is stopped at once; a missing  *)
(* one is started after the bot's menu was sent to Telegram.               *)
Edit(q) ==
  /\ sync[q] = "idle"
  /\ enabled' = ~enabled
  /\ IF enabled'
     THEN sync' = [sync EXCEPT ![q] = "menu"] /\ UNCHANGED <<current, worker>>
     ELSE /\ current' = 0
          /\ worker' = IF current = 0 THEN worker ELSE [worker EXCEPT ![current].stop = TRUE]
          /\ UNCHANGED sync
  /\ UNCHANGED <<sent, acked, pending, created, handled, executed, cancelled, restarts>>

StartWorker(q) ==
  /\ sync[q] = "menu"
  /\ sync' = [sync EXCEPT ![q] = "idle"]
  /\ IF current # 0 THEN UNCHANGED <<current, worker>>
     ELSE \E w \in Workers :
            /\ worker[w].pc = "none" /\ \A v \in Workers : v < w => worker[v].pc # "none"
            /\ worker' = [worker EXCEPT ![w].pc = "loop"]
            /\ current' = w
  /\ UNCHANGED <<enabled, sent, acked, pending, created, handled, executed, cancelled, restarts>>

\* The process dies with all it keeps in memory; start() syncs.
Restart ==
  /\ restarts < MaxRestarts
  /\ restarts' = restarts + 1
  /\ worker' = [w \in Workers |-> IF worker[w].pc = "none" THEN Unused
                                                           ELSE [Unused EXCEPT !.pc = "gone"]]
  /\ current' = 0 /\ pending' = {}
  /\ \E q \in Requests :
       sync' = [p \in Requests |-> IF p = q /\ enabled THEN "menu" ELSE "idle"]
  /\ UNCHANGED <<enabled, sent, acked, created, handled, executed, cancelled>>

-------------------------------------------------------------------------------
\* runWorker: the stop flag is read between two polls only.
Poll(w) ==
  /\ worker[w].pc = "loop"
  /\ Go(w, IF worker[w].stop THEN "gone" ELSE "polling")
  /\ Stays /\ UNCHANGED <<sent, acked, pending, created, handled, executed, cancelled>>

\* Telegram drops what is before the offset and returns what is left.
Acknowledge(w) == acked' = IF worker[w].offset - 1 > acked THEN worker[w].offset - 1 ELSE acked

Receive(w) ==
  /\ worker[w].pc = "polling"
  /\ Acknowledge(w)
  /\ worker' = [worker EXCEPT ![w].pc = "batch", ![w].next = acked' + 1, ![w].last = Len(sent)]
  /\ Stays /\ UNCHANGED <<sent, pending, created, handled, executed, cancelled>>

\* The request is lost, refused (another poll of the bot), or its answer lost.
PollFails(w) ==
  /\ worker[w].pc = "polling"
  /\ Acknowledge(w) \/ UNCHANGED acked
  /\ Go(w, "loop")
  /\ Stays /\ UNCHANGED <<sent, pending, created, handled, executed, cancelled>>

BatchEnds(w) ==
  /\ worker[w].pc = "batch" /\ worker[w].next > worker[w].last
  /\ Go(w, "loop")
  /\ Stays /\ UNCHANGED <<sent, acked, pending, created, handled, executed, cancelled>>

\* Mutant: taking the first update of a batch acknowledges all of it.
TakenAll(w, pc) == worker' = [worker EXCEPT ![w].pc = pc, ![w].offset = worker[w].last + 1,
                                            ![w].next = @ + 1]

\* The update the worker takes next, and the one it is at (the last taken).
Taken(w, pc) == worker' = [worker EXCEPT ![w].pc = pc, ![w].offset = worker[w].next + 1,
                                         ![w].next = @ + 1]
Takes(w, what) == /\ worker[w].pc = "batch" /\ worker[w].next <= worker[w].last
                  /\ sent[worker[w].next][1] = what
Button(w) == sent[worker[w].next][2]
Now(w) == worker[w].next - 1

\* The answer to the chat is sent, or fails and the rest is polled again.
Answered(w) == handled' = handled \cup {Now(w)} /\ (Go(w, "batch") \/ Go(w, "loop"))

\* processUpdate fails (the database): the rest is polled again.
Throws(w) ==
  /\ worker[w].pc = "batch" /\ worker[w].next <= worker[w].last
  /\ Taken(w, "loop")
  /\ handled' = handled \cup {worker[w].next}
  /\ Stays /\ UNCHANGED <<sent, acked, pending, created, executed, cancelled>>

\* A command waits for the dashboard's API.
TakeCommand(w) ==
  /\ Takes(w, "ask")
  /\ Taken(w, "asking")
  /\ Stays /\ UNCHANGED <<sent, acked, pending, created, handled, executed, cancelled>>

\* createConfirmation, or the command is refused.
Ask(w) ==
  /\ worker[w].pc = "asking"
  /\ \/ created < MaxConfirmations /\ created' = created + 1 /\ pending' = pending \cup {created'}
     \/ UNCHANGED <<created, pending>>
  /\ Answered(w)
  /\ Stays /\ UNCHANGED <<sent, acked, executed, cancelled>>

Expired(w) ==
  /\ Takes(w, "confirm") \/ Takes(w, "cancel")
  /\ Button(w) \notin pending
  /\ Taken(w, "batch")
  /\ handled' = handled \cup {worker[w].next}
  /\ Stays /\ UNCHANGED <<sent, acked, pending, created, executed, cancelled>>

\* Mutant: the user is told that it is cancelled, and the confirmation stays.
CancelKeepsPending(w) ==
  /\ Takes(w, "cancel") /\ Button(w) \in pending
  /\ Taken(w, "batch")
  /\ cancelled' = cancelled \cup {Button(w)}
  /\ handled' = handled \cup {worker[w].next}
  /\ Stays /\ UNCHANGED <<sent, acked, pending, created, executed>>

Cancel(w) ==
  /\ Takes(w, "cancel") /\ Button(w) \in pending
  /\ Taken(w, "batch")
  /\ pending' = pending \ {Button(w)}
  /\ cancelled' = cancelled \cup {Button(w)}
  /\ handled' = handled \cup {worker[w].next}
  /\ Stays /\ UNCHANGED <<sent, acked, created, executed>>

(* The confirmation is gone before the answer to the press is awaited, and *)
(* the channel and its systems are read again after it.                    *)
Confirm(w) ==
  /\ Takes(w, "confirm") /\ Button(w) \in pending
  /\ Taken(w, "confirmed")
  /\ pending' = pending \ {Button(w)}
  /\ Stays /\ UNCHANGED <<sent, acked, created, handled, executed, cancelled>>

\* Started, unless the channel is disabled by now or something else refuses.
Execute(w) ==
  LET c == sent[Now(w)][2] IN
  /\ worker[w].pc = "confirmed"
  /\ \/ enabled /\ executed' = [executed EXCEPT ![c] = @ + 1]
     \/ UNCHANGED executed
  /\ pending' = pending \ {c}
  /\ Answered(w)
  /\ Stays /\ UNCHANGED <<sent, acked, created, cancelled>>

-------------------------------------------------------------------------------
\* The user: commands, and presses of buttons shown, as often as they like.
Send ==
  /\ Len(sent) < MaxUpdates
  /\ \E u \in Update : u[2] <= created /\ sent' = Append(sent, u)
  /\ Stays /\ UNCHANGED <<worker, acked, pending, created, handled, executed, cancelled>>

\* cleanupExpiringState
Expire ==
  /\ \E c \in pending : pending' = pending \ {c}
  /\ Stays /\ UNCHANGED <<worker, sent, acked, created, handled, executed, cancelled>>

Next ==
  \/ Send \/ Expire \/ Restart
  \/ \E q \in Requests : Edit(q) \/ StartWorker(q)
  \/ \E w \in Workers :
       \/ Poll(w) \/ Receive(w) \/ PollFails(w) \/ BatchEnds(w) \/ Throws(w)
       \/ TakeCommand(w) \/ Ask(w) \/ Expired(w) \/ Cancel(w) \/ Confirm(w) \/ Execute(w)

Spec == Init /\ [][Next]_vars

-------------------------------------------------------------------------------
(* A confirmation is used once: although a worker that was stopped still   *)
(* finishes the updates its successor gets again, its command is started   *)
(* at most once, and never when the user was told that it is cancelled.    *)
ConfirmedOnce ==
  \A c \in Confirmations : executed[c] <= 1 /\ (c \in cancelled => executed[c] = 0)

(* Telegram forgets no update that was not handled, whatever failed or     *)
(* was restarted in between.                                               *)
AckedWereHandled == 1 .. acked \subseteq handled

UpdatesSound == ConfirmedOnce /\ AckedWereHandled

\* Not so: a sync that waited for the menu starts a worker for a disabled bot.
WorkerOfEnabled == (\A q \in Requests : sync[q] = "idle") => (current # 0 <=> enabled)
================================================================================
