---------------------------- MODULE TelegramChannel ----------------------------
(***************************************************************************)
(* The stored side of one Telegram channel (services/telegram-bot.ts): the *)
(* bot it uses, the chat bound to it and the API token its commands run    *)
(* with.  Requests of the web interface and the bot's own worker read the  *)
(* whole configuration, wait for the network or a hash, and write the      *)
(* whole configuration back.                                               *)
(***************************************************************************)
EXTENDS Integers

CONSTANTS Bots, Chats,
          Requests,   \* requests of the web interface in progress at a time
          None,
          MaxTokens,  \* bound: API tokens ever issued
          MaxLinks,   \* bound: connect links of a bot outstanding at a time
          MaxEdits    \* bound: edits of the channel

VARIABLES saved,   \* the row exists
          row,     \* its configuration
          tokens,  \* api_tokens: those of Telegram channels
          issued,
          links,   \* linkRequests: how many of each bot
          op,      \* what each request and each bot's worker waits for
          edits,
          overtaken, \* history: requests that wait for a bot's name while another one
                     \* edits the channel, or revokes or issues its token
          late       \* history: the token of the row was written by one of these

vars == <<saved, row, tokens, issued, links, op, edits, overtaken, late>>
history == <<overtaken, late>>

Actors == Requests \cup Bots
Tokens == 1 .. MaxTokens

BindingAssumption ==
  /\ MaxTokens \in Nat /\ MaxLinks \in Nat /\ None \notin Bots \cup Chats
  /\ Requests \cap Bots = {}

Config == [bot : Bots \cup {None}, commands : BOOLEAN, chat : Chats \cup {None},
           status : {"unbound", "pending", "bound"}, token : Tokens \cup {0}]
Fresh == [bot |-> None, commands |-> FALSE, chat |-> None, status |-> "unbound", token |-> 0]
Idle == [pc |-> "idle", snapshot |-> Fresh]

TypeOK ==
  /\ saved \in BOOLEAN /\ row \in Config /\ tokens \subseteq Tokens
  /\ issued \in 0 .. MaxTokens /\ links \in [Bots -> 0 .. MaxLinks]
  /\ op \in [Actors -> [pc : {"idle", "naming", "hashing"}, snapshot : Config]]
  /\ edits \in 0 .. MaxEdits
  /\ overtaken \subseteq Requests /\ late \in BOOLEAN

Init ==
  /\ saved = TRUE
  /\ row \in [bot : Bots \cup {None}, commands : BOOLEAN, chat : {None},
              status : {"unbound"}, token : {0}]
  /\ tokens = {} /\ issued = 0 /\ links = [b \in Bots |-> 0]
  /\ op = [a \in Actors |-> Idle] /\ edits = 0
  /\ overtaken = {} /\ late = FALSE

Unbound(c) == [c EXCEPT !.chat = None, !.status = "unbound", !.token = 0]
NeedsToken(c) == c.commands /\ c.chat # None /\ c.bot # None

Waits(a, pc, c) == op' = [op EXCEPT ![a] = [pc |-> pc, snapshot |-> c]]

\* Request q overtakes the others; a row without a token has none that came late.
Overtakes(q) ==
  /\ overtaken' = {r \in Requests \ {q} : op[r].pc = "naming"}
  /\ late' = (late /\ row'.token # 0)

(* reconcileTelegramConfig for the configuration c just written: another   *)
(* bot unbinds the chat, a token that is not needed is revoked, and one    *)
(* that is missing is hashed first and written with c when that is done.   *)
Reconcile(a, previousBot, c) ==
  IF previousBot # c.bot \/ ~NeedsToken(c)
  THEN /\ row' = IF previousBot # c.bot THEN Unbound(c) ELSE [c EXCEPT !.token = 0]
       /\ tokens' = tokens \ {c.token}
       /\ UNCHANGED op
  ELSE /\ row' = c
       /\ IF c.token = 0 THEN Waits(a, "hashing", c) ELSE UNCHANGED op
       /\ UNCHANGED tokens

(* ensureCommandToken after its hash: the token is stored and the          *)
(* configuration the caller holds is written with it, if there is a row.   *)
Issue(a) ==
  /\ op[a].pc = "hashing" /\ issued < MaxTokens
  /\ issued' = issued + 1
  /\ tokens' = tokens \cup {issued'}
  /\ row' = IF saved THEN [op[a].snapshot EXCEPT !.token = issued'] ELSE row
  /\ op' = [op EXCEPT ![a] = Idle]
  /\ IF a \in Requests
     THEN overtaken' = {r \in Requests \ {a} : op[r].pc = "naming"} /\ late' = FALSE
     ELSE UNCHANGED history
  /\ UNCHANGED <<saved, links, edits>>

-------------------------------------------------------------------------------
\* PUT /notifications/:id; a channel with a chat keeps a bot.
Edit(q) ==
  /\ op[q].pc = "idle" /\ saved /\ edits < MaxEdits
  /\ \E b \in Bots \cup {None}, on \in BOOLEAN :
       /\ b = None => row.chat = None
       /\ Reconcile(q, row.bot, [row EXCEPT !.bot = b, !.commands = on])
  /\ edits' = edits + 1
  /\ Overtakes(q)
  /\ UNCHANGED <<saved, issued, links>>

Delete(q) ==
  /\ op[q].pc = "idle" /\ saved
  /\ saved' = FALSE
  /\ tokens' = tokens \ {row.token}
  /\ UNCHANGED row /\ Overtakes(q)
  /\ UNCHANGED << issued, links, op, edits>>

\* createBindingLink reads the row and asks Telegram for the bot's name.
LinkBegins(q) ==
  /\ op[q].pc = "idle" /\ saved /\ row.bot # None
  /\ Waits(q, "naming", row)
  /\ UNCHANGED <<saved, row, tokens, issued, links, edits, history>>

LinkEnds(q) ==
  LET c == op[q].snapshot IN
  /\ op[q].pc = "naming"
  /\ \/ /\ links[c.bot] < MaxLinks
        /\ links' = [links EXCEPT ![c.bot] = @ + 1]
        /\ row' = IF saved THEN [c EXCEPT !.status = "pending"] ELSE row
        /\ late' = (late \/ q \in overtaken)
     \/ UNCHANGED <<links, row, late>>
  /\ overtaken' = overtaken \ {q}
  /\ op' = [op EXCEPT ![q] = Idle]
  /\ UNCHANGED <<saved, tokens, issued, edits>>

Unlink(q) ==
  /\ op[q].pc = "idle" /\ saved
  /\ tokens' = tokens \ {row.token}
  /\ row' = Unbound(row)
  /\ Overtakes(q)
  /\ UNCHANGED <<saved, issued, links, op, edits>>

\* Mutant: the old token stays in the snapshot until the new one is written.
ReissueKeepsToken(q) ==
  /\ op[q].pc = "idle" /\ saved /\ NeedsToken(row)
  /\ tokens' = tokens \ {row.token}
  /\ IF row.token = 0 THEN Waits(q, "hashing", row) ELSE UNCHANGED op
  /\ UNCHANGED row /\ Overtakes(q)
  /\ UNCHANGED <<saved, issued, links, edits>>

\* The old token is revoked before the new one is hashed.
Reissue(q) ==
  /\ op[q].pc = "idle" /\ saved /\ NeedsToken(row)
  /\ tokens' = tokens \ {row.token}
  /\ Waits(q, "hashing", [row EXCEPT !.token = 0])
  /\ UNCHANGED row /\ Overtakes(q)
  /\ UNCHANGED <<saved, issued, links, edits>>

-------------------------------------------------------------------------------
\* A /start with the link's nonce reaches the worker of its bot.
LinkStart(b) ==
  /\ op[b].pc = "idle" /\ links[b] > 0
  /\ links' = [links EXCEPT ![b] = @ - 1]
  /\ IF saved
     THEN \E chat \in Chats :
            Reconcile(b, row.bot, [row EXCEPT !.chat = chat, !.status = "bound"])
     ELSE UNCHANGED <<row, tokens, op>>
  /\ UNCHANGED <<saved, issued, edits, history>>

LinkExpires ==
  /\ \E b \in Bots : links[b] > 0 /\ links' = [links EXCEPT ![b] = @ - 1]
  /\ UNCHANGED <<saved, row, tokens, issued, op, edits, history>>

Next ==
  \/ LinkExpires
  \/ \E q \in Requests :
       Edit(q) \/ Delete(q) \/ LinkBegins(q) \/ LinkEnds(q) \/ Unlink(q) \/ Reissue(q)
  \/ \E b \in Bots : LinkStart(b)
  \/ \E a \in Actors : Issue(a)

Spec == Init /\ [][Next]_vars

-------------------------------------------------------------------------------
(* The token the channel's commands run with is one the API accepts,       *)
(* unless it is being reissued, although links are used while the channel  *)
(* is edited, or unless it was brought back by a request that another one  *)
(* overtook while it asked for the name of the bot.                        *)
CommandTokenValid ==
  saved /\ row.token # 0 /\ ~late /\ (\A q \in Requests : op[q].pc # "hashing")
    => row.token \in tokens

(* Not so: the request that was overtaken writes the token back that the   *)
(* other one has revoked.                                                  *)
StoredTokenValid ==
  saved /\ row.token # 0 /\ (\A q \in Requests : op[q].pc # "hashing") => row.token \in tokens

\* Not so: an issued token whose write came too late stays in the database.
NoTokenLeft == (\A a \in Actors : op[a].pc = "idle") => tokens \subseteq {row.token}

\* Not so: a write of an older configuration takes a bound chat away again.
KeepsChat == row.status = "bound" /\ row'.status = "pending" => row'.chat = row.chat
BoundStays == [][KeepsChat]_vars
================================================================================
