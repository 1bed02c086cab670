------------------------------ MODULE LiveOutput ------------------------------
(***************************************************************************)
(* The live output of one system: the stream the server keeps              *)
(* (services/output-stream.ts), the WebSocket connections of the pages     *)
(* that show it (app.ts), and what a page has on its screen                *)
(* (hooks/useCommandOutput.ts).  A connection delivers in order, and may   *)
(* break at any time with whatever it still carries; the page reconnects.  *)
(***************************************************************************)
EXTENDS Integers, SequencesExt

CONSTANTS Pages,
          MaxMessages,   \* bound: messages published
          MaxResets,     \* bound: operations, removals and restarts
          MaxBreaks      \* bound: connections lost

VARIABLES stream,      \* streams: whether the system has one
          buffer,      \* its messages, which are numbers
          subscribed,  \* its subscribers: pages with a working connection
          pipe,        \* what each connection carries
          screen,      \* messages of each page
          cleared,     \* the screen was cleared when, or since, it connected
          published, resets, breaks

vars == <<stream, buffer, subscribed, pipe, screen, cleared, published, resets, breaks>>

Reset == 0
Message == 1 .. MaxMessages

TypeOK ==
  /\ stream \in BOOLEAN /\ buffer \in Seq(Message) /\ subscribed \subseteq Pages
  /\ \A p \in Pages : pipe[p] \in Seq(Message \cup {Reset}) /\ screen[p] \in Seq(Message)
  /\ cleared \in [Pages -> BOOLEAN]
  /\ published \in 0 .. MaxMessages /\ resets \in 0 .. MaxResets /\ breaks \in 0 .. MaxBreaks

Init ==
  /\ stream = FALSE /\ buffer = <<>> /\ subscribed = {}
  /\ pipe = [p \in Pages |-> <<>>] /\ screen = [p \in Pages |-> <<>>]
  /\ cleared = [p \in Pages |-> FALSE]
  /\ published = 0 /\ resets = 0 /\ breaks = 0

Broadcast(m) ==
  pipe' = [p \in Pages |-> IF p \in subscribed THEN Append(pipe[p], m) ELSE pipe[p]]

\* A page connects, or connects again: the whole buffer is sent, or a reset.
Subscribe(p) ==
  /\ p \notin subscribed
  /\ stream' = TRUE
  /\ subscribed' = subscribed \cup {p}
  /\ pipe' = [pipe EXCEPT ![p] = IF buffer = <<>> THEN <<Reset>> ELSE buffer]
  /\ cleared' = [cleared EXCEPT ![p] = buffer = <<>> \/ screen[p] = <<>>]
  /\ UNCHANGED <<buffer, screen, published, resets, breaks>>

Publish ==
  /\ published < MaxMessages
  /\ published' = published + 1
  /\ stream' = TRUE
  /\ buffer' = Append(buffer, published')
  /\ Broadcast(published')
  /\ UNCHANGED <<subscribed, screen, cleared, resets, breaks>>

\* Mutant: the buffer of the last operation is dropped without telling anybody.
ResetStreamSilently ==
  /\ resets < MaxResets
  /\ resets' = resets + 1
  /\ stream /\ buffer' = <<>>
  /\ UNCHANGED <<stream, subscribed, pipe, screen, cleared, published, breaks>>

\* An operation begins.
ResetStream ==
  /\ resets < MaxResets
  /\ resets' = resets + 1
  /\ stream /\ buffer' = <<>>
  /\ Broadcast(Reset)
  /\ cleared' = [p \in Pages |-> cleared[p] \/ p \in subscribed]
  /\ UNCHANGED <<stream, subscribed, screen, published, breaks>>

\* The system is deleted, or the process restarts: every connection closes.
RemoveStream ==
  /\ resets < MaxResets
  /\ resets' = resets + 1
  /\ stream /\ stream' = FALSE /\ buffer' = <<>> /\ subscribed' = {}
  /\ pipe' = [p \in Pages |-> <<>>]
  /\ UNCHANGED <<screen, cleared, published, breaks>>

\* A connection is lost; the next send to it, or its close, unsubscribes it.
Break(p) ==
  /\ p \in subscribed /\ breaks < MaxBreaks
  /\ breaks' = breaks + 1
  /\ subscribed' = subscribed \ {p}
  /\ pipe' = [pipe EXCEPT ![p] = <<>>]
  /\ UNCHANGED <<stream, buffer, screen, cleared, published, resets>>

\* What a screen is after a message (onmessage).
Applied(shown, m) == IF m = Reset THEN <<>> ELSE Append(shown, m)

Receive(p) ==
  /\ pipe[p] # <<>>
  /\ screen' = [screen EXCEPT ![p] = Applied(@, Head(pipe[p]))]
  /\ pipe' = [pipe EXCEPT ![p] = Tail(@)]
  /\ UNCHANGED <<stream, buffer, subscribed, cleared, published, resets, breaks>>

Next ==
  \/ Publish \/ ResetStream \/ RemoveStream
  \/ \E p \in Pages : Subscribe(p) \/ Break(p) \/ Receive(p)

Spec == Init /\ [][Next]_vars

-------------------------------------------------------------------------------
\* The screen of a page when it has received all its connection carries:
\* what follows the last reset, or everything.
Final(p) ==
  LET all == screen[p] \o pipe[p]
  IN SubSeq(all, SelectLastInSeq(all, LAMBDA m : m = Reset) + 1, Len(all))

(* A connected page ends up with the whole output of the running           *)
(* operation, each message once and in order, whenever it connected and    *)
(* whatever broke; and with nothing else if its screen was cleared when it *)
(* connected or since.                                                     *)
ShowsWholeOperation ==
  \A p \in subscribed :
    LET extra == Len(Final(p)) - Len(buffer)
    IN /\ extra >= 0 /\ SubSeq(Final(p), extra + 1, Len(Final(p))) = buffer
       /\ cleared[p] => extra = 0

\* Not so for a page that reconnects: it gets everything a second time.
ShowsOnlyOperation == \A p \in subscribed : Final(p) = buffer
================================================================================
