----------------------------- MODULE UpgradeDialog -----------------------------
(***************************************************************************)
(* The dialog of an Upgrade All (client/pages/Dashboard.tsx): what it took *)
(* over when it was opened, what the user checks, toggles, drags and       *)
(* groups, each shown before the server has it, and the batch that is      *)
(* sent.  Requests of one kind may overlap or not, as the buttons allow;   *)
(* the polls of the page go on behind it.  Names and sizes are left out,   *)
(* and so are answers that get lost.                                       *)
(***************************************************************************)
EXTENDS Integers, SequencesExt

CONSTANTS Systems,     \* numbers, in the order of the names
          Groups, Ungrouped, Absent,
          Sessions     \* bound: kinds of requests, how many of them, and how much happens
                       \* to the systems meanwhile

VARIABLES server,      \* the systems, the order of the groups, and those that ever were
          data,        \* what the page has read of them
          modal,       \* the dialog, with what was set in it
          pending,     \* pendingSystemPlacementsRef
          drag,        \* of a system or of a group
          dialog,      \* renameGroup, deleteGroup
          wire,        \* requests
          sent,        \* the batch
          session      \* what is left of it

page == <<data, modal, pending, drag, dialog>>
vars == <<server, page, wire, sent, session>>

Keys == Groups \cup {Ungrouped}
States == {"updates", "none", "busy", "hidden"}
Place == [group : Keys, order : Nat \ {0}]
Row == [group : Keys, order : Nat \ {0}, updates : BOOLEAN]
Kinds == {"exclude", "mode", "place", "order", "create", "rename", "delete"}

Lists(d, range) == \A s \in DOMAIN d : s \in Systems /\ d[s] \in range

TypeOK ==
  /\ \A known \in {server, data} :
       /\ \A s \in Systems : known.sys[s].group \in Keys /\ known.sys[s].state \in States
       /\ known.order \in Seq(Keys)
  /\ server.made \subseteq Groups
  /\ modal # Absent => /\ modal.edit \in BOOLEAN /\ modal.regular \in BOOLEAN
                       /\ Lists(modal.list, Row) /\ modal.chosen \subseteq Systems
                       /\ Lists(modal.full, BOOLEAN)
  /\ Lists(pending, Place)
  /\ drag # Absent => drag.what \in {"place", "order"}
  /\ dialog \in [what : {"rename", "delete"}, group : Groups] \cup {Absent}
  /\ session.kinds \subseteq Kinds
  /\ \A r \in wire : r.what \in session.kinds /\ r.answer \in {"none", "ok", "error"}

\* What the proofs need of the constants: no record is Absent.
DialogAssumption ==
  /\ IsFiniteSet(Systems) /\ Groups # {} /\ Ungrouped \notin Groups
  /\ Absent \notin [edit : BOOLEAN, list : [Systems -> [group : Keys, order : Nat, updates : BOOLEAN]],
                    order : Seq(Keys) \cup {Absent}, chosen : SUBSET Systems,
                    full : [Systems -> BOOLEAN], regular : BOOLEAN]
  /\ Absent \notin [what : {"place"}, of : Systems,
                    before : [Systems -> [group : Keys, order : Nat, updates : BOOLEAN]],
                    to : [Systems -> [group : Keys, order : Nat]]]
  /\ Absent \notin [what : {"order"}, of : Keys, before : Seq(Keys), to : Seq(Keys)]

Init ==
  /\ \E excluded \in SUBSET Systems, grouped \in SUBSET Systems,
        g \in {CHOOSE h \in Groups : TRUE} :   \* groups are names only
       server = [order |-> <<g, Ungrouped>>, made |-> {g},
                 sys |-> [s \in Systems |->
                   [group |-> IF s \in grouped THEN g ELSE Ungrouped, order |-> 1,
                    excluded |-> s \in excluded, full |-> FALSE, state |-> "updates"]]]
  /\ data = [order |-> server.order, sys |-> server.sys]
  /\ modal = Absent /\ pending = <<>> /\ drag = Absent /\ dialog = Absent
  /\ wire = {} /\ sent = Absent
  /\ \E t \in Sessions : session = [kinds |-> t.kinds, requests |-> t.requests,
                                    events |-> t.events, alone |-> TRUE]

-------------------------------------------------------------------------------
(* What is shown. *)

Candidates(known) == {s \in Systems : known.sys[s].state \notin {"busy", "hidden"}}

Rows(known) ==
  [s \in Candidates(known) |->
     [group |-> known.sys[s].group, order |-> known.sys[s].order,
      updates |-> known.sys[s].state = "updates"]]

Placed(list, places) ==
  [s \in DOMAIN list |->
     IF s \in DOMAIN places
     THEN [list[s] EXCEPT !.group = places[s].group, !.order = places[s].order] ELSE list[s]]

\* What is left of a list, in its order.
Kept(list, keys) ==
  LET at == {i \in DOMAIN list : list[i] \in keys}
      places == CHOOSE p \in [1 .. Cardinality(at) -> at] :
                  \A k, l \in 1 .. Cardinality(at) : k < l => p[k] < p[l]
  IN [k \in 1 .. Cardinality(at) |-> list[places[k]]]

\* In the order that was dragged, the groups it does not know last.
OrderShown ==
  IF modal.order = Absent THEN data.order
  ELSE Kept(modal.order, ToSet(data.order))
         \o Kept(data.order, ToSet(data.order) \ ToSet(modal.order))

GroupOf(row) == IF Contains(data.order, row.group) THEN row.group ELSE Ungrouped

Members(k) == {s \in DOMAIN modal.list : GroupOf(modal.list[s]) = k}

Before(s, t) == \/ modal.list[s].order < modal.list[t].order
                \/ modal.list[s].order = modal.list[t].order /\ s < t

Visible == {s \in DOMAIN modal.list : modal.edit \/ modal.list[s].updates}

\* isPending is about the last request of its kind.
Waiting(what) == \E r \in wire : r.what = what /\ r.latest

\* Mutant: a save does not keep the next drag from starting.
SortingDisabledOutside == ~modal.edit

SortingDisabled == ~modal.edit \/ Waiting("place") \/ Waiting("order")

(* The effect of edit mode: what was read, with the placements that the    *)
(* server does not have yet.                                               *)
Refreshed(m) ==
  IF m = Absent \/ ~m.edit THEN modal' = m /\ UNCHANGED pending
  ELSE LET same(s) == /\ s \in Candidates(data')
                      /\ data'.sys[s].group = pending[s].group
                      /\ data'.sys[s].order = pending[s].order
           left == [s \in {t \in DOMAIN pending : ~same(t)} |-> pending[s]]
       IN /\ pending' = left
          /\ modal' = [m EXCEPT
               !.list = Placed(Rows(data'), left), !.chosen = @ \cap Candidates(data'),
               !.full = [s \in Candidates(data') |->
                           IF s \in DOMAIN @ THEN @[s] ELSE data'.sys[s].full]]

-------------------------------------------------------------------------------
(* The user. *)

Idle == sent = Absent /\ drag = Absent /\ dialog = Absent

Shown == Idle /\ modal # Absent

More(what) == what \in session.kinds /\ session.requests > 0

Request(what, ask, undo) ==
  [what |-> what, ask |-> ask, undo |-> undo, latest |-> TRUE, answer |-> "none"]

\* The callbacks of an earlier request of the kind are lost.
Send(request) ==
  /\ More(request.what) /\ session' = [session EXCEPT !.requests = @ - 1]
  /\ wire' = {[r EXCEPT !.latest = @ /\ r.what # request.what] : r \in wire} \cup {request}

Current == data.sys = server.sys /\ data.order = server.order

Open ==
  /\ Idle /\ modal = Absent
  /\ modal' = [edit |-> FALSE, list |-> Rows(data), order |-> Absent,
               chosen |-> {s \in Candidates(data) : ~data.sys[s].excluded},
               full |-> [s \in Candidates(data) |-> data.sys[s].full],
               regular |-> wire = {} /\ Current]
  /\ pending' = <<>>
  /\ UNCHANGED <<server, data, drag, dialog, wire, sent, session>>

Closed == modal' = Absent /\ pending' = <<>> /\ drag' = Absent /\ dialog' = Absent

\* Also in the middle of a drag, by a key.
Close ==
  /\ sent = Absent /\ modal # Absent /\ Closed
  /\ UNCHANGED <<server, data, wire, sent, session>>

ToggleEdit ==
  /\ Shown /\ UNCHANGED data
  /\ Refreshed([modal EXCEPT !.edit = ~@,
                            !.regular = @ /\ (modal.edit \/ data.sys = server.sys)])
  /\ UNCHANGED <<server, drag, dialog, wire, sent, session>>

\* toggleSystemSelection
ToggleSystem(s) ==
  /\ Shown /\ s \in Visible /\ ~Waiting("exclude")
  /\ modal' = [modal EXCEPT !.chosen = IF s \in @ THEN @ \ {s} ELSE @ \cup {s}]
  /\ Send(Request("exclude", [system |-> s, excluded |-> s \in modal.chosen], Absent))
  /\ UNCHANGED <<server, data, pending, drag, dialog, sent>>

With(full, s, mode) == [t \in DOMAIN full \cup {s} |-> IF t = s THEN mode ELSE full[t]]

\* toggleFullUpgradeSelection
ToggleMode(s) ==
  LET full == s \in DOMAIN modal.full /\ modal.full[s] IN
  /\ Shown /\ s \in Visible
  /\ ~\E r \in wire : r.what = "mode" /\ r.latest /\ r.ask.system = s
  /\ modal' = [modal EXCEPT !.full = With(@, s, ~full),
                            !.regular = @ /\ ~\E r \in wire : r.what = "mode"]
  /\ Send(Request("mode", [system |-> s, full |-> ~full], full))
  /\ UNCHANGED <<server, data, pending, drag, dialog, sent>>

CreateGroup ==
  /\ Shown /\ modal.edit /\ ~Waiting("create")
  /\ Send(Request("create", Absent, Absent))
  /\ UNCHANGED <<server, page, sent>>

AskGroup ==
  /\ Shown /\ modal.edit
  /\ \E what \in {"rename", "delete"}, g \in Groups :
       More(what) /\ Contains(data.order, g) /\ dialog' = [what |-> what, group |-> g]
  /\ UNCHANGED <<server, data, modal, pending, drag, wire, sent, session>>

DropGroup ==
  /\ sent = Absent /\ dialog # Absent /\ dialog' = Absent
  /\ UNCHANGED <<server, data, modal, pending, drag, wire, sent, session>>

\* saveRenameGroup, confirmDeleteGroup
ConfirmGroup ==
  /\ sent = Absent /\ dialog # Absent /\ ~Waiting(dialog.what)
  /\ dialog.what = "rename" => Contains(data.order, dialog.group)
  /\ Send(Request(dialog.what, dialog.group, Absent))
  /\ UNCHANGED <<server, page, sent>>

\* handleUpgradeAll: what is known now of the systems that are listed.
Latest(s) == IF data.sys[s].state = "hidden" THEN modal.list[s].updates
             ELSE data.sys[s].state = "updates"

Submit ==
  /\ Shown
  /\ \E s \in modal.chosen \cap DOMAIN modal.list : modal.list[s].updates
  /\ \A s \in Systems : data.sys[s].state # "busy"
  /\ LET items == {s \in modal.chosen \cap DOMAIN modal.list : Latest(s)}
     IN /\ items # {}
        /\ sent' = [full |-> [s \in items |-> s \in DOMAIN modal.full /\ modal.full[s]],
                    listed |-> Visible, regular |-> modal.regular]
        /\ Closed
  /\ UNCHANGED <<server, data, wire, session>>

-------------------------------------------------------------------------------
(* Drags, within the dialog. *)

Dragging == sent = Absent /\ modal # Absent /\ drag # Absent

StartDrag ==
  /\ Shown /\ ~SortingDisabled
  /\ \/ \E s \in DOMAIN modal.list :
          More("place") /\ drag' = [what |-> "place", of |-> s, before |-> modal.list, to |-> <<>>]
     \/ \E i \in DOMAIN OrderShown :
          /\ Len(OrderShown) > 1 /\ More("order")
          /\ drag' = [what |-> "order", of |-> OrderShown[i], before |-> OrderShown, to |-> OrderShown]
  /\ UNCHANGED <<server, data, modal, pending, dialog, wire, sent, session>>

\* getSystemPlacementsForMove
Moved(s, k, at) ==
  LET rank(t, h) == Cardinality({u \in Members(h) \ {s} : ~Before(t, u)})
      order(t, h) == IF t = s THEN at
                     ELSE IF h = k /\ rank(t, h) >= at THEN rank(t, h) + 1 ELSE rank(t, h)
  IN [t \in DOMAIN modal.list |->
        LET h == IF t = s THEN k ELSE GroupOf(modal.list[t])
        IN [group |-> h, order |-> order(t, h)]]

\* moveDraggedSystemPreview
DragSystem ==
  /\ Dragging /\ drag.what = "place" /\ drag.of \in DOMAIN modal.list
  /\ \E i \in DOMAIN data.order, at \in 1 .. Cardinality(Systems) :
       LET to == Moved(drag.of, data.order[i], at)
       IN /\ at <= Cardinality(Members(data.order[i]) \ {drag.of}) + 1
          /\ to # drag.to
          /\ drag' = [drag EXCEPT !.to = to]
          /\ modal' = [modal EXCEPT !.list = Placed(@, to)]
  /\ UNCHANGED <<server, data, pending, dialog, wire, sent, session>>

\* moveDraggedGroupPreview
DragGroup ==
  /\ Dragging /\ drag.what = "order"
  /\ LET left == Kept(drag.to, ToSet(drag.to) \ {drag.of})
     IN \E at \in 1 .. Len(left) + 1 :
          LET to == InsertAt(left, at, drag.of)
          IN /\ to # drag.to
             /\ drag' = [drag EXCEPT !.to = to] /\ modal' = [modal EXCEPT !.order = to]
  /\ UNCHANGED <<server, data, pending, dialog, wire, sent, session>>

Changes(to, before) ==
  \E s \in DOMAIN to \cap DOMAIN before :
    to[s].group # before[s].group \/ to[s].order # before[s].order

\* finishPointerDrag, persistSystemPlacements
Drop ==
  /\ Dragging /\ drag' = Absent
  /\ IF drag.what = "place"
     THEN IF Changes(drag.to, drag.before)
          THEN /\ pending' = drag.to /\ modal' = [modal EXCEPT !.list = Placed(@, drag.to)]
               /\ Send(Request("place", drag.to, drag.before))
          ELSE UNCHANGED <<pending, modal, wire, session>>
     ELSE /\ IF drag.to # drag.before /\ Len(drag.to) = Len(OrderShown)
             THEN Send(Request("order", drag.to, drag.before)) ELSE UNCHANGED <<wire, session>>
          /\ UNCHANGED <<pending, modal>>
  /\ UNCHANGED <<server, data, dialog, sent>>

\* cancelPointerDrag
CancelDrag ==
  /\ Dragging /\ drag' = Absent
  /\ modal' = IF drag.what = "order" THEN [modal EXCEPT !.order = drag.before]
              ELSE IF drag.to # <<>> THEN [modal EXCEPT !.list = drag.before] ELSE modal
  /\ UNCHANGED <<server, data, pending, dialog, wire, sent, session>>

-------------------------------------------------------------------------------
(* The server. *)

Exists(k) == Contains(server.order, k)

Valid(r) ==
  CASE r.what = "place" -> \A s \in DOMAIN r.ask : Exists(r.ask[s].group)
    [] r.what = "order" -> ToSet(r.ask) = ToSet(server.order)
    [] r.what \in {"rename", "delete"} -> Exists(r.ask)
    [] r.what = "create" -> server.made # Groups
    [] OTHER -> TRUE

\* A new group comes first; it never has the number of another.
Created(g) == [server EXCEPT !.order = <<g>> \o @, !.made = @ \cup {g}]

Applied(r) ==
  CASE r.what = "exclude" -> [server EXCEPT !.sys[r.ask.system].excluded = r.ask.excluded]
    [] r.what = "mode" -> [server EXCEPT !.sys[r.ask.system].full = r.ask.full]
    [] r.what = "place" -> [server EXCEPT !.sys = [s \in Systems |->
         IF s \in DOMAIN r.ask
         THEN [@[s] EXCEPT !.group = r.ask[s].group, !.order = r.ask[s].order] ELSE @[s]]]
    [] r.what = "order" -> [server EXCEPT !.order = r.ask]
    [] r.what = "rename" -> server
    [] r.what = "create" -> Created(CHOOSE g \in Groups \ server.made : TRUE)
    [] r.what = "delete" ->
         [server EXCEPT
           !.sys = [s \in Systems |-> IF @[s].group = r.ask
                                      THEN [@[s] EXCEPT !.group = Ungrouped] ELSE @[s]],
           !.order = Kept(@, ToSet(@) \ {r.ask})]

Serve ==
  /\ sent = Absent
  /\ \E r \in wire :
       /\ r.answer = "none"
       /\ \/ Valid(r) /\ server' = Applied(r) /\ wire' = (wire \ {r}) \cup {[r EXCEPT !.answer = "ok"]}
          \/ wire' = (wire \ {r}) \cup {[r EXCEPT !.answer = "error"]} /\ UNCHANGED server
  /\ UNCHANGED <<page, sent, session>>

\* An upgrade of others starts or ends, a check finds something, a system is hidden.
Others ==
  /\ sent = Absent /\ session.events > 0
  /\ session' = [session EXCEPT !.events = @ - 1, !.alone = FALSE]
  /\ \E s \in Systems, state \in States :
       state # server.sys[s].state /\ server' = [server EXCEPT !.sys[s].state = state]
  /\ UNCHANGED <<page, wire, sent>>

-------------------------------------------------------------------------------
(* What comes back. *)

\* The systems and the groups are read by different requests.
Read ==
  /\ sent = Absent
  /\ \/ data.sys # server.sys /\ data' = [data EXCEPT !.sys = server.sys] /\ Refreshed(modal)
     \/ /\ data.order # server.order /\ data' = [data EXCEPT !.order = server.order]
        /\ UNCHANGED <<modal, pending>>
  /\ UNCHANGED <<server, drag, dialog, wire, sent, session>>

\* Exclusions and modes are waited for until the systems have been read again.
Done(r) ==
  /\ r.answer = "ok" /\ wire' = wire \ {r}
  /\ IF r.what \in {"exclude", "mode"}
     THEN data' = [data EXCEPT !.sys = server.sys] /\ Refreshed(modal)
     ELSE UNCHANGED <<data, modal, pending>>
  /\ dialog' = IF dialog # Absent /\ r.latest /\ dialog.what = r.what THEN Absent ELSE dialog
  /\ UNCHANGED drag

\* Mutant: the box stays as it was set.
RestoredUnlessExclusion(r, m) ==
  CASE r.what = "mode" -> [m EXCEPT !.full = With(@, r.ask.system, r.undo)]
    [] r.what = "place" -> [m EXCEPT !.list = r.undo]
    [] r.what = "order" -> [m EXCEPT !.order = r.undo]
    [] OTHER -> m

\* The callbacks of a request that failed set back what they had changed.
Restored(r, m) ==
  CASE r.what = "exclude" -> [m EXCEPT !.chosen = IF r.ask.excluded THEN @ \cup {r.ask.system}
                                                  ELSE @ \ {r.ask.system}]
    [] r.what = "mode" -> [m EXCEPT !.full = With(@, r.ask.system, r.undo)]
    [] r.what = "place" -> [m EXCEPT !.list = r.undo]
    [] r.what = "order" -> [m EXCEPT !.order = r.undo]
    [] OTHER -> m

Failed(r) ==
  /\ r.answer = "error" /\ wire' = wire \ {r}
  /\ modal' = IF modal = Absent \/ ~r.latest THEN modal ELSE Restored(r, modal)
  /\ pending' = IF r.what = "place" /\ r.latest THEN <<>> ELSE pending
  /\ UNCHANGED <<data, drag, dialog>>

Answer ==
  /\ sent = Absent /\ \E r \in wire : Done(r) \/ Failed(r)
  /\ UNCHANGED <<server, sent, session>>

Next ==
  \/ Open \/ Close \/ ToggleEdit \/ CreateGroup \/ AskGroup \/ DropGroup \/ ConfirmGroup
  \/ \E s \in Systems : ToggleSystem(s) \/ ToggleMode(s)
  \/ Submit \/ StartDrag \/ DragSystem \/ DragGroup \/ Drop \/ CancelDrag
  \/ Serve \/ Others \/ Read \/ Answer

Spec == Init /\ [][Next]_vars

-------------------------------------------------------------------------------
\* Once everything is answered and read, a dialog that was opened, and last put in
\* edit mode, on current data shows what is saved, whatever failed in between: the
\* boxes, the modes and, in edit mode, the places.
ShowsSaved ==
  modal # Absent /\ modal.regular /\ wire = {} /\ drag = Absent /\ Current
    /\ session.alone
    => \A s \in DOMAIN modal.list :
         /\ (s \in modal.chosen) = ~server.sys[s].excluded
         /\ modal.full[s] = server.sys[s].full
         /\ modal.edit => /\ GroupOf(modal.list[s]) = server.sys[s].group
                          /\ modal.list[s].order = server.sys[s].order

\* A system that is queued is not an excluded one, unless the request that
\* includes it is on its way; it is upgraded as it is saved, if nothing happened
\* to the systems meanwhile.
QueuedAsIncluded ==
  sent # Absent /\ sent.regular
    => \A s \in DOMAIN sent.full :
         /\ server.sys[s].excluded
              => \E r \in wire : r.what = "exclude" /\ r.ask = [system |-> s, excluded |-> FALSE]
         /\ session.alone /\ sent.full[s] # server.sys[s].full
              => \E r \in wire : r.what = "mode" /\ r.ask.system = s

UpgradeDialogSound == ShowsSaved /\ QueuedAsIncluded

\* Not so: a system for which updates were found while the dialog was open is
\* queued with the others, although outside edit mode the dialog did not list it.
QueuedWereListed == sent # Absent => DOMAIN sent.full \subseteq sent.listed

\* Not so: a group that is added after the groups were dragged is shown last,
\* and saved as the first.
OrderShownIsSaved ==
  modal # Absent /\ wire = {} /\ drag = Absent /\ Current => OrderShown = server.order
================================================================================
