------------------------------- MODULE SystemPage -------------------------------
(***************************************************************************)
(* The page of one system (client/pages/SystemDetail.tsx) over the server: *)
(* what it offers and disables, its dialogs, the selection of packages,    *)
(* the mark of a local upgrade, and the requests it sends.  The page       *)
(* follows the server by polls, whose answers are as old as their read,    *)
(* and by the messages of the live output.                                 *)
(*                                                                         *)
(* Whether the system has an issue, needs a reboot and so on is shown to   *)
(* the user only: a notice and its buttons may be there at any time.       *)
(*                                                                         *)
(* A dialog covers the page: nothing behind it can be pressed.  React runs *)
(* the effects of a render before the next event of the user.              *)
(***************************************************************************)
EXTENDS Integers, Sequences

CONSTANTS Packages, Absent,
          Versions,      \* numbers above 0; 0 is no update
          FullUpgrade,   \* supportsFullUpgrade
          Sessions,      \* bounds: of each behaviour, kinds and number of its requests
          MaxForeign,    \* bound: operations of others
          MaxWire        \* bound: messages on their way

VARIABLES session,
          now,       \* the server: updates, activeOperation
          wire,      \* live output on its way
          fetch,     \* a poll on its way back
          data,      \* of the last poll
          phase,     \* of the live output
          mark,      \* upgradingSystems.has(systemId)
          selected,  \* selectedPackageNames, with the version beside the box when it was checked
          menu,      \* showUpgradeDropdown
          dialog,    \* the one that is open
          asked,     \* requests, in the order they were sent
          foreign,   \* operations of others so far
          fresh      \* whether data is as the server is since requests and operations ended

page == <<data, phase, mark, selected, menu, dialog>>
vars == <<session, now, wire, fetch, page, asked, foreign, fresh>>

Upgrades == {"all", "full", "packages"}
Operations == Upgrades \cup {"check", "autoremove", "reboot", "repair"}
Notices == {"needsReboot", "issue", "root", "lifecycle"}
Kinds == Operations \cup Notices \cup {"cancel", "hide", "unhide"}   \* a notice is dismissed

Marks == [Packages -> Versions \cup {0}]
None == [p \in Packages |-> 0]
ActiveOperation == [kind : Operations, phase : {"running", "rechecking"}, cancelled : BOOLEAN]
SystemDetail == [updates : Marks, op : ActiveOperation \cup {Absent}]
Dialogs == [kind : Kinds, of : Marks]
Request == [kind : Kinds, of : Marks, heard : BOOLEAN,
            state : {"sent", "running", "done", "failed", "over", "refused"}]

TypeOK ==
  /\ session \in Sessions
  /\ now \in SystemDetail /\ fetch \in SystemDetail \cup {Absent} /\ data \in SystemDetail
  /\ \A i \in 1 .. Len(wire) : wire[i] \in {"started", "rechecking", "done"}
  /\ phase \in {"none", "rechecking"} /\ mark \in BOOLEAN /\ menu \in BOOLEAN
  /\ selected \in Marks /\ dialog \in Dialogs \cup {Absent}
  /\ asked \in Seq(Request) /\ Len(asked) <= session.requests
  /\ foreign \in 0 .. MaxForeign /\ fresh \in {"stale", "reading", "fresh"}

\* What the proofs need of the constants: versions are numbers, no record is Absent.
PageAssumption ==
  /\ 1 \in Versions /\ Versions \subseteq Nat \ {0}
  /\ Absent \notin SystemDetail \cup ActiveOperation \cup Dialogs

Init ==
  /\ session \in Sessions
  /\ now = [updates |-> [p \in Packages |-> 1], op |-> Absent]
  /\ data = now /\ fetch = Absent /\ wire = <<>> /\ phase = "none"
  /\ mark = FALSE /\ selected = None /\ menu = FALSE /\ dialog = Absent
  /\ asked = <<>> /\ foreign = 0 /\ fresh = "fresh"

-------------------------------------------------------------------------------
(* What the page shows. *)

Open(r) == r.state \notin {"over", "refused"}
Pending(kinds) == \E i \in 1 .. Len(asked) : asked[i].kind \in kinds /\ Open(asked[i])

Shows(kinds) == data.op # Absent /\ data.op.kind \in kinds

Rechecking == phase = "rechecking" \/ (data.op # Absent /\ data.op.phase = "rechecking")
Checking == Pending({"check"}) \/ Shows({"check"}) \/ Rechecking
Upgrading == ~Rechecking /\ (mark \/ Shows(Upgrades))
Autoremoving == ~Rechecking /\ (Pending({"autoremove"}) \/ Shows({"autoremove"}))
Rebooting == Pending({"reboot"}) \/ Shows({"reboot"})
Repairing == Pending({"repair"}) \/ Shows({"repair"})
Busy == Checking \/ Upgrading \/ Autoremoving \/ Rebooting \/ Repairing

Listed == {p \in Packages : data.updates[p] # 0}

\* normalizeSelectedPackageNames
Selected == {p \in Listed : selected[p] # 0}

SelectionBusy == Busy \/ Pending({"hide", "unhide"})

\* Mutant: rows are not disabled while a version is being hidden.
HidableMeanwhile(p) == p \in Listed /\ ~Busy

Hidable(p) == p \in Listed /\ ~SelectionBusy

\* Its cancellation is offered in place of what starts an operation.
MenuGone == data.op # Absent /\ (Upgrading \/ (Shows({"autoremove"}) /\ Autoremoving))
Cancellable == MenuGone \/ (data.op # Absent /\ (Checking \/ Repairing))

Offered(kind) ==
  \/ kind = "all" /\ ~Busy /\ Selected = {} /\ Listed # {}
  \/ kind = "packages" /\ ~Busy /\ Selected # {}
  \/ kind = "full" /\ menu /\ ~MenuGone /\ FullUpgrade /\ Listed # {}
  \/ kind = "autoremove" /\ menu /\ ~MenuGone
  \/ kind = "cancel" /\ Cancellable /\ ~data.op.cancelled /\ ~Pending({"cancel"})
  \/ kind \in {"reboot", "needsReboot"} /\ ~Busy /\ ~Pending({"needsReboot"})
  \/ kind \in {"repair", "issue"} /\ ~Busy /\ ~Pending({"issue"})

\* The button of a dialog is disabled by its own operation only.
Loading(kind) ==
  \/ kind \in Upgrades /\ Upgrading
  \/ kind = "autoremove" /\ Autoremoving
  \/ kind = "reboot" /\ Rebooting
  \/ kind = "repair" /\ Repairing
  \/ kind \in Notices \cup {"cancel", "hide"} /\ Pending({kind})

-------------------------------------------------------------------------------
(* The user. *)

Still == UNCHANGED <<session, now, wire, fetch, data, phase, foreign, fresh>>

Send(kind, of) ==
  /\ Len(asked) + foreign < session.requests
  /\ asked' = Append(asked, [kind |-> kind, of |-> of, heard |-> TRUE, state |-> "sent"])

OpenMenu ==
  /\ dialog = Absent /\ ~Busy /\ ~menu /\ menu' = TRUE
  /\ Still /\ UNCHANGED <<mark, selected, dialog, asked>>

Ask(kind) ==
  /\ dialog = Absent /\ Offered(kind)
  /\ dialog' = [kind |-> kind, of |-> None] /\ menu' = FALSE
  /\ Still /\ UNCHANGED <<mark, selected, asked>>

\* The dialog keeps the version of its row.
AskToHide(p) ==
  /\ dialog = Absent /\ Hidable(p)
  /\ dialog' = [kind |-> "hide", of |-> [None EXCEPT ![p] = data.updates[p]]] /\ menu' = FALSE
  /\ Still /\ UNCHANGED <<mark, selected, asked>>

Close ==
  /\ dialog # Absent /\ dialog' = Absent
  /\ Still /\ UNCHANGED <<mark, selected, menu, asked>>

Toggle(p) ==
  /\ dialog = Absent /\ p \in Listed /\ ~SelectionBusy
  /\ selected' = [selected EXCEPT ![p] = IF @ = 0 THEN data.updates[p] ELSE 0]
  /\ Still /\ UNCHANGED <<mark, menu, dialog, asked>>

Asking(kind) == dialog # Absent /\ dialog.kind = kind

Confirming(kinds) == dialog # Absent /\ dialog.kind \in kinds /\ ~Loading(dialog.kind)

ConfirmUpgrade ==
  /\ Confirming({"all", "full"})
  /\ Send(dialog.kind, None)
  /\ mark' = TRUE /\ dialog' = Absent
  /\ Still /\ UNCHANGED <<selected, menu>>

\* With nothing left of the selection it does nothing, and the dialog stays.
ConfirmSelected ==
  /\ Confirming({"packages"}) /\ Selected # {}
  /\ Send("packages", [p \in Packages |-> IF p \in Selected THEN selected[p] ELSE 0])
  /\ mark' = TRUE /\ dialog' = Absent /\ selected' = None
  /\ Still /\ UNCHANGED menu

Confirm ==
  /\ Confirming({"autoremove", "reboot", "repair", "cancel", "needsReboot", "issue"})
  /\ Send(dialog.kind, None) /\ dialog' = Absent
  /\ Still /\ UNCHANGED <<mark, selected, menu>>

\* The dialog stays open until the answer.
ConfirmHide ==
  /\ Confirming({"hide"})
  /\ Send("hide", dialog.of)
  /\ Still /\ UNCHANGED <<mark, selected, menu, dialog>>

\* Buttons that do not ask.
Press(kind) ==
  /\ dialog = Absent /\ ~Pending({kind})
  /\ \/ kind = "check" /\ ~(Checking \/ Upgrading \/ Autoremoving \/ Repairing)
     \/ kind = "unhide" /\ ~Pending({"hide"})
          /\ ~(Checking \/ Upgrading \/ Autoremoving \/ Repairing)
     \/ kind \in {"root", "lifecycle"}
  /\ Send(kind, None)
  /\ Still /\ UNCHANGED <<mark, selected, menu, dialog>>

-------------------------------------------------------------------------------
(* The server. *)

Starts(kind) ==
  /\ now.op = Absent /\ Len(wire) < MaxWire
  /\ now' = [now EXCEPT !.op = [kind |-> kind, phase |-> "running", cancelled |-> FALSE]]
  /\ wire' = Append(wire, "started")

Begin(i) ==
  /\ asked[i].state = "sent" /\ asked[i].kind \in Operations
  /\ Starts(asked[i].kind)
  /\ asked' = [asked EXCEPT ![i].state = "running"]
  /\ UNCHANGED <<session, fetch, page, foreign, fresh>>

ForeignBegins(kind) ==
  /\ Len(asked) + foreign < session.requests /\ foreign < MaxForeign /\ foreign' = foreign + 1
  /\ Starts(kind)
  /\ UNCHANGED <<session, fetch, page, asked, fresh>>

Recheck ==
  /\ now.op # Absent /\ now.op.phase = "running" /\ now.op.kind \in Upgrades \cup {"autoremove"}
  /\ Len(wire) < MaxWire
  /\ now' = [now EXCEPT !.op.phase = "rechecking"]
  /\ wire' = Append(wire, "rechecking")
  /\ UNCHANGED <<session, fetch, page, asked, foreign, fresh>>

\* A caller that has given up gets no answer.
Ends ==
  /\ now.op # Absent /\ Len(wire) < MaxWire
  /\ \E updates \in Marks :
       /\ \A p \in Packages : updates[p] = 0 \/ updates[p] > now.updates[p]
       /\ now' = [now EXCEPT !.op = Absent, !.updates = updates]
  /\ wire' = Append(wire, "done")
  /\ asked' = [i \in 1 .. Len(asked) |->
       IF asked[i].state = "running" THEN [asked[i] EXCEPT !.state = "done"] ELSE asked[i]]
  /\ fresh' = "stale"
  /\ UNCHANGED <<session, fetch, page, foreign>>

Apply(i) ==
  /\ asked[i].state = "sent" /\ asked[i].kind \notin Operations
  /\ LET hides == {p \in Packages : asked[i].kind = "hide" /\ asked[i].of[p] # 0} IN
     /\ \A p \in hides : now.updates[p] = asked[i].of[p]
     /\ now' = [now EXCEPT
          !.updates = [p \in Packages |-> IF p \in hides THEN 0 ELSE @[p]],
          !.op = IF asked[i].kind = "cancel" /\ @ # Absent THEN [@ EXCEPT !.cancelled = TRUE] ELSE @]
  /\ asked' = [asked EXCEPT ![i].state = "done"]
  /\ fresh' = "stale"
  /\ UNCHANGED <<session, wire, fetch, page, foreign>>

\* It was refused, or it is not known what became of it.
Fails(i) ==
  /\ asked[i].state \in {"sent", "running"}
  /\ asked' = [asked EXCEPT ![i].state = "failed"]
  /\ fresh' = "stale"
  /\ UNCHANGED <<session, now, wire, fetch, page, foreign>>

-------------------------------------------------------------------------------
(* What comes back. *)

\* The page of another system sends one of its kind: the callbacks are those of the last call.
Supersede(i) ==
  /\ asked[i].kind \in {"full", "packages"} /\ Open(asked[i]) /\ asked[i].heard
  /\ asked' = [asked EXCEPT ![i].heard = FALSE]
  /\ UNCHANGED <<session, now, wire, fetch, page, foreign, fresh>>

\* upgradeAll awaits its call, the others have callbacks.
Heard(i) ==
  \/ asked[i].kind = "all"
  \/ asked[i].heard /\ \A j \in i + 1 .. Len(asked) : asked[j].kind # asked[i].kind

Answer(i) ==
  /\ asked[i].state \in {"done", "failed"}
  /\ asked' = [asked EXCEPT ![i].state = IF @ = "done" THEN "over" ELSE "refused"]
  /\ mark' = (mark /\ ~(asked[i].kind \in Upgrades /\ Heard(i)))
  /\ selected' = IF asked[i].kind = "packages" /\ asked[i].state = "failed" /\ Heard(i)
                 THEN asked[i].of ELSE selected
  /\ dialog' = IF asked[i].kind = "hide" /\ asked[i].state = "done" /\ Asking("hide")
               THEN Absent ELSE dialog
  /\ fresh' = "stale"
  /\ UNCHANGED <<session, now, wire, fetch, data, phase, menu, foreign>>

Read ==
  /\ fetch = Absent /\ fetch' = now
  /\ fresh' = IF fresh = "stale" THEN "reading" ELSE fresh
  /\ UNCHANGED <<session, now, wire, page, asked, foreign>>

\* Mutant: names are compared, versions are not.
ResetByName(new) == {p \in Packages : new.updates[p] # 0} # Listed

\* updatesSignature: another version makes another list.
Reset(new) == new.updates # data.updates

\* Mutant: the mark is left to the callbacks.
NeverSeenOver(new) == FALSE

\* shouldClearLocalUpgrade
SeenOver(new) == new.op = Absent \/ (new.op.phase = "rechecking" /\ new.op.kind \in Upgrades)

Arrive ==
  /\ fetch # Absent /\ fetch' = Absent /\ data' = fetch
  /\ selected' = IF Reset(fetch) THEN None ELSE selected
  /\ mark' = (mark /\ ~SeenOver(fetch))
  /\ fresh' = IF fresh = "reading" THEN "fresh" ELSE fresh
  /\ UNCHANGED <<session, now, wire, phase, menu, dialog, asked, foreign>>

Hear ==
  /\ wire # <<>> /\ wire' = Tail(wire)
  /\ phase' = IF Head(wire) = "rechecking" THEN "rechecking" ELSE "none"
  /\ mark' = (mark /\ phase' # "rechecking")
  /\ UNCHANGED <<session, now, fetch, data, selected, menu, dialog, asked, foreign, fresh>>

Next ==
  \/ session.kinds \cap {"full", "autoremove"} # {} /\ OpenMenu
  \/ Close \/ ConfirmUpgrade \/ ConfirmSelected \/ Confirm \/ ConfirmHide
  \/ "packages" \in session.kinds /\ \E p \in Packages : Toggle(p)
  \/ "hide" \in session.kinds /\ \E p \in Packages : AskToHide(p)
  \/ \E k \in session.kinds : Ask(k) \/ Press(k)
  \/ \E i \in 1 .. Len(asked) : Begin(i) \/ Apply(i) \/ Fails(i) \/ Supersede(i) \/ Answer(i)
  \/ \E k \in Operations \cap session.kinds : ForeignBegins(k)
  \/ Recheck \/ Ends \/ Read \/ Arrive \/ Hear

Spec == Init /\ [][Next]_vars

-------------------------------------------------------------------------------
\* A box that is checked was checked for the version beside it, unless the
\* selection came back after its upgrade was refused.
SelectionIsCurrent ==
  \A p \in Selected :
    \/ selected[p] = data.updates[p]
    \/ \E i \in 1 .. Len(asked) : asked[i].state = "refused" /\ asked[i].of[p] = selected[p]

\* Not so: it comes back although the versions may have changed since.
EverySelectionIsCurrent == \A p \in Selected : selected[p] = data.updates[p]

\* Once the page has heard of everything, nothing on it is disabled.
SettlesIdle ==
  fresh = "fresh" /\ wire = <<>> /\ fetch = Absent /\ now.op = Absent /\ ~Pending(Kinds)
    => ~Busy

\* The answer to a request to hide an update closes no dialog about another one.
ClosesOwnDialog ==
  \A i \in 1 .. Len(asked) :
    asked[i].kind = "hide" /\ Open(asked[i]) /\ Asking("hide") => dialog.of = asked[i].of

SystemPageSound == SelectionIsCurrent /\ SettlesIdle /\ ClosesOwnDialog
================================================================================
