------------------------------ MODULE TelegramMenus ------------------------------
(***************************************************************************)
(* The menus and commands of the Telegram bot (services/telegram-bot.ts):  *)
(* pages of systems and packages with buttons that stay in the chat and    *)
(* can be pressed at any later time, prompts that ask for a confirmation,  *)
(* and commands for all systems, while the systems, the channel's scope    *)
(* and the exclusions from Upgrade All change.                             *)
(*                                                                         *)
(* One chat of one channel.  Its token and binding are in TelegramChannel, *)
(* the delivery of updates in TelegramUpdates, the jobs in Jobs.  Names    *)
(* and texts are left out: a typed command is the press of a button that   *)
(* need not have been shown.  The dashboard's order is that of the ids.    *)
(***************************************************************************)
EXTENDS Integers, Sequences, FiniteSets, Functions

CONSTANTS Systems,   \* ids
          Packages,  \* numbers, in their order
          PageSize,  \* MENU_PAGE_SIZE, PACKAGE_MENU_PAGE_SIZE
          Absent,
          Visits     \* bound: [presses, edits, kinds] of a chat

VARIABLES sys,      \* the systems at the API
          channel,  \* the notification's row
          buttons,  \* those in the chat
          shown,    \* the last message
          doing,    \* the update that the worker handles
          asked,    \* pendingConfirmations, and those that are used up
          barred,   \* what a command may not touch since before its button was pressed
          bulk,     \* a command for all that is not reported yet
          started,  \* the systems whose jobs the last command started
          summary,  \* buildBulkSummaryMessage
          visit

vars == <<sys, channel, buttons, shown, doing, asked, barred, bulk, started, summary, visit>>

Lists == {"check", "upgrade", "fullupgrade", "pkgsys", "pkglist"}
Bulks == {"check", "upgrade", "fullupgrade"}

\* callback_data
Blank == [do |-> "root", action |-> "", s |-> 0, page |-> 0, from |-> 0, p |-> 0]
ListButton(action, page) == [Blank EXCEPT !.do = "list", !.action = action, !.page = page]
RunButton(action, s, page) ==
  [Blank EXCEPT !.do = "run", !.action = action, !.s = s, !.from = page]
AllButton(action) == [Blank EXCEPT !.do = "runall", !.action = action]
PageButton(s, page, from) ==
  [Blank EXCEPT !.do = "pkgpage", !.s = s, !.page = page, !.from = from]
PackageButton(s, from, p) == [Blank EXCEPT !.do = "pkg", !.s = s, !.from = from, !.p = p]
ConfirmButton(token) == [Blank EXCEPT !.do = "confirm", !.p = token]

\* buildRootMenuKeyboard
RootButtons == {ListButton(action, 0) : action \in Lists}

\* What can be typed.
Typed == {AllButton(action) : action \in Bulks}
  \cup {RunButton(action, s, 0) : action \in Bulks, s \in Systems}
  \cup {PackageButton(s, 0, p) : s \in Systems, p \in Packages}

Message(kind) == [kind |-> kind, s |-> 0, items |-> <<>>, all |-> <<>>, prev |-> FALSE,
                  next |-> FALSE, from |-> 0]

TypeOK ==
  /\ sys \in [Systems -> [listed : BOOLEAN, excluded : BOOLEAN, full : BOOLEAN,
                          updates : SUBSET Packages]]
  /\ channel \in [scope : SUBSET Systems, enabled : BOOLEAN]
  /\ \A b \in buttons : b.do \in {"root", "list", "run", "runall", "pkgpage", "pkg", "confirm"}
  /\ shown.kind \in {"none", "text", "list", "packages", "prompt", "error"}
  /\ doing.pc \in {"idle", "answering", "fetching", "packages", "starting"}
  /\ \A i \in DOMAIN asked : asked[i].targets \subseteq Systems
  /\ barred.scope \cup barred.sys \subseteq Systems /\ started \subseteq Systems
  /\ bulk # Absent => bulk.waiting \subseteq Systems

Idle == [pc |-> "idle", button |-> Blank, scope |-> {}, targets |-> {}]

\* Out of the channel's scope, and not to be touched for what the system is itself.
Unbarred == [scope |-> {}, sys |-> {}]

MenusAssumption ==
  /\ IsFiniteSet(Systems) /\ Systems \subseteq Nat /\ IsFiniteSet(Packages) /\ Packages \subseteq Nat
  /\ PageSize \in Nat \ {0}
  /\ Absent \notin [waiting : SUBSET Systems, denied : BOOLEAN,
                   report : [total : Nat, success : Nat, warning : Nat, failed : Nat]]
  /\ \A v \in Visits : /\ v \in [presses : Nat, edits : Nat, allEdits : Nat, kinds : {v.kinds}]
                       /\ v.edits = v.allEdits

Init ==
  /\ sys \in [Systems -> [listed : {TRUE}, excluded : BOOLEAN, full : BOOLEAN,
                          updates : {{}, Packages}]]
  /\ channel = [scope |-> Systems, enabled |-> TRUE]
  /\ buttons = RootButtons /\ shown = Message("none") /\ doing = Idle /\ asked = <<>>
  /\ barred = Unbarred /\ bulk = Absent /\ started = {} /\ summary = Absent
  /\ visit \in Visits

-------------------------------------------------------------------------------
\* fetchAllowedSystems, with the scope of the row the caller holds
Allowed(scope) == {s \in scope : sys[s].listed}

\* filterSystemsForAction
ForAction(scope, action) ==
  {s \in Allowed(scope) :
     /\ action # "check" => sys[s].updates # {}
     /\ action = "fullupgrade" => sys[s].full}

\* getSystemsForBulkAction
ForBulk(scope, action) ==
  {s \in ForAction(scope, action) : action # "check" => ~sys[s].excluded}

\* Mutant: a page behind the last one.
ClampedToCount(page, n) ==
  LET pages == IF n = 0 THEN 1 ELSE (n + PageSize - 1) \div PageSize
  IN IF page > pages THEN pages ELSE page

\* clampPage
Clamped(page, n) ==
  LET pages == IF n = 0 THEN 1 ELSE (n + PageSize - 1) \div PageSize
  IN IF page > pages - 1 THEN pages - 1 ELSE page

InOrder(S) == CHOOSE q \in [1 .. Cardinality(S) -> S] : \A k, l \in DOMAIN q : k < l => q[k] < q[l]

\* The items of a page, and whether there are pages before and behind it.
PageOf(kind, s, S, page, from) ==
  LET all == InOrder(S)
      safe == Clamped(page, Len(all))
      start == safe * PageSize
      end == IF start + PageSize > Len(all) THEN Len(all) ELSE start + PageSize
  IN [kind |-> kind, s |-> s, items |-> SubSeq(all, start + 1, end), all |-> all,
      prev |-> safe > 0, next |-> start + PageSize < Len(all), from |-> from]

\* buildSystemMenuKeyboard
SystemButtons(action, S, page) ==
  LET message == PageOf("list", 0, S, page, 0)
      safe == Clamped(page, Len(message.all))
  IN {RunButton(action, s, safe) : s \in Range(message.items)}
     \cup {b \in {ListButton(action, safe - 1)} : message.prev}
     \cup {b \in {ListButton(action, safe + 1)} : message.next}
     \cup {b \in {AllButton(action)} : action \in Bulks}

\* Mutant: the page of the systems and that of the packages change places.
PackageButtonsSwapped(s, S, page, from) ==
  LET message == PageOf("packages", s, S, page, from)
      safe == Clamped(page, Len(message.all))
  IN {PackageButton(s, from, p) : p \in Range(message.items)}
     \cup {b \in {PageButton(s, from, safe - 1)} : message.prev}
     \cup {b \in {PageButton(s, from, safe + 1)} : message.next}
     \cup {ListButton("pkgsys", from)}

\* buildPackageMenuKeyboard
PackageButtons(s, S, page, from) ==
  LET message == PageOf("packages", s, S, page, from)
      safe == Clamped(page, Len(message.all))
  IN {PackageButton(s, from, p) : p \in Range(message.items)}
     \cup {b \in {PageButton(s, safe - 1, from)} : message.prev}
     \cup {b \in {PageButton(s, safe + 1, from)} : message.next}
     \cup {ListButton("pkgsys", from)}

\* A message ends the handling of an update.
Says(message, more) ==
  /\ shown' = message /\ buttons' = buttons \cup more /\ doing' = Idle /\ barred' = Unbarred
  /\ UNCHANGED <<sys, channel, bulk, started, summary, visit>>

Say(kind) == Says(Message(kind), {}) /\ UNCHANGED asked

\* createConfirmation
Prompt(command, targets, p) ==
  /\ asked' = Append(asked, [command |-> command, targets |-> targets, p |-> p, used |-> FALSE])
  /\ Says(Message("prompt"), {ConfirmButton(Len(asked'))})

Goto(pc, targets) ==
  /\ doing' = [doing EXCEPT !.pc = pc, !.targets = targets]
  /\ UNCHANGED <<sys, channel, buttons, shown, asked, barred, bulk, started, summary, visit>>

-------------------------------------------------------------------------------
OfAll == {"upgrade-all", "full-upgrade-all"}

\* A command for all heeds exclusions when it upgrades.
IsUpgradeOfAll(b) ==
  \/ b.do = "runall" /\ b.action # "check"
  \/ b.do = "confirm" /\ b.p \in DOMAIN asked /\ asked[b.p].command \in OfAll

Permits(s, b) == sys[s].listed /\ (IsUpgradeOfAll(b) => ~sys[s].excluded)

\* handleCallbackQuery, handleCommandMessage: findCommandChannel, or the confirmation.
Press ==
  /\ doing.pc = "idle" /\ visit.presses > 0 /\ bulk = Absent
  /\ \E b \in buttons \cup (IF "type" \in visit.kinds THEN Typed ELSE {}) :
       /\ b.do \in {"run", "runall", "list"} => b.action \in visit.kinds
       /\ visit' = [visit EXCEPT !.presses = @ - 1]
       /\ IF b.do = "confirm"
          THEN IF asked[b.p].used THEN UNCHANGED <<asked, doing>>
               ELSE /\ asked' = [asked EXCEPT ![b.p].used = TRUE]
                    /\ doing' = [Idle EXCEPT !.pc = "answering", !.button = b]
          ELSE /\ doing' = IF channel.enabled
                           THEN [Idle EXCEPT !.pc = "fetching", !.button = b,
                                             !.scope = channel.scope]
                           ELSE Idle
               /\ UNCHANGED asked
       /\ barred' = IF doing'.pc = "idle" THEN Unbarred
                    ELSE [scope |-> Systems \ channel.scope, sys |-> {s \in Systems : ~Permits(s, b)}]
  /\ started' = {}
  /\ UNCHANGED <<sys, channel, buttons, shown, bulk, summary>>

\* "Cancelled.", or "This confirmation expired."
Withdraw ==
  /\ doing.pc = "idle" /\ \E i \in DOMAIN asked : ~asked[i].used
  /\ \E i \in DOMAIN asked : ~asked[i].used /\ asked' = [asked EXCEPT ![i].used = TRUE]
  /\ UNCHANGED <<sys, channel, buttons, shown, doing, barred, bulk, started, summary, visit>>

\* The row is read after the press was answered.
ReadRow ==
  /\ doing.pc = "answering"
  /\ IF ~channel.enabled THEN Say("text")
     ELSE /\ doing' = [doing EXCEPT !.pc = "fetching", !.scope = channel.scope]
          /\ UNCHANGED <<sys, channel, buttons, shown, asked, barred, bulk, started, summary, visit>>

\* The API does not answer, or not as it should: sendCommandExecutionError.
RequestFails == doing.pc \in {"fetching", "packages"} /\ Say("error")

\* promptSystemSelection
SystemsListed ==
  LET b == doing.button
      S == ForAction(doing.scope, b.action)
  IN /\ doing.pc = "fetching" /\ b.do = "list"
     /\ IF S = {} THEN Say("text")
        ELSE /\ Says(PageOf("list", 0, S, b.page, 0), SystemButtons(b.action, S, b.page))
             /\ UNCHANGED asked

\* executeCommandForSystem, or what a system's packages are asked for.
SystemChosen ==
  LET b == doing.button IN
  /\ doing.pc = "fetching" /\ b.do = "run"
  /\ CASE b.s \notin Allowed(doing.scope) -> Say("text")
       [] b.action \in {"pkgsys", "pkglist"} -> Goto("packages", {b.s})
       [] b.action = "check" -> Goto("starting", {b.s})
       [] b.action = "fullupgrade" /\ ~sys[b.s].full -> Say("text")
       [] OTHER -> Prompt(IF b.action = "upgrade" THEN "upgrade" ELSE "full-upgrade", {b.s}, 0)

\* A refresh of all is not confirmed; promptBulkConfirmation.
AllChosen ==
  LET b == doing.button
      S == ForBulk(doing.scope, b.action)
  IN /\ doing.pc = "fetching" /\ b.do = "runall"
     /\ CASE S = {} -> Say("text")
          [] b.action = "check" -> Goto("starting", S)
          [] OTHER -> Prompt(IF b.action = "upgrade" THEN "upgrade-all" ELSE "full-upgrade-all", S, 0)

PackagePageChosen ==
  LET b == doing.button IN
  /\ doing.pc = "fetching" /\ b.do = "pkgpage"
  /\ IF b.s \in Allowed(doing.scope) THEN Goto("packages", {b.s}) ELSE Say("text")

PackageChosen ==
  LET b == doing.button IN
  /\ doing.pc = "fetching" /\ b.do = "pkg"
  /\ IF b.s \in Allowed(doing.scope) THEN Prompt("upgrade-package", {b.s}, b.p) ELSE Say("text")

\* promptPackageSelection, sendPackageUpdates
PackagesListed ==
  LET b == doing.button
      S == sys[b.s].updates
  IN /\ doing.pc = "packages"
     /\ CASE S = {} -> Say("text")
          [] b.action = "pkglist" ->
               Says(Message("text"), {ListButton("pkglist", b.from)}) /\ UNCHANGED asked
          [] OTHER -> /\ Says(PageOf("packages", b.s, S, b.page, b.from),
                              PackageButtons(b.s, S, b.page, b.from))
                      /\ UNCHANGED asked

\* Mutant: what is allowed now, whatever was asked for.
RevalidatedAnew(scope, confirmation) ==
  IF confirmation.command \in OfAll
  THEN {s \in Allowed(scope) : ~sys[s].excluded} ELSE confirmation.targets \cap Allowed(scope)

\* Mutant: without the exclusions.
RevalidatedScope(scope, confirmation) == confirmation.targets \cap Allowed(scope)

\* revalidatePendingConfirmation
Revalidated(scope, confirmation) ==
  {s \in confirmation.targets \cap Allowed(scope) :
     confirmation.command \in OfAll => ~sys[s].excluded}

Confirmed ==
  LET S == Revalidated(doing.scope, asked[doing.button.p])
  IN /\ doing.pc = "fetching" /\ doing.button.do = "confirm"
     /\ IF S = {} THEN Say("text") ELSE Goto("starting", S)

IsBulk(b) ==
  b.do = "runall" \/ (b.do = "confirm" /\ asked[b.p].command \in OfAll)

Report(total, success, warning, failed) ==
  [total |-> total, success |-> success, warning |-> warning, failed |-> failed]

\* executeBulkCommand, startAsyncCommand: the requests are sent together.  One that is
\* refused for its token ends the command, whatever the others have started.
Start ==
  /\ doing.pc = "starting" /\ doing' = Idle /\ barred' = Unbarred
  /\ \E jobs \in SUBSET doing.targets, denied \in BOOLEAN :
       /\ denied => jobs # doing.targets
       /\ started' = jobs
       /\ shown' = Message(IF denied \/ (jobs = {} /\ ~IsBulk(doing.button)) THEN "error" ELSE "text")
       /\ LET failed == Cardinality(doing.targets \ jobs) IN
          IF denied \/ ~IsBulk(doing.button) THEN UNCHANGED <<bulk, summary>>
          ELSE IF jobs = {}
               THEN summary' = Report(failed, 0, 0, failed) /\ UNCHANGED bulk
               ELSE /\ bulk' = [waiting |-> jobs, denied |-> FALSE,
                                report |-> Report(Cardinality(doing.targets), 0, 0, failed)]
                    /\ UNCHANGED summary
  /\ UNCHANGED <<sys, channel, buttons, asked, visit>>

\* Mutant: a job that failed is not counted.
JobEndsUncounted(s, outcome) ==
  /\ bulk # Absent /\ s \in bulk.waiting
  /\ bulk' = [bulk EXCEPT !.waiting = @ \ {s}, !.denied = @ \/ outcome = "denied",
                          !.report = IF outcome \in {"success", "warning"}
                                     THEN [@ EXCEPT ![outcome] = @ + 1] ELSE @]
  /\ UNCHANGED <<sys, channel, buttons, shown, doing, asked, barred, started, summary, visit>>

Counted(report, outcome) == [report EXCEPT ![outcome] = @ + 1]

\* awaitJobResult: its result, or the polling fails or times out.
JobEnds(s, outcome) ==
  /\ bulk # Absent /\ s \in bulk.waiting
  /\ bulk' = [bulk EXCEPT !.waiting = @ \ {s}, !.denied = @ \/ outcome = "denied",
                          !.report = IF outcome = "denied" THEN @ ELSE Counted(@, outcome)]
  /\ UNCHANGED <<sys, channel, buttons, shown, doing, asked, barred, started, summary, visit>>

ReportBulk ==
  /\ bulk # Absent /\ bulk.waiting = {}
  /\ summary' = IF bulk.denied THEN summary ELSE bulk.report
  /\ bulk' = Absent
  /\ UNCHANGED <<sys, channel, buttons, shown, doing, asked, barred, started, visit>>

\* Meanwhile at the dashboard.
Edit ==
  /\ visit.edits > 0 /\ visit' = [visit EXCEPT !.edits = @ - 1]
  /\ \/ /\ UNCHANGED channel
        /\ \E s \in Systems :
             \/ "exclude" \in visit.kinds /\ sys' = [sys EXCEPT ![s].excluded = ~@]
             \/ "hide" \in visit.kinds /\ sys' = [sys EXCEPT ![s].listed = ~@]
             \/ \E S \in SUBSET Packages :
                  "updates" \in visit.kinds /\ sys' = [sys EXCEPT ![s].updates = S]
     \/ /\ UNCHANGED sys /\ "scope" \in visit.kinds
        /\ \/ \E S \in SUBSET Systems : channel' = [channel EXCEPT !.scope = S]
           \/ channel' = [channel EXCEPT !.enabled = ~@]
  /\ UNCHANGED <<buttons, shown, doing, asked, bulk, started, summary>>
  /\ barred' = [scope |-> barred.scope \ channel'.scope,
                sys |-> {s \in barred.sys : ~Permits(s, doing.button)'}]

Next ==
  \/ Press \/ Withdraw \/ ReadRow \/ RequestFails \/ SystemsListed \/ SystemChosen \/ AllChosen
  \/ PackagePageChosen \/ PackageChosen \/ PackagesListed \/ Confirmed \/ Start \/ ReportBulk
  \/ Edit
  \/ \E s \in Systems, outcome \in {"success", "warning", "failed", "denied"} : JobEnds(s, outcome)

Spec == Init /\ [][Next]_vars

-------------------------------------------------------------------------------
\* A page is never empty, however old the button that asked for it, and what it does
\* not show lies behind its buttons.
PagesShowAll ==
  shown.kind \in {"list", "packages"} =>
    /\ shown.items # <<>>
    /\ shown.prev \/ Head(shown.items) = Head(shown.all)
    /\ shown.next \/ shown.items[Len(shown.items)] = shown.all[Len(shown.all)]

\* From each page of a system's packages, Back leads to the page of the system (where
\* the systems are still those of then).
BackFindsSystem ==
  shown.kind = "packages" /\ visit.edits = visit.allEdits =>
    shown.s \in Range(PageOf("list", 0, ForAction(channel.scope, "pkgsys"), shown.from, 0).items)

\* What a confirmed command starts was named in its prompt.
StartsWhatWasShown ==
  doing.pc = "starting" /\ doing.button.do = "confirm"
    => doing.targets \subseteq asked[doing.button.p].targets

\* However old the button, a command touches no system that is out of the channel's scope
\* since before it was pressed, nor one that all this time is hidden (or excluded from
\* Upgrade All, if it is for all).
StartsPermitted ==
  doing.pc = "starting" => doing.targets \cap (barred.scope \cup barred.sys) = {}

\* A summary counts each system once.
SummaryAddsUp ==
  summary # Absent => summary.success + summary.warning + summary.failed = summary.total

TelegramMenusSound ==
  PagesShowAll /\ BackFindsSystem /\ StartsWhatWasShown /\ StartsPermitted /\ SummaryAddsUp

\* Not so: "all" targets every allowed system for the action.  It leaves out those that
\* are excluded from Upgrade All, which the list above its button shows.
AllAreAllowed ==
  Len(asked) > 0 /\ visit.edits = visit.allEdits /\ shown.kind = "prompt"
    /\ asked[Len(asked)].command \in OfAll
    => asked[Len(asked)].targets
         = ForAction(channel.scope, IF asked[Len(asked)].command = "upgrade-all" THEN "upgrade"
                                    ELSE "fullupgrade")

\* Not so: a confirmed upgrade finds updates.  Only its system is looked up again.
ConfirmedHaveUpdates ==
  doing.pc = "starting" /\ doing.button.do = "confirm"
    => \A s \in doing.targets : sys[s].updates # {}

\* Not so: a command that ends in an error has started nothing.  One refused request ends
\* a command for all; the jobs that the others started are not reported.
ErrorsStartedNothing == shown.kind = "error" => started = {}
================================================================================
