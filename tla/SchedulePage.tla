------------------------------ MODULE SchedulePage ------------------------------
(***************************************************************************)
(* The page Schedules (client/pages/Schedules.tsx): its list, whose order  *)
(* is dragged, the form in which a schedule is made, copied or edited, and *)
(* what they send to the server (routes/schedules.ts), which checks and    *)
(* stores it (services/schedule-service.ts).  What a schedule does is in   *)
(* Schedules.                                                              *)
(*                                                                         *)
(* A name is Blank, fits, is as long as it may be, or longer; a cron       *)
(* expression is the preset of the form, or one of the user's own, which   *)
(* may be too frequent, or not valid.  Schedules in the same place are     *)
(* listed by name, for which their id stands.                              *)
(***************************************************************************)
EXTENDS Integers, FiniteSets, FiniteSetsExt, SequencesExt

CONSTANTS Systems, Channels,
          Absent, Blank,
          All,               \* no list of systems: all of them
          MaxSchedules,      \* bound: schedules ever created
          Sessions           \* bound: the schedules, and what is done with them how often

VARIABLES server,     \* schedules and their places by id, the last id, visible systems, channels
          data,       \* what the page has read of them
          list,       \* orderedSchedules
          armed,      \* rows can be dragged
          form,
          dialog,     \* deleteId
          wire,       \* the requests that are not answered yet, in their order
          told,       \* what the last request asked for that changed something
          session     \* what is left of it

vars == <<server, data, list, armed, form, dialog, wire, told, session>>

Ids == 1 .. MaxSchedules
Crons == {"preset", "own"}

Row == [type : {"refresh", "update", "digest"}, enabled : BOOLEAN, name : {"fit", "full"},
        cron : Crons, hours : 0 .. 168, systems : (SUBSET Systems) \cup {All},
        channels : SUBSET Channels]

TypeOK ==
  /\ server.last \in 0 .. MaxSchedules
  /\ DOMAIN server.rows \subseteq 1 .. server.last /\ DOMAIN server.place = DOMAIN server.rows
  /\ \A i \in DOMAIN server.rows : server.rows[i] \in Row /\ server.place[i] \in Nat
  /\ \A known \in {list, data.schedules} : \A k \in DOMAIN known : known[k].id \in Ids
  /\ armed \in BOOLEAN /\ dialog \in Ids \cup {Absent}

\* What the proofs need of the constants.
SchedulePageAssumption ==
  /\ \A S \in SUBSET Systems : All # S
  /\ \A t \in Sessions : t.rows \in Seq(Row)

-------------------------------------------------------------------------------
(* The server. *)

Listed(s) ==
  LET before(i, j) == s.place[i] < s.place[j] \/ (s.place[i] = s.place[j] /\ i < j)
      order == CHOOSE q \in [1 .. Cardinality(DOMAIN s.rows) -> DOMAIN s.rows] :
                 \A k, l \in DOMAIN q : k < l => before(q[k], q[l])
  IN [k \in DOMAIN order |-> [id |-> order[k], row |-> s.rows[order[k]]]]

IdsOf(items) == [k \in DOMAIN items |-> items[k].id]

\* validateScheduleName, validateScheduleConfig, validateNotificationScheduleTargets
Valid(ask) ==
  /\ ask.name \in {"fit", "full"} /\ ask.cron \in Crons
  /\ ask.type = "digest" => ask.channels \subseteq server.channels

\* Mutant: no systems are stored like all of them.
NormalNone(ask) == [ask EXCEPT !.systems = IF ask.type = "digest" \/ @ = {} THEN All ELSE @]

\* normalizeScheduleConfig: the settings of other types are dropped, which come back as
\* their defaults; a digest has no systems.
Normal(ask) ==
  [ask EXCEPT !.systems = IF ask.type = "digest" THEN All ELSE @,
              !.channels = IF ask.type = "digest" THEN @ ELSE {},
              !.hours = IF ask.type = "refresh" THEN @ ELSE 12]

\* Mutant: the number of schedules.
NextCounted == Cardinality(DOMAIN server.place)

\* Behind the last one.
NextPlace ==
  IF DOMAIN server.place = {} THEN 0 ELSE 1 + Max({server.place[i] : i \in DOMAIN server.place})

Added(rows, i, row) == [j \in DOMAIN rows \cup {i} |-> IF j = i THEN row ELSE rows[j]]

Created(row) ==
  [server EXCEPT !.last = @ + 1,
                 !.rows = Added(@, server.last + 1, row),
                 !.place = Added(@, server.last + 1, NextPlace)]

Deleted(i) ==
  [server EXCEPT !.rows = [j \in DOMAIN @ \ {i} |-> @[j]],
                 !.place = [j \in DOMAIN @ \ {i} |-> @[j]]]

\* Mutant: schedules that are not named stay where they are.
CoversSome(order) == {order[k] : k \in DOMAIN order} \subseteq DOMAIN server.rows

\* The check of reorderSchedules.
Covers(order) ==
  /\ Len(order) = Cardinality(DOMAIN server.rows)
  /\ {order[k] : k \in DOMAIN order} = DOMAIN server.rows

Reordered(order) ==
  [server EXCEPT !.place = [i \in DOMAIN @ |->
     LET at == {k \in DOMAIN order : order[k] = i}
     IN IF at = {} THEN @[i] ELSE CHOOSE p \in 0 .. Len(order) : p + 1 \in at]]

-------------------------------------------------------------------------------
(* What the page reads. *)

Init ==
  /\ \E t \in Sessions :
       /\ session = t
       /\ server = [rows |-> t.rows, place |-> [i \in DOMAIN t.rows |-> i - 1], last |-> Len(t.rows),
                    visible |-> Systems, channels |-> Channels]
  /\ data = [schedules |-> Listed(server), visible |-> {}, channels |-> {}]
  /\ list = data.schedules /\ armed = TRUE
  /\ form = Absent /\ dialog = Absent /\ wire = <<>> /\ told = Absent

\* A form that edits goes with its schedule; what was entered in it stays.  It knows the
\* systems that it has listed.
Kept(f, read) ==
  CASE f = Absent -> Absent
    [] f # Absent /\ f.mode = "edit" /\ (\A k \in DOMAIN read.schedules : read.schedules[k].id # f.id) -> Absent
    [] OTHER -> [f EXCEPT !.seen = @ \cup read.visible]

\* The list is made anew when anything of the schedules changed, be it the time of a run.
\* Each time the page is drawn, the rows can be dragged again.
Read ==
  /\ \/ /\ data' = [data EXCEPT !.schedules = Listed(server)]
        /\ list' = data'.schedules
     \/ /\ data' = [data EXCEPT !.visible = server.visible]
        /\ data' # data /\ UNCHANGED list
     \/ /\ data' = [data EXCEPT !.channels = server.channels]
        /\ data' # data /\ UNCHANGED list
  /\ form' = Kept(form, data')
  /\ armed' = TRUE
  /\ UNCHANGED <<server, dialog, wire, told, session>>

\* getSystemScopeLabel: at most two of the systems are named, otherwise they are counted.
Target(row) ==
  LET names == row.systems \cap data.visible IN
  CASE row.systems = All -> [label |-> "all"]
    [] row.systems = {} -> [label |-> "none"]
    [] row.systems \notin {All, {}} /\ names # {} /\ Cardinality(names) <= 2 ->
         [label |-> "names", names |-> names]
    [] OTHER -> [label |-> "count"]

-------------------------------------------------------------------------------
(* The form. *)

InList == form = Absent /\ dialog = Absent    \* the list can be reached

\* The name of a copy gets an addition.
Opened(mode, id, row) ==
  [mode |-> mode, id |-> id, before |-> row, type |-> row.type, enabled |-> row.enabled,
   name |-> IF mode # "copy" THEN row.name ELSE IF row.name = "full" THEN "long" ELSE "fit",
   choice |-> IF row.cron = "preset" THEN "preset" ELSE "custom",
   custom |-> IF row.cron = "preset" THEN Blank ELSE row.cron,
   hours |-> row.hours, all |-> row.systems = All,
   systems |-> IF row.systems = All THEN {} ELSE row.systems, channels |-> row.channels,
   seen |-> data.visible]

New == [type |-> "refresh", enabled |-> TRUE, name |-> Blank, cron |-> "preset", hours |-> 12,
        systems |-> All, channels |-> {}]

Draw(f) == form' = f /\ armed' = TRUE

OpenNew ==
  /\ InList /\ "new" \in session.kinds /\ Draw(Opened("new", Absent, New))
  /\ UNCHANGED <<server, data, list, dialog, wire, told, session>>

\* The row is the one listed.
Open(mode, k) ==
  /\ InList /\ mode \in session.kinds /\ Draw(Opened(mode, list[k].id, list[k].row))
  /\ UNCHANGED <<server, data, list, dialog, wire, told, session>>

\* Also while a save is on its way.
Cancel ==
  /\ form # Absent /\ Draw(Absent)
  /\ UNCHANGED <<server, data, list, dialog, wire, told, session>>

Edit(kind, changed) ==
  /\ kind \in session.kinds /\ session.edits > 0
  /\ session' = [session EXCEPT !.edits = @ - 1]
  /\ form' = changed
  /\ UNCHANGED <<server, data, list, armed, dialog, wire, told>>

Toggled(set, x) == IF x \in set THEN set \ {x} ELSE set \cup {x}

Active == IF form.choice = "preset" THEN "preset" ELSE form.custom

EditName == \E n \in {"fit", Blank} : Edit("name", [form EXCEPT !.name = n])

\* handleGenerateName: of the cron expression, if that is valid; cut to fit.
GenerateName ==
  /\ Active \notin {Blank, "invalid"}
  /\ Edit("name", [form EXCEPT !.name = "fit"])

ChooseType ==
  \E t \in {"refresh", "update", "digest"} : Edit("type", [form EXCEPT !.type = t])

Enable == Edit("enabled", [form EXCEPT !.enabled = ~@])

ToggleChannel(c) ==
  /\ form.type = "digest" /\ c \in data.channels
  /\ Edit("channels", [form EXCEPT !.channels = Toggled(@, c)])

ChooseScope == form.type # "digest" /\ Edit("systems", [form EXCEPT !.all = ~@])

ToggleSystem(x) ==
  /\ form.type # "digest" /\ ~form.all /\ x \in data.visible
  /\ Edit("systems", [form EXCEPT !.systems = Toggled(@, x)])

EditCron ==
  \/ Edit("cron", [form EXCEPT !.choice = IF @ = "preset" THEN "custom" ELSE "preset"])
  \/ /\ form.choice = "custom"
     /\ \E c \in {"own", "frequent", "invalid", Blank} : Edit("cron", [form EXCEPT !.custom = c])

EditHours ==
  /\ form.type = "refresh"
  /\ \E h \in {Blank, -1, 0, 200} : Edit("hours", [form EXCEPT !.hours = h])

-------------------------------------------------------------------------------
(* What is sent.  The callbacks of a request are those of the last one of  *)
(* its kind (react-query); the schedules are read again after any.         *)

Pending(hook) == \E k \in DOMAIN wire : wire[k].hook = hook /\ wire[k].latest

Send(hook, r) ==
  /\ session.presses > 0 /\ session' = [session EXCEPT !.presses = @ - 1]
  /\ wire' = Append([k \in DOMAIN wire |-> [wire[k] EXCEPT !.latest = @ /\ wire[k].hook # hook]],
                    [hook |-> hook, ask |-> r, latest |-> TRUE, answer |-> "none"])

\* parseBoundedInteger
Bounded(hours) == IF hours = Blank THEN 12 ELSE IF hours < 0 THEN 0 ELSE IF hours > 168 THEN 168 ELSE hours

\* Mutant: the systems are those that are ticked in the list.
BuiltTicked ==
  [type |-> form.type, enabled |-> form.enabled, name |-> form.name, cron |-> Active,
   hours |-> IF form.type = "refresh" THEN Bounded(form.hours) ELSE 12,
   systems |-> IF form.type = "digest" \/ form.all THEN All ELSE form.systems \cap data.visible,
   channels |-> IF form.type = "digest" THEN form.channels ELSE {}]

Built ==
  [type |-> form.type, enabled |-> form.enabled, name |-> form.name, cron |-> Active,
   hours |-> IF form.type = "refresh" THEN Bounded(form.hours) ELSE 12,
   systems |-> IF form.type = "digest" \/ form.all THEN All ELSE form.systems,
   channels |-> IF form.type = "digest" THEN form.channels ELSE {}]

\* handleSubmit, handleCreate, handleUpdate.  That a cron expression is too frequent is only
\* a warning here.
Submit ==
  LET hook == IF form.mode = "edit" THEN "update" ELSE "create" IN
  /\ form # Absent /\ ~Pending(hook)
  /\ form.name # Blank /\ Active \notin {Blank, "invalid"}
  /\ Send(hook, [what |-> "save", id |-> form.id, row |-> Built, form |-> form,
                 visible |-> data.visible, listed |-> data.channels])
  /\ armed' = TRUE
  /\ UNCHANGED <<server, data, list, form, dialog, told>>

\* handleToggleEnabled: the other value than the one listed, and nothing else.
ToggleEnabled(k) ==
  /\ InList /\ "toggle" \in session.kinds
  /\ Send("update", [what |-> "toggle", id |-> list[k].id, enabled |-> ~list[k].row.enabled])
  /\ armed' = TRUE
  /\ UNCHANGED <<server, data, list, form, dialog, told>>

AskDelete(k) ==
  /\ InList /\ "delete" \in session.kinds /\ dialog' = list[k].id /\ armed' = TRUE
  /\ UNCHANGED <<server, data, list, form, wire, told, session>>

CloseDialog ==
  /\ dialog # Absent /\ dialog' = Absent /\ armed' = TRUE
  /\ UNCHANGED <<server, data, list, form, wire, told, session>>

\* handleDelete
ConfirmDelete ==
  /\ dialog # Absent /\ ~Pending("delete")
  /\ Send("delete", [what |-> "delete", id |-> dialog])
  /\ armed' = TRUE
  /\ UNCHANGED <<server, data, list, form, dialog, told>>

\* Mutant: the place is one of the list that still has the row.
MovedBefore(items, i, j) == RemoveAt(InsertAt(items, j, items[i]), IF i < j THEN i ELSE i + 1)

\* moveSchedule
Moved(items, i, j) == InsertAt(RemoveAt(items, i), j, items[i])

\* The end of a drag.  Rows cannot be dragged from when the request is pending to when the
\* page is drawn again, or the request is over.
Drop(i, j) ==
  /\ InList /\ armed /\ i # j /\ "drag" \in session.kinds
  /\ list' = Moved(list, i, j)
  /\ Send("reorder", [what |-> "order", order |-> IdsOf(list'), from |-> i, to |-> j, previous |-> list])
  /\ armed' = FALSE
  /\ UNCHANGED <<server, data, form, dialog, told>>

-------------------------------------------------------------------------------
(* Requests are served in any order. *)

\* updateSchedule: of a toggle, the rest stays.
Changed(row, ask) ==
  IF ask.what = "save" THEN Normal(ask.row) ELSE [row EXCEPT !.enabled = ask.enabled]

Effect(r) ==
  \/ /\ r.hook = "create" /\ Valid(r.ask.row) /\ server.last < MaxSchedules
     /\ server' = Created(Normal(r.ask.row)) /\ told' = [r.ask EXCEPT !.id = server.last + 1]
  \/ /\ r.hook = "update" /\ r.ask.id \in DOMAIN server.rows
     /\ LET row == IF r.ask.what = "save" THEN r.ask.row ELSE server.rows[r.ask.id] IN Valid(row)
     /\ server' = [server EXCEPT !.rows[r.ask.id] = Changed(@, r.ask)] /\ told' = r.ask
  \/ /\ r.hook = "delete" /\ r.ask.id \in DOMAIN server.rows
     /\ server' = Deleted(r.ask.id) /\ told' = r.ask
  \/ /\ r.hook = "reorder" /\ Covers(r.ask.order)
     /\ server' = Reordered(r.ask.order) /\ told' = r.ask

\* An answer may also be lost: then the page is told of an error.
Serve(k) ==
  /\ wire[k].answer = "none"
  /\ \/ Effect(wire[k]) /\ \E a \in {"ok", "error"} : wire' = [wire EXCEPT ![k].answer = a]
     \/ /\ wire' = [wire EXCEPT ![k].answer = "error"] /\ UNCHANGED <<server, told>>
  /\ UNCHANGED <<data, list, armed, form, dialog, session>>

\* onSuccess, onError
Answer(k) ==
  LET r == wire[k]
      ok(hook) == r.hook = hook /\ r.latest /\ r.answer = "ok"
  IN
  /\ r.answer # "none" /\ wire' = RemoveAt(wire, k)
  /\ form' = IF /\ form # Absent
                /\ \/ ok("create") /\ form.mode # "edit"
                   \/ ok("update") /\ r.ask.what = "save" /\ form.mode = "edit"
             THEN Absent ELSE form
  /\ dialog' = IF ok("delete") THEN Absent ELSE dialog
  /\ list' = IF r.hook = "reorder" /\ r.latest /\ r.answer = "error" THEN r.ask.previous ELSE list
  /\ armed' = TRUE
  /\ UNCHANGED <<server, data, told, session>>

Without(row, c) == [row EXCEPT !.channels = @ \ {c}]

\* Others hide or show a system, delete a channel, which leaves its digests, give a channel to
\* a digest or take it away, or make or delete a schedule.
Redirected(row, c) == [row EXCEPT !.channels = Toggled(@, c)]

Others ==
  /\ session.events > 0 /\ session' = [session EXCEPT !.events = @ - 1]
  /\ \/ \E x \in Systems :
          server' = [server EXCEPT !.visible = Toggled(@, x)] /\ UNCHANGED told
     \/ \E c \in server.channels :
          server' = [server EXCEPT !.channels = @ \ {c},
                       !.rows = [i \in DOMAIN @ |-> Without(@[i], c)]]
          /\ told' = Absent
     \/ \E c \in server.channels, i \in DOMAIN server.rows :
          /\ server.rows[i].type = "digest"
          /\ server' = [server EXCEPT !.rows[i] = Redirected(@, c)]
          /\ told' = Absent
     \/ server.last < MaxSchedules /\ server' = Created([New EXCEPT !.name = "fit"]) /\ told' = Absent
     \/ \E i \in DOMAIN server.rows : server' = Deleted(i) /\ told' = Absent
  /\ UNCHANGED <<data, list, armed, form, dialog, wire>>

InForm ==
  /\ form # Absent
  /\ \/ EditName \/ GenerateName \/ ChooseType \/ Enable \/ ChooseScope \/ EditCron \/ EditHours
     \/ \E c \in Channels : ToggleChannel(c)
     \/ \E x \in Systems : ToggleSystem(x)

Next ==
  \/ Read \/ OpenNew \/ Cancel \/ InForm \/ Submit \/ CloseDialog \/ ConfirmDelete \/ Others
  \/ \E k \in DOMAIN list :
       \/ \E mode \in {"edit", "copy"} : Open(mode, k)
       \/ ToggleEnabled(k) \/ AskDelete(k)
       \/ \E j \in DOMAIN list : Drop(k, j)
  \/ \E k \in DOMAIN wire : Serve(k) \/ Answer(k)

Spec == Init /\ [][Next]_vars

-------------------------------------------------------------------------------
\* Each schedule has a place of its own, whatever was made, deleted and dragged meanwhile, so
\* that the order of the list is the one of the places.
PlacesDiffer ==
  \A i, j \in DOMAIN server.place : i # j => server.place[i] # server.place[j]

\* What was stored of the systems is what the form showed: all of them, or those that were
\* ticked; those it never listed, as they are hidden, are as they were.
SystemsAsShown(row, ask) ==
  LET f == ask.form
      before == IF f.before.systems = All THEN {} ELSE f.before.systems
  IN IF f.type = "digest" \/ f.all THEN row.systems = All
     ELSE /\ row.systems # All
          /\ row.systems \cap ask.visible = f.systems \cap ask.visible
          /\ row.systems \ f.seen = before \ f.seen

\* A save stores what the form showed, whatever was chosen for another type before; a toggle
\* turns the switch that was shown; a drag moves one row, to where it was dropped.
StoredAsAsked ==
  told # Absent =>
    CASE told.what = "save" ->
           LET row == server.rows[told.id] IN
           /\ row.type = told.form.type /\ row.enabled = told.form.enabled
           /\ row.type = "digest" =>
                row.channels \cap told.listed = told.form.channels \cap told.listed
           /\ SystemsAsShown(row, told)
      [] told.what = "toggle" -> server.rows[told.id].enabled = told.enabled
      [] told.what = "delete" -> told.id \notin DOMAIN server.rows
      [] OTHER ->
           LET items == IdsOf(Listed(server)) IN
           /\ items[told.to] = told.previous[told.from].id
           /\ RemoveAt(items, told.to) = RemoveAt(IdsOf(told.previous), told.from)

SchedulePageSound == PlacesDiffer /\ StoredAsAsked

\* Not so: when a drag is refused, the list goes back to what it was before it, also if it was
\* read anew meanwhile; with what was deleted, and without what is new.
ListIsWhatWasRead ==
  (\A k \in DOMAIN wire : wire[k].hook # "reorder") /\ told = Absent
    => {list[k].id : k \in DOMAIN list} = {data.schedules[k].id : k \in DOMAIN data.schedules}

\* Not so: as soon as the page is drawn again, rows can be dragged while the order of the last
\* drag is on its way, and the one of the two is stored that is served last.
OneDragAtATime ==
  Cardinality({k \in DOMAIN wire : wire[k].hook = "reorder"}) <= 1

\* Not so: a digest whose channels nobody touched is saved with those that its form was opened
\* with, and what others gave to it or took from it meanwhile is undone.
UntouchedChannelsStay ==
  [][told' # told /\ told' # Absent /\ told'.what = "save" =>
       LET f == told'.form IN
       f.mode = "edit" /\ f.type = "digest" /\ f.channels = f.before.channels
         => server'.rows[f.id].channels = server.rows[f.id].channels]_vars

\* Not so: a channel that is deleted meanwhile cannot be unticked, and the save is refused.
SaveCanBeValid ==
  form # Absent /\ form.type = "digest" /\ data.channels = server.channels
    => form.channels \subseteq data.channels

\* Not so: the answer to a save that was left closes the form that is open then.
ClosedByItsOwnAnswer ==
  \A k \in DOMAIN wire :
    /\ form # Absent /\ wire[k].latest /\ wire[k].answer = "ok" /\ wire[k].hook = "update"
    /\ wire[k].ask.what = "save" /\ form.mode = "edit"
      => wire[k].ask.id = form.id

\* Not so: a target that is named in the list leaves out systems that are hidden, which are
\* refreshed and upgraded all the same.
TargetsAreNamed ==
  \A k \in DOMAIN list : Target(list[k].row).label = "names"
    => Target(list[k].row).names = list[k].row.systems
================================================================================
