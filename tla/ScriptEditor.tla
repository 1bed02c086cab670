------------------------------ MODULE ScriptEditor ------------------------------
(***************************************************************************)
(* The scripts of the page Scripts (client/pages/Scripts.tsx): its list,   *)
(* the editor of a script, and what they send to the server                *)
(* (services/script-service.ts), which checks and stores it.               *)
(*                                                                         *)
(* The name of a step stands for the step: its command is Blank, or one    *)
(* written for a step, as it was, typed or beautified.  Of the parser      *)
(* rules the step whose output is parsed is kept; the operations that are  *)
(* left out show other rules or none.  That a script is in use, which      *)
(* keeps it from being deleted or given to another operation, is in        *)
(* Scripts; here such a request may be refused.                            *)
(***************************************************************************)
EXTENDS Integers, FiniteSets, Sequences, SequencesExt

CONSTANTS Builtin, Custom,   \* package managers
          None, Absent, Blank,
          MaxScripts,        \* bound: scripts ever created
          Sessions           \* bound: the scripts, and what is done with them how often

VARIABLES server,     \* custom_scripts, and the last id given
          data,       \* what the page has read of them
          editor,
          title,      \* the script that the dialog of the editor is named for
          asked,      \* the save and the toggle that are not answered yet
          copying,    \* the copy whose commands are being beautified
          dialog,     \* the script about to be deleted
          told,       \* the scripts that the last answer should have left
          hit,        \* the script that it was meant for, and the one it was about
          session     \* what is left of it

vars == <<server, data, editor, title, asked, copying, dialog, told, hit, session>>

Ids == 1 .. MaxScripts
Operations == [package_manager |-> {"detect", "check_updates"}, system |-> {"system_info"}]
TypeOf(operation) == IF operation = "system_info" THEN "system" ELSE "package_manager"
MaxSteps == 3      \* bound

Command == [of : 1 .. MaxSteps, form : {"raw", "typed", "neat"}] \cup {Blank}
Script == [operation : UNION {Operations[t] : t \in DOMAIN Operations},
           manager : Builtin \cup Custom \cup {None}, default : BOOLEAN,
           steps : Seq([label : 1 .. MaxSteps, command : Command]),
           parse : 0 .. MaxSteps \cup {None}]

TypeOK ==
  /\ \A rows \in {server.rows, data} : \A i \in Ids : rows[i] # Absent => rows[i].script \in Script
  /\ server.last \in 0 .. MaxScripts
  /\ title \in Ids \cup {None}
  /\ dialog \in [id : Ids, meant : Nat] \cup {Absent}

-------------------------------------------------------------------------------
(* The server. *)

\* normalizeParserConfigForOperation
Normal(s) == IF s.operation = "check_updates" THEN s ELSE [s EXCEPT !.parse = None]

\* Mutant: the step after the last one counts as one.
ValidByOne(s) ==
  /\ s.steps # <<>> /\ (s.operation = "detect" => Len(s.steps) = 1)
  /\ \A k \in DOMAIN s.steps : s.steps[k].command # Blank
  /\ (s.manager = None) <=> (TypeOf(s.operation) = "system")
  /\ s.parse # None => s.parse <= Len(s.steps)

\* validateScriptInput.  Steps to be parsed count from 0.
Valid(s) ==
  /\ s.steps # <<>> /\ (s.operation = "detect" => Len(s.steps) = 1)
  /\ \A k \in DOMAIN s.steps : s.steps[k].command # Blank
  /\ (s.manager = None) <=> (TypeOf(s.operation) = "system")
  /\ s.parse # None => s.parse < Len(s.steps)

SameScope(s, t) == s.operation = t.operation /\ s.manager = t.manager

\* clearOtherDefaults, and the row that is written.
Stored(rows, i, row) ==
  [j \in Ids |->
     IF j = i THEN row
     ELSE IF /\ rows[j] # Absent /\ row.script.default /\ SameScope(rows[j].script, row.script)
          THEN [rows[j] EXCEPT !.script.default = FALSE]
     ELSE rows[j]]

\* Mutant: the id of a script that was deleted is given again.
NextFree(sv) == CHOOSE i \in Ids : sv.rows[i] = Absent /\ \A j \in Ids : sv.rows[j] = Absent => i <= j

\* AUTOINCREMENT
NextId(sv) == sv.last + 1

\* createScript
Created(sv, s) ==
  [rows |-> Stored(sv.rows, NextId(sv), [born |-> sv.last + 1, script |-> Normal(s)]),
   last |-> sv.last + 1]

\* updateScript
Updated(sv, i, s) ==
  [sv EXCEPT !.rows = Stored(@, i, [born |-> sv.rows[i].born, script |-> Normal(s)])]

\* Whether a request is answered with success; a script in use keeps its scope.
Accepted(sv, i, s) ==
  /\ Valid(Normal(s))
  /\ i # None => sv.rows[i] # Absent

MayRefuse(sv, i, s) ==
  \/ ~Accepted(sv, i, s)
  \/ i # None /\ sv.rows[i] # Absent /\ ~SameScope(sv.rows[i].script, s)

-------------------------------------------------------------------------------
(* What is shown. *)

Init ==
  \E t \in Sessions :
    /\ session = t
    /\ server = [rows |-> [i \in Ids |-> IF i \in DOMAIN t.scripts
                                         THEN [born |-> i, script |-> t.scripts[i]] ELSE Absent],
                 last |-> Len(t.scripts)]
    /\ data = server.rows
    /\ editor = Absent /\ title = None /\ copying = Absent /\ dialog = Absent
    /\ asked = [save |-> Absent, toggle |-> Absent] /\ told = Absent /\ hit = Absent

Read ==
  /\ data # server.rows /\ data' = server.rows
  /\ UNCHANGED <<server, editor, title, asked, copying, dialog, told, hit, session>>

\* Nothing that the page has sent, or not read yet, is about to change what it shows.
Current == data = server.rows /\ asked.save = Absent /\ asked.toggle = Absent

\* Mutant: an editor opens without the mark, like a copy.
OpeningUnmarked(i, s) ==
  [id |-> i, script |-> [s EXCEPT !.default = FALSE], neat |-> Absent,
   untouched |-> Current, source |-> IF i = None THEN None ELSE data[i].born]

\* ScriptEditor mounts.
Opening(i, s) ==
  [id |-> i, script |-> s, neat |-> Absent,
   untouched |-> Current, source |-> IF i = None THEN None ELSE data[i].born]

Listed == editor = Absent /\ dialog = Absent
IsListed(i) == data[i] # Absent
Uses(kind) == kind \in session.kinds
Press(n) == session.edits >= n /\ session' = [session EXCEPT !.edits = @ - n]

OpenEditor(i) ==
  /\ Listed /\ IsListed(i) /\ Press(1)
  /\ editor' = Opening(i, data[i].script) /\ title' = i
  /\ UNCHANGED <<server, data, asked, copying, dialog, told, hit>>

\* emptyScript
OpenNew ==
  /\ Listed /\ Uses("new") /\ Press(1)
  /\ \E m \in Builtin \cup Custom :
       editor' = Opening(None, [operation |-> "detect", manager |-> m, default |-> FALSE,
                                steps |-> <<[label |-> 1, command |-> Blank]>>, parse |-> None])
  /\ title' = None
  /\ UNCHANGED <<server, data, asked, copying, dialog, told, hit>>

\* copyScriptDraft
Copy(s) == [s EXCEPT !.default = FALSE]

Neat(command) == IF command = Blank THEN Blank ELSE [command EXCEPT !.form = "neat"]

AllNeat(steps) == [k \in DOMAIN steps |-> [steps[k] EXCEPT !.command = Neat(@)]]

\* handleCopy.  Bound: one copy at a time.
StartCopy(i) ==
  /\ Listed /\ IsListed(i) /\ copying = Absent /\ Uses("copy") /\ Press(1)
  /\ copying' = Copy(data[i].script)
  /\ UNCHANGED <<server, data, editor, title, asked, dialog, told, hit>>

\* An editor that is open keeps its state: only the script it was given changes.
CopyReady ==
  /\ copying # Absent /\ copying' = Absent
  /\ \/ editor # Absent /\ UNCHANGED editor
     \/ /\ editor = Absent
        /\ \E s \in {copying, [copying EXCEPT !.steps = AllNeat(@)]} : editor' = Opening(None, s)
  /\ title' = None
  /\ UNCHANGED <<server, data, asked, dialog, told, hit, session>>

\* The dialog cannot be dismissed while a save is pending, but be cancelled.
Close ==
  /\ editor # Absent /\ editor' = Absent /\ title' = None
  /\ UNCHANGED <<server, data, asked, copying, dialog, told, hit, session>>

-------------------------------------------------------------------------------
(* The editor. *)

\* Other rules are shown for a manager with a parser of its own.
ShowsParser(s) == s.operation = "check_updates" /\ s.manager \notin Builtin

Change(kind, s) ==
  /\ Uses(kind) /\ Press(1) /\ s # editor.script
  /\ editor' = [editor EXCEPT !.script = s, !.untouched = FALSE]
  /\ UNCHANGED <<server, data, title, asked, copying, dialog, told, hit>>

ChooseType(t) ==
  Change("scope", [editor.script EXCEPT
    !.operation = IF t = "system" THEN "system_info" ELSE "detect",
    !.manager = IF t = "system" THEN None ELSE @])

ChooseOperation(operation) ==
  /\ operation \in Operations[TypeOf(editor.script.operation)]
  /\ Change("scope", [editor.script EXCEPT !.operation = operation])

ChooseManager(m) ==
  /\ TypeOf(editor.script.operation) = "package_manager"
  /\ Change("scope", [editor.script EXCEPT !.manager = m])

AddStep ==
  /\ editor.script.operation # "detect" /\ Len(editor.script.steps) < MaxSteps
  /\ Change("steps", [editor.script EXCEPT
       !.steps = Append(@, [label |-> Len(@) + 1, command |-> Blank])])

RemoveStep(k) ==
  /\ Len(editor.script.steps) > 1
  /\ Change("steps", [editor.script EXCEPT !.steps = RemoveAt(@, k)])

MoveStep(j, k) ==
  Change("steps", [editor.script EXCEPT !.steps = InsertAt(RemoveAt(@, j), k, @[j])])

TypeCommand(k) ==
  Change("type", [editor.script EXCEPT
    !.steps[k].command = [of |-> editor.script.steps[k].label, form |-> "typed"]])

\* The rules of the parser are kept by the editor when they are not shown.
ChooseParsed(k) ==
  ShowsParser(editor.script) /\ Change("parse", [editor.script EXCEPT !.parse = k])

PutInto(steps, at, command) ==
  IF at \in DOMAIN steps THEN [steps EXCEPT ![at].command = command] ELSE steps

\* beautifyStep: the answer is for the place of the step.  Bound: one at a time.
Beautify(k) ==
  /\ Uses("beautify") /\ Press(1) /\ editor.neat = Absent
  /\ editor.script.steps[k].command # Blank
  /\ editor' = [editor EXCEPT !.neat = [at |-> k, command |-> Neat(editor.script.steps[k].command)]]
  /\ UNCHANGED <<server, data, title, asked, copying, dialog, told, hit>>

Beautified ==
  /\ editor.neat # Absent
  /\ editor' = [editor EXCEPT
       !.neat = Absent, !.untouched = FALSE,
       !.script.steps = PutInto(@, editor.neat.at, editor.neat.command)]
  /\ UNCHANGED <<server, data, title, asked, copying, dialog, told, hit, session>>

\* What a save sends.
Built(s) == [s EXCEPT !.parse = IF ShowsParser(s) THEN @ ELSE None]

Busy == asked.save # Absent \/ asked.toggle # Absent

Save ==
  /\ ~Busy /\ (editor.id = None => server.last < MaxScripts)
  /\ LET s == Built(editor.script) IN
     /\ \A k \in DOMAIN s.steps : s.steps[k].command # Blank
     /\ s.operation = "detect" => Len(s.steps) = 1
     /\ asked' = [asked EXCEPT !.save = [id |-> editor.id, script |-> s, heard |-> TRUE,
                                         meant |-> editor.source, untouched |-> editor.untouched]]
  /\ UNCHANGED <<server, data, editor, title, copying, dialog, told, hit, session>>

-------------------------------------------------------------------------------
(* Answers. *)

Meets(request) ==
  IF request.id = None THEN Absent
  ELSE [meant |-> request.meant, got |-> server.rows[request.id].born]

\* saveScript: what is open is closed.  An edit that changed nothing leaves all as it was.
SaveAnswered ==
  LET r == asked.save IN
  /\ r # Absent /\ asked' = [asked EXCEPT !.save = Absent]
  /\ \/ /\ Accepted(server, r.id, r.script)
        /\ server' = IF r.id = None THEN Created(server, r.script)
                     ELSE Updated(server, r.id, r.script)
        /\ told' = IF r.untouched /\ r.id # None THEN server.rows ELSE Absent
        /\ hit' = Meets(r)
        /\ \/ r.heard /\ editor' = Absent /\ title' = None
           \/ ~r.heard /\ UNCHANGED <<editor, title>>
     \/ MayRefuse(server, r.id, r.script) /\ UNCHANGED <<server, editor, title, told, hit>>
  /\ UNCHANGED <<data, copying, dialog, session>>

\* The marks after that of a script is switched in the list.
Marked(rows, i) ==
  [j \in Ids |->
     IF rows[j] = Absent THEN Absent
     ELSE [rows[j] EXCEPT !.script.default =
             IF j = i THEN ~@
             ELSE @ /\ (rows[i].script.default \/ ~SameScope(rows[j].script, rows[i].script))]]

(* toggleScriptDefault sends the whole script, as it is listed.  Its       *)
(* callbacks take the place of those of an update that is pending.         *)
(* Bound: one toggle at a time.                                            *)
Toggle(i) ==
  /\ Listed /\ IsListed(i) /\ asked.toggle = Absent /\ Uses("toggle") /\ Press(1)
  /\ asked' = [save |-> IF asked.save # Absent /\ asked.save.id # None
                        THEN [asked.save EXCEPT !.heard = FALSE, !.untouched = FALSE]
                        ELSE asked.save,
               toggle |-> [id |-> i, script |-> [data[i].script EXCEPT !.default = ~@],
                           meant |-> data[i].born, untouched |-> Current]]
  /\ UNCHANGED <<server, data, editor, title, copying, dialog, told, hit>>

ToggleAnswered ==
  LET r == asked.toggle IN
  /\ r # Absent /\ asked' = [asked EXCEPT !.toggle = Absent]
  /\ \/ /\ Accepted(server, r.id, r.script)
        /\ server' = Updated(server, r.id, r.script)
        /\ told' = IF r.untouched THEN Marked(server.rows, r.id) ELSE Absent
        /\ hit' = Meets(r)
     \/ MayRefuse(server, r.id, r.script) /\ UNCHANGED <<server, told, hit>>
  /\ UNCHANGED <<data, editor, title, copying, dialog, session>>

AskDelete(i) ==
  /\ Listed /\ IsListed(i) /\ Uses("delete") /\ Press(1)
  /\ dialog' = [id |-> i, meant |-> data[i].born]
  /\ UNCHANGED <<server, data, editor, title, asked, copying, told, hit>>

\* The dialog stays when the script is gone or in use.
ConfirmDelete ==
  /\ dialog # Absent
  /\ \/ dialog' = Absent /\ UNCHANGED <<server, told, hit>>
     \/ /\ server.rows[dialog.id] # Absent
        /\ hit' = Meets(dialog)
        /\ server' = [server EXCEPT !.rows[dialog.id] = Absent]
        /\ told' = Absent /\ dialog' = Absent
  /\ UNCHANGED <<data, editor, title, asked, copying, session>>

\* Another user of the page.
Others ==
  /\ session.events > 0
  /\ session' = [session EXCEPT !.events = @ - 1]
  /\ \/ \E i \in Ids : /\ server.rows[i] # Absent
                       /\ \/ server' = [server EXCEPT !.rows[i] = Absent]
                          \/ server' = Updated(server, i, [server.rows[i].script EXCEPT
                                         !.steps[1].command.form = "typed"])
                          \/ server' = Updated(server, i, [server.rows[i].script EXCEPT !.default = ~@])
     \/ /\ server.last < MaxScripts
        /\ server' = Created(server, session.scripts[1])
  /\ told' = Absent
  /\ editor' = IF editor = Absent THEN Absent ELSE [editor EXCEPT !.untouched = FALSE]
  /\ asked' = [a \in DOMAIN asked |->
                 IF asked[a] = Absent THEN Absent ELSE [asked[a] EXCEPT !.untouched = FALSE]]
  /\ UNCHANGED <<data, title, copying, dialog, hit>>

Editing ==
  /\ editor # Absent
  /\ \/ \E t \in DOMAIN Operations : ChooseType(t)
     \/ \E operation \in UNION {Operations[t] : t \in DOMAIN Operations} : ChooseOperation(operation)
     \/ \E m \in Builtin \cup Custom : ChooseManager(m)
     \/ \E k \in DOMAIN editor.script.steps :
          \/ RemoveStep(k) \/ TypeCommand(k) \/ Beautify(k) \/ ChooseParsed(k - 1)
          \/ \E j \in DOMAIN editor.script.steps : MoveStep(j, k)
     \/ AddStep \/ ChooseParsed(None) \/ Beautified \/ Save

Next ==
  \/ \E i \in Ids : OpenEditor(i) \/ StartCopy(i) \/ Toggle(i) \/ AskDelete(i)
  \/ OpenNew \/ CopyReady \/ Close \/ Editing \/ Read
  \/ SaveAnswered \/ ToggleAnswered \/ ConfirmDelete \/ Others

Spec == Init /\ [][Next]_vars

-------------------------------------------------------------------------------
(* What is stored can be run, whatever was moved, removed or chosen in the *)
(* editor: a detection has one step, every step a command, and the step    *)
(* whose output is parsed is there.                                        *)
ScriptsRun ==
  \A i \in Ids : server.rows[i] # Absent =>
    LET s == server.rows[i].script IN
    /\ IF s.operation = "detect" THEN Len(s.steps) = 1 ELSE s.steps # <<>>
    /\ \A k \in DOMAIN s.steps : s.steps[k].command # Blank
    /\ s.parse # None => s.parse + 1 \in DOMAIN s.steps

(* Saving a script that was only looked at changes no script, and the mark *)
(* of the list switches nothing but marks: unless others, or an answer     *)
(* that was still to come, changed what was listed.                        *)
NothingElseChanges == told # Absent => server.rows = told

\* A request is about the script that was listed, never about a later one of the same id.
MeetsTheListed == hit # Absent => hit.meant = hit.got

ScriptEditorSound == ScriptsRun /\ NothingElseChanges /\ MeetsTheListed

\* Not so: a command that was beautified is put into the step that has taken the place.
CommandsStayWithSteps ==
  editor # Absent => \A k \in DOMAIN editor.script.steps :
    LET step == editor.script.steps[k] IN step.command # Blank => step.command.of = step.label

\* Not so: a copy that is ready while an editor is open is lost, and renames that editor.
EditorIsNamed == editor # Absent => editor.id = title

\* Not so: the list sends the whole script, and undoes what others saved meanwhile.
TogglesOnlyMark ==
  [][asked.toggle # Absent /\ asked'.toggle = Absent =>
       \A i \in Ids : server.rows[i] # Absent =>
         server'.rows[i].script.steps = server.rows[i].script.steps]_vars

\* Not so: the answer to a save closes the editor that was opened after a cancel.
OwnAnswerCloses ==
  [][asked.save # Absent /\ asked'.save = Absent /\ editor # Absent /\ editor' = Absent =>
       asked.save.id = editor.id]_vars

\* Not so: a mark set in the list is cleared by an editor opened before the answer.
MarksStay ==
  [][asked.save # Absent /\ asked'.save = Absent /\ session.events = 0 =>
       \A i \in Ids : server.rows[i] # Absent =>
         server'.rows[i].script.default = server.rows[i].script.default]_vars

\* Not so: back from a system script the manager shown is the first, the one sent is none.
ManagerIsSet ==
  editor # Absent /\ TypeOf(editor.script.operation) = "package_manager" => editor.script.manager # None

\* Not so: the step that is parsed is kept as a place, when steps are moved.
ParsedStepStays ==
  [][editor # Absent /\ editor' # Absent /\ editor.script.parse # None
     /\ editor.script.parse < Len(editor.script.steps)
     /\ Len(editor'.script.steps) = Len(editor.script.steps)
     /\ editor'.script.parse = editor.script.parse =>
       editor'.script.steps[editor.script.parse + 1].label
         = editor.script.steps[editor.script.parse + 1].label]_vars

-------------------------------------------------------------------------------
(* What the proofs need of the constants: the scripts of a session are ones *)
(* that the server stores.                                                 *)
Step == [label : 1 .. MaxSteps, command : Command]

Draft == [operation : {"detect", "check_updates", "system_info"}, manager : Builtin \cup Custom \cup {None},
          default : BOOLEAN, steps : Seq(Step), parse : {None} \cup Nat]

Runs(s) ==
  /\ IF s.operation = "detect" THEN Len(s.steps) = 1 ELSE s.steps # <<>>
  /\ \A k \in DOMAIN s.steps : s.steps[k].command # Blank
  /\ s.parse # None => s.parse + 1 \in DOMAIN s.steps

Tidy(s) == ~ShowsParser(s) => s.parse = None
Fine(s) == s \in Draft /\ Runs(s) /\ Tidy(s)
Clash(s, t) == s.default /\ t.default /\ SameScope(s, t)

ScriptEditorAssumption ==
  /\ None \notin Ids
  /\ Blank \notin [of : 1 .. MaxSteps, form : {"raw", "typed", "neat"}]
  /\ \A t \in Sessions :
       /\ t \in [scripts : {t.scripts}, kinds : {t.kinds}, edits : {t.edits}, events : {t.events}]
       /\ t.scripts \in Seq(Draft) /\ t.scripts # <<>>
       /\ \A i \in DOMAIN t.scripts : Fine(t.scripts[i])
       /\ \A i, j \in DOMAIN t.scripts : i # j => ~Clash(t.scripts[i], t.scripts[j])
================================================================================
