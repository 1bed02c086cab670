----------------------------- MODULE ManagerBundles -----------------------------
(***************************************************************************)
(* Package managers on the page Scripts (client/pages/Scripts.tsx) and     *)
(* their bundles (services/script-service.ts, routes/scripts.ts): a        *)
(* manager is made or edited in a dialog, exported with its scripts to a   *)
(* file, imported from one under a key of the user's choice, and deleted,  *)
(* with its scripts if the user asks for that.                             *)
(*                                                                         *)
(* A script has a name and an operation (numbers, as they are sorted), the *)
(* mark of a default and a text; one of a file may be refused by the       *)
(* server.  Of the entries of a manager's configuration the keys are kept; *)
(* in files of older versions they begin with the key of the manager.      *)
(* Labels and the parser rules of managers are left out.                   *)
(***************************************************************************)
EXTENDS Integers, FiniteSets, Sequences, SequencesExt

CONSTANTS Builtin, Custom,   \* keys of package managers
          OwnKeys,           \* of each built-in manager: the configuration it has anyway
          EntryKeys, Absent, Blank,
          MaxScripts,        \* bound: scripts ever created
          Sessions           \* bound: what there is, and what is done with it how often

VARIABLES server,     \* custom_package_managers, custom_scripts, the last id given
          data,       \* what the page has read of them
          modal,      \* the dialog of a manager
          asked,      \* its save, while that is not answered
          file,       \* what was exported
          dialog,     \* the manager about to be deleted
          tick,       \* whether its scripts are deleted too
          told,       \* the scripts that an import was to leave, as far as they are known
          deleted,    \* the deletions of managers: how many scripts, and whether that was asked
          session     \* what is left of it

vars == <<server, data, modal, asked, file, dialog, tick, told, deleted, session>>

Keys == Builtin \cup Custom
Ids == 1 .. MaxScripts
Entry == [owner : Keys \cup {Blank}, key : EntryKeys \cup {Blank}]
Script == [name : 1 .. 2, operation : 1 .. 2, default : BOOLEAN, text : 1 .. 2, valid : BOOLEAN]

\* With the scripts that there were when it was exported.
IsBundle(b) ==
  b.key \in Keys /\ b.entries \in Seq(Entry) /\ b.scripts \in Seq(Script) /\ b.were \subseteq Script

TypeOK ==
  /\ \A known \in {server, data} :
       /\ \A m \in Keys : known.managers[m] \in Seq(Entry) \cup {Absent}
       /\ \A i \in Ids : known.scripts[i] # Absent =>
            known.scripts[i].manager \in Keys /\ known.scripts[i].script \in Script
  /\ modal # Absent => modal.mode \in {"new", "edit", "import"} /\ modal.entries \in Seq(Entry)
  /\ file # Absent => IsBundle(file)
  /\ dialog # Absent => dialog.key \in Custom /\ dialog.count \in 0 .. MaxScripts
  /\ tick \in BOOLEAN

-------------------------------------------------------------------------------
(* Entries. *)

Plain(key) == [owner |-> Blank, key |-> key]

\* getLegacyCustomConfigKey
Stripped(m, e) == IF e.owner = m THEN Plain(e.key) ELSE e
AllStripped(m, entries) == [n \in DOMAIN entries |-> Stripped(m, entries[n])]

Reserved(m) == {Blank} \cup IF m \in Builtin THEN OwnKeys[m] ELSE {}

\* Mutant: keys are not compared with each other.
EntriesValidAlone(m, entries) ==
  \A n \in DOMAIN entries : entries[n].owner = Blank /\ entries[n].key \notin Reserved(m)

\* validateConfigEntries, and validateCustomPackageManagerConfigEntries on the server.
EntriesValid(m, entries) ==
  /\ \A n \in DOMAIN entries : entries[n].owner = Blank /\ entries[n].key \notin Reserved(m)
  /\ IsInjective(entries)

-------------------------------------------------------------------------------
(* The server. *)

Of(sv, m) == {i \in Ids : sv.scripts[i] # Absent /\ sv.scripts[i].manager = m}
Registered(sv, m) == m \in Builtin \/ sv.managers[m] # Absent

\* createScript, updateScript: the default of an operation takes the mark from the others.
Put(sv, i, m, s) ==
  [sv EXCEPT
    !.last = IF i > @ THEN i ELSE @,
    !.scripts = [j \in Ids |->
      IF j = i THEN [manager |-> m, script |-> s]
      ELSE IF s.default /\ j \in Of(sv, m) /\ @[j].script.operation = s.operation
           THEN [@[j] EXCEPT !.script.default = FALSE] ELSE @[j]]]

\* findImportScriptMatch
Matches(sv, m, s) ==
  {i \in Of(sv, m) : sv.scripts[i].script.operation = s.operation /\ sv.scripts[i].script.name = s.name}

First(ids) == CHOOSE i \in ids : \A j \in ids : i <= j

\* Mutant: a script of a file is always a new one.
TargetAnew(sv, m, s) == sv.last + 1

Target(sv, m, s) == IF Matches(sv, m, s) # {} THEN First(Matches(sv, m, s)) ELSE sv.last + 1

\* Script by script, until one is refused.  Bound: so do scripts beyond MaxScripts.
Imported(sv, m, scripts) ==
  FoldLeft(LAMBDA done, s :
             IF ~done.ok \/ ~s.valid \/ Target(done.sv, m, s) > MaxScripts
             THEN [done EXCEPT !.ok = FALSE]
             ELSE [done EXCEPT !.sv = Put(@, Target(@, m, s), m, s)],
           [ok |-> TRUE, sv |-> sv], scripts)

ScriptsOf(sv, m) == {sv.scripts[i].script : i \in Of(sv, m)}

\* By operation, name and id.
Sorted(sv, m) ==
  LET Rank(i) == 2 * sv.scripts[i].script.operation + sv.scripts[i].script.name
  IN SetToSortSeq(Of(sv, m), LAMBDA i, j : Rank(i) < Rank(j) \/ (Rank(i) = Rank(j) /\ i < j))

\* Mutant: scripts are exported without their marks.
ExportedUnmarked(sv, m) ==
  [key |-> m, entries |-> sv.managers[m], were |-> ScriptsOf(sv, m),
   scripts |-> [n \in DOMAIN Sorted(sv, m) |->
                  [sv.scripts[Sorted(sv, m)[n]].script EXCEPT !.default = FALSE]]]

\* exportCustomPackageManagerBundle
Exported(sv, m) ==
  [key |-> m, entries |-> sv.managers[m], were |-> ScriptsOf(sv, m),
   scripts |-> [n \in DOMAIN Sorted(sv, m) |-> sv.scripts[Sorted(sv, m)[n]].script]]

-------------------------------------------------------------------------------
(* The page. *)

Init ==
  \E t \in Sessions :
    /\ session = t
    /\ server = [managers |-> [m \in Keys |-> IF m \in DOMAIN t.managers THEN t.managers[m] ELSE Absent],
                 scripts |-> [i \in Ids |-> IF i \in DOMAIN t.scripts THEN t.scripts[i] ELSE Absent],
                 last |-> Len(t.scripts)]
    /\ data = server
    /\ modal = Absent /\ asked = Absent /\ file = Absent /\ dialog = Absent /\ tick = FALSE
    /\ told = Absent /\ deleted = {}

Read ==
  /\ data # server /\ data' = server
  /\ UNCHANGED <<server, modal, asked, file, dialog, tick, told, deleted, session>>

\* managedPackageManagers: the built-in ones, those of the list and those that scripts name.
Managed(m) == Registered(data, m) \/ Of(data, m) # {}

Uses(kind) == kind \in session.kinds
Press == session.presses > 0 /\ session' = [session EXCEPT !.presses = @ - 1]
Shut == modal = Absent /\ dialog = Absent

Empty == [mode |-> "new", key |-> Blank, entries |-> <<>>, bundle |-> Absent]

\* openPackageManagerModal
OpenNew ==
  /\ Shut /\ Uses("new") /\ Press
  /\ modal' = Empty
  /\ UNCHANGED <<server, data, asked, file, dialog, tick, told, deleted>>

\* openEditPackageManager
OpenEdit(m) ==
  /\ Shut /\ Uses("edit") /\ Registered(data, m) /\ Press
  /\ modal' = [Empty EXCEPT !.mode = "edit", !.key = m,
                            !.entries = IF data.managers[m] = Absent THEN <<>> ELSE data.managers[m]]
  /\ UNCHANGED <<server, data, asked, file, dialog, tick, told, deleted>>

\* A file as it was exported, edited by hand so that a script is refused, or of an
\* older version.
Files ==
  {file} \cup {[file EXCEPT !.scripts[n].valid = FALSE] : n \in DOMAIN file.scripts}
         \cup {[file EXCEPT !.entries[n].owner = file.key] : n \in DOMAIN file.entries}

\* handleImportPackageManager: the key is proposed as it was.
Load ==
  /\ modal # Absent /\ modal.mode = "new" /\ file # Absent /\ Uses("import") /\ Press
  /\ \E b \in Files :
       modal' = [mode |-> "import", key |-> b.key, entries |-> AllStripped(b.key, b.entries), bundle |-> b]
  /\ UNCHANGED <<server, data, asked, file, dialog, tick, told, deleted>>

\* onClearImport
Unload ==
  /\ modal # Absent /\ modal.mode = "import" /\ Press
  /\ modal' = Empty
  /\ UNCHANGED <<server, data, asked, file, dialog, tick, told, deleted>>

\* The key of a manager that is edited stays.
Change ==
  /\ modal # Absent /\ Press
  /\ \/ /\ modal.mode # "edit"
        /\ \E m \in Keys \ {modal.key} : modal' = [modal EXCEPT !.key = m]
     \/ /\ Uses("entries") /\ Len(modal.entries) < 2
        /\ \E key \in EntryKeys \cup {Blank} : modal' = [modal EXCEPT !.entries = Append(@, Plain(key))]
     \/ \E n \in DOMAIN modal.entries :
          /\ Uses("entries")
          /\ \/ modal' = [modal EXCEPT !.entries = RemoveAt(@, n)]
             \/ \E key \in EntryKeys : modal' = [modal EXCEPT !.entries[n] = Plain(key)]
  /\ UNCHANGED <<server, data, asked, file, dialog, tick, told, deleted>>

\* The dialog can be cancelled while a save is pending.
Close ==
  /\ modal # Absent /\ modal' = Absent
  /\ UNCHANGED <<server, data, asked, file, dialog, tick, told, deleted, session>>

\* Entries without a key, a value or a description are dropped; here: without a key.
Normal(m, entries) == AllStripped(m, SelectSeq(entries, LAMBDA e : e.key # Blank))

Scripts(sv) == {sv.scripts[i] : i \in {j \in Ids : sv.scripts[j] # Absent}}
Same(s, t) == s.name = t.name /\ s.operation = t.operation
Distinct(scripts) == \A n, o \in DOMAIN scripts : Same(scripts[n], scripts[o]) => n = o

\* The scripts there are after the import of a file, if none is there or in it twice: those
\* of the file, and of those there were the ones that it has no other text for.
Known(sv, m, b) ==
  LET Kept == {s \in ScriptsOf(sv, m) : \A t \in b.were : ~Same(s, t)}
      Unmarked == {s \in Kept : \E t \in b.were : t.default /\ t.operation = s.operation}
  IN IF /\ Distinct(b.scripts)
        /\ \A i, j \in Of(sv, m) : Same(sv.scripts[i].script, sv.scripts[j].script) => i = j
     THEN [key |-> m, scripts |->
             {x \in Scripts(sv) : x.manager # m}
             \cup {[manager |-> m, script |-> s] : s \in b.were \cup (Kept \ Unmarked)}
             \cup {[manager |-> m, script |-> [s EXCEPT !.default = FALSE]] : s \in Unmarked}]
     ELSE Absent

\* handleSavePackageManager
Save ==
  /\ modal # Absent /\ asked = Absent
  /\ modal.mode = "import" => ~Managed(modal.key)
  /\ LET entries == Normal(modal.key, modal.entries) IN
     /\ EntriesValid(IF modal.mode = "new" THEN Blank ELSE modal.key, entries)
     /\ asked' = [mode |-> modal.mode, key |-> modal.key, entries |-> entries, bundle |-> modal.bundle]
  /\ UNCHANGED <<server, data, modal, file, dialog, tick, told, deleted, session>>

\* createCustomPackageManager, and the route of an import, refuse a key that is taken.
Allowed(r) ==
  /\ EntriesValid(r.key, r.entries)
  /\ IF r.mode = "edit" THEN Registered(server, r.key)
     ELSE r.key # Blank /\ ~Registered(server, r.key)

\* An import that is refused half-way leaves the manager and the scripts before.
Answered ==
  /\ asked # Absent /\ asked' = Absent
  /\ IF ~Allowed(asked) THEN UNCHANGED <<server, modal, told>>
     ELSE LET sv == [server EXCEPT !.managers[asked.key] = asked.entries]
              import == Imported(sv, asked.key, asked.bundle.scripts)
          IN IF asked.mode # "import"
             THEN server' = sv /\ modal' = Absent /\ UNCHANGED told
             ELSE /\ server' = import.sv
                  /\ told' = IF import.ok THEN Known(server, asked.key, asked.bundle) ELSE Absent
                  /\ modal' = IF import.ok THEN Absent ELSE modal
  /\ UNCHANGED <<data, file, dialog, tick, deleted, session>>

\* handleExportPackageManager
Export(m) ==
  /\ Shut /\ Uses("import") /\ data.managers[m] # Absent /\ Press
  /\ server.managers[m] # Absent /\ file' = Exported(server, m)
  /\ UNCHANGED <<server, data, modal, asked, dialog, tick, told, deleted>>

AskDelete(m) ==
  /\ Shut /\ Uses("delete") /\ data.managers[m] # Absent /\ Press
  /\ dialog' = [key |-> m, count |-> Cardinality(Of(data, m))] /\ tick' = FALSE
  /\ UNCHANGED <<server, data, modal, asked, file, told, deleted>>

Tick ==
  /\ dialog # Absent /\ dialog.count > 0 /\ Press
  /\ tick' = ~tick
  /\ UNCHANGED <<server, data, modal, asked, file, dialog, told, deleted>>

CloseDelete ==
  /\ dialog # Absent /\ dialog' = Absent /\ tick' = FALSE
  /\ UNCHANGED <<server, data, modal, asked, file, told, deleted, session>>

\* Mutant: scripts do not keep a manager from being deleted.
DeletableAnyway(m, withScripts) == server.managers[m] # Absent

Deletable(m, withScripts) == server.managers[m] # Absent /\ (Of(server, m) = {} \/ withScripts)

\* deleteCustomPackageManager, of one that no system uses; see Scripts.  A refusal
\* leaves the dialog as it is.
Delete ==
  /\ dialog # Absent /\ Deletable(dialog.key, tick)
  /\ server' = [server EXCEPT !.managers[dialog.key] = Absent,
                              !.scripts = [i \in Ids |-> IF i \in Of(server, dialog.key)
                                                         THEN Absent ELSE @[i]]]
  /\ deleted' = deleted \cup {[shown |-> dialog.count, count |-> Cardinality(Of(server, dialog.key)),
                               asked |-> tick]}
  /\ dialog' = Absent /\ tick' = FALSE /\ told' = Absent
  /\ UNCHANGED <<data, modal, asked, file, session>>

\* Another user saves a script, or deletes or makes a manager.
Others ==
  /\ session.events > 0
  /\ session' = [session EXCEPT !.events = @ - 1]
  /\ \E m \in Custom :
       \/ /\ server.last < MaxScripts
          /\ \E default \in BOOLEAN :
               server' = Put(server, server.last + 1, m, [name |-> 1, operation |-> 1,
                                     default |-> default, text |-> 2, valid |-> TRUE])
       \/ server.managers[m] # Absent /\ Of(server, m) = {}
          /\ server' = [server EXCEPT !.managers[m] = Absent]
       \/ server.managers[m] = Absent /\ server' = [server EXCEPT !.managers[m] = <<>>]
  /\ told' = Absent
  /\ UNCHANGED <<data, modal, asked, file, dialog, tick, deleted>>

Next ==
  \/ OpenNew \/ Load \/ Unload \/ Change \/ Close \/ Save \/ Answered \/ Tick \/ CloseDelete \/ Delete
  \/ \E m \in Keys : OpenEdit(m)
  \/ \E m \in Custom : Export(m) \/ AskDelete(m)
  \/ Read \/ Others

Spec == Init /\ [][Next]_vars

-------------------------------------------------------------------------------
(* An import brings every script of the file, with its mark, and touches   *)
(* no other, also when scripts name a manager that is not registered;      *)
(* whatever is imported or saved, and in what order, an operation has one  *)
(* default at most, and a manager no two entries of a key and none that a  *)
(* built-in one has anyway.                                                *)
ImportBringsAll ==
  told # Absent =>
    /\ Scripts(server) = told.scripts
    /\ Cardinality(Of(server, told.key)) = Cardinality({x \in told.scripts : x.manager = told.key})
OneDefault ==
  \A m \in Keys, operation \in 1 .. 2 :
    Cardinality({i \in Of(server, m) : /\ server.scripts[i].script.default
                                       /\ server.scripts[i].script.operation = operation}) <= 1
EntriesDiffer ==
  \A m \in Keys : server.managers[m] # Absent =>
    /\ IsInjective(server.managers[m])
    /\ m \in Builtin => \A n \in DOMAIN server.managers[m] : server.managers[m][n].key \notin OwnKeys[m]

(* Scripts go with their manager only if the user has asked for that, even *)
(* if none was listed when the dialog was opened.                          *)
DeletesAsAsked == \A d \in deleted : d.count > 0 => d.asked

ManagerBundlesSound == ImportBringsAll /\ OneDefault /\ EntriesDiffer /\ DeletesAsAsked

\* Not so: an import that is refused leaves a part of it, and its key is taken.
RefusedImportLeavesNothing ==
  [][asked # Absent /\ asked'= Absent /\ asked.mode = "import" /\ modal' # Absent =>
       server' = server]_vars

\* Not so: of scripts of one name and operation the last one is imported.
EveryScriptIsImported ==
  [][asked # Absent /\ asked' = Absent /\ asked.mode = "import" /\ modal # Absent /\ modal' = Absent =>
       Cardinality(Of(server', asked.key)) = Cardinality(Of(server, asked.key)) + Len(asked.bundle.scripts)]_vars

\* Not so: scripts saved since the dialog was opened are deleted too.
DeletesWhatIsShown == \A d \in deleted : d.count <= d.shown

(* Not so: without a mark the oldest script of an operation is what        *)
(* systems run, and an import makes the one that is first by name oldest.  *)
Standing(sv, m) == LET own == {i \in Of(sv, m) : sv.scripts[i].script.operation = 1} IN
  IF own = {} THEN Absent ELSE sv.scripts[First(own)].script
ImportRunsTheSame ==
  [][asked # Absent /\ asked' = Absent /\ asked.mode = "import" /\ modal # Absent /\ modal' = Absent
     /\ Distinct(asked.bundle.scripts) /\ session.events = session'.events
     /\ (\A n \in DOMAIN asked.bundle.scripts : ~asked.bundle.scripts[n].default)
     /\ Of(server, asked.key) = {} /\ Exported(server, asked.bundle.key) = asked.bundle =>
       Standing(server', asked.key) = Standing(server, asked.bundle.key)]_vars
================================================================================
