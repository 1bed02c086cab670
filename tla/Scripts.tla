-------------------------------- MODULE Scripts --------------------------------
(***************************************************************************)
(* Scripts and custom package managers (services/script-service.ts): which *)
(* script a system runs for an operation, the usages that keep a script    *)
(* from being deleted or given to another operation, and the managers that *)
(* a system has, which decide whether a usage counts.                      *)
(*                                                                         *)
(* A scope is what a script is for: an operation of one package manager,   *)
(* or one of the system itself.  Names, steps and parser settings of       *)
(* scripts are left out, and so are rows without a list of detected        *)
(* managers that older versions wrote.                                     *)
(***************************************************************************)
EXTENDS Integers

CONSTANTS Systems, Managers, None,
          Builtin,       \* the managers the dashboard ships with
          Scopes,
          ManagerOf,     \* of each scope; None for scopes of the system itself
          Supplied,      \* the scopes that have a built-in script
          Detection,     \* of each manager: the scope of its detection script
          MaxScripts     \* bound: custom scripts ever created

VARIABLES managers,    \* custom_package_managers
          script,      \* custom_scripts, by id
          created,     \* the last id given
          override,    \* system_script_overrides
          detected,    \* systems.detectedPkgManagers (None: null)
          disabled,    \* systems.disabledPkgManagers
          search       \* of each system: the detection in progress

vars == <<managers, script, created, override, detected, disabled, search>>

Ids == 1 .. MaxScripts
Shipped == 0      \* the built-in script of a scope

ScriptsAssumption ==
  /\ MaxScripts \in Nat
  /\ None \notin Managers /\ None \notin Ids /\ None # Shipped
  /\ None \notin [scope : Scopes, default : BOOLEAN]

TypeOK ==
  /\ managers \subseteq Managers \ Builtin
  /\ script \in [Ids -> [scope : Scopes, default : BOOLEAN] \cup {None}]
  /\ created \in 0 .. MaxScripts
  /\ override \in [Systems -> [Scopes -> Ids \cup {Shipped, None}]]
  /\ detected \in [Systems -> (SUBSET Managers) \cup {None}]
  /\ disabled \in [Systems -> SUBSET Managers]
  /\ search \in [Systems -> [todo : SUBSET Managers, found : SUBSET Managers] \cup {None}]

Unassigned == [k \in Scopes |-> None]

Init ==
  /\ managers = {} /\ script = [i \in Ids |-> None] /\ created = 0
  /\ override = [s \in Systems |-> Unassigned]
  /\ detected = [s \in Systems |-> None] /\ disabled = [s \in Systems |-> {}]
  /\ search = [s \in Systems |-> None]

-------------------------------------------------------------------------------
Of(k) == {i \in Ids : script[i] # None /\ script[i].scope = k}
Defaults(k) == {i \in Of(k) : script[i].default}
First(ids) == CHOOSE i \in ids : \A j \in ids : i <= j

\* What an override of a scope may name: validateSystemOverride.
Assignable(k) == Of(k) \cup (IF k \in Supplied THEN {Shipped} ELSE {})

Standard(k) ==
  IF Defaults(k) # {} THEN First(Defaults(k))
  ELSE IF k \in Supplied THEN Shipped
  ELSE IF Of(k) # {} THEN First(Of(k))
  ELSE None

\* resolveScript: what the system runs for a scope.
Resolve(s, k) == IF override[s][k] \in Assignable(k) THEN override[s][k] ELSE Standard(k)

\* isManagerActiveForSystem: without a list every built-in manager counts.
Active(s, m) ==
  /\ m \notin disabled[s]
  /\ m \in IF detected[s] \in {None, {}} THEN Builtin ELSE detected[s]

Counts(s, k) == ManagerOf[k] = None \/ Active(s, ManagerOf[k])

\* Mutant: only a script marked as default counts as one.
IsStandardIfMarked(i) == script[i].default

\* getEffectiveDefaultScriptId: a custom manager needs no script marked as default.
IsStandard(i) ==
  LET k == script[i].scope IN
  \/ script[i].default
  \/ ManagerOf[k] \notin Builtin \cup {None} /\ Defaults(k) = {} /\ i = First(Of(k))

\* listSystemsUsingDefault, and the overrides of systems that have the manager.
UsedByDefault(i) ==
  LET k == script[i].scope IN
  IsStandard(i) /\ \E s \in Systems : Counts(s, k) /\ override[s][k] = None
UsedByOverride(i) == \E s \in Systems, k \in Scopes : override[s][k] = i /\ Counts(s, k)
Used(i) == UsedByDefault(i) \/ UsedByOverride(i)

-------------------------------------------------------------------------------
\* Script i is written with its scope; a default takes the mark from the others.
Written(i, k, default) ==
  [j \in Ids |->
     IF j = i THEN [scope |-> k, default |-> default]
     ELSE IF default /\ j \in Of(k) THEN [scope |-> k, default |-> FALSE]
     ELSE script[j]]

CreateScript(k, default) ==
  /\ created < MaxScripts
  /\ created' = created + 1
  /\ script' = Written(created', k, default)
  /\ UNCHANGED <<managers, override, detected, disabled, search>>

\* A script in use keeps its scope.
UpdateScript(i, k, default) ==
  /\ script[i] # None
  /\ k # script[i].scope => ~Used(i)
  /\ script' = Written(i, k, default)
  /\ UNCHANGED <<managers, created, override, detected, disabled, search>>

\* The overrides that are left when those of some scripts and scopes are removed.
Without(ids, scopes) ==
  [s \in Systems |->
     [k \in Scopes |-> IF override[s][k] \in ids \/ k \in scopes THEN None ELSE override[s][k]]]

\* Mutant: the overrides of systems it does not count for are forgotten.
DeleteScriptAlone(i) ==
  /\ script[i] # None /\ ~Used(i)
  /\ script' = [script EXCEPT ![i] = None]
  /\ UNCHANGED <<managers, created, override, detected, disabled, search>>

DeleteScript(i) ==
  /\ script[i] # None /\ ~Used(i)
  /\ override' = Without({i}, {})
  /\ script' = [script EXCEPT ![i] = None]
  /\ UNCHANGED <<managers, created, detected, disabled, search>>

CreateManager(m) ==
  /\ m \notin managers \cup Builtin
  /\ managers' = managers \cup {m}
  /\ UNCHANGED <<script, created, override, detected, disabled, search>>

ScopesOf(m) == {k \in Scopes : ManagerOf[k] = m}

(* deleteCustomPackageManager: with its scripts, if asked to.  The manager *)
(* also leaves the lists of the systems; a list that is empty is null.     *)
DeleteManager(m, withScripts) ==
  LET own == UNION {Of(k) : k \in ScopesOf(m)} IN
  /\ m \in managers
  /\ \/ own = {}
     \/ withScripts /\ \A i \in own : ~Used(i)
  /\ \A s \in Systems : ~Active(s, m)
  /\ managers' = managers \ {m}
  /\ script' = [i \in Ids |-> IF i \in own THEN None ELSE script[i]]
  /\ override' = Without(own, ScopesOf(m))
  /\ detected' = [s \in Systems |-> IF detected[s] \in {None, {}, {m}} THEN None
                                    ELSE detected[s] \ {m}]
  /\ disabled' = [s \in Systems |-> disabled[s] \ {m}]
  /\ UNCHANGED <<created, search>>

(* importCustomPackageManagerBundle, of at most one script: the manager is *)
(* new, the script replaces one of its name or is created.  A script that  *)
(* is refused leaves the manager behind, which the next attempt finds.     *)
ImportManager(m) ==
  /\ m \notin managers \cup Builtin
  /\ managers' = managers \cup {m}
  /\ \/ UNCHANGED <<script, created>>
     \/ \E k \in ScopesOf(m), default \in BOOLEAN :
          \/ \E i \in Of(k) : script' = Written(i, k, default) /\ UNCHANGED created
          \/ /\ created < MaxScripts
             /\ created' = created + 1
             /\ script' = Written(created', k, default)
  /\ UNCHANGED <<override, detected, disabled, search>>

-------------------------------------------------------------------------------
\* setSystemOverrides writes entry by entry: each one may be the last.
SetOverride(s, k) ==
  /\ \E i \in Assignable(k) \cup {None} : override' = [override EXCEPT ![s][k] = i]
  /\ UNCHANGED <<managers, script, created, detected, disabled, search>>

\* replaceSystemOverrides, with at most one entry: nothing else is left.
ReplaceOverrides(s) ==
  /\ \E k \in Scopes : \E i \in Assignable(k) \cup {None} :
       override' = [override EXCEPT ![s] = [Unassigned EXCEPT ![k] = i]]
  /\ UNCHANGED <<managers, script, created, detected, disabled, search>>

\* updateSystem: one manager switched, or a list of detected ones in the body.
SwitchManager(s, m) ==
  /\ disabled' = [disabled EXCEPT ![s] = IF m \in @ THEN @ \ {m} ELSE @ \cup {m}]
  /\ UNCHANGED <<managers, script, created, override, detected, search>>

EditDetected(s) ==
  /\ \E found \in SUBSET (Builtin \cup managers) : detected' = [detected EXCEPT ![s] = found]
  /\ UNCHANGED <<managers, script, created, override, disabled, search>>

(* detectPackageManagersWithScripts: the candidates are listed once, and   *)
(* the script of each is looked up when its turn comes.                    *)
StartDetection(s) ==
  /\ detected[s] = None /\ search[s] = None
  /\ search' = [search EXCEPT ![s] = [todo |-> Builtin \cup managers, found |-> {}]]
  /\ UNCHANGED <<managers, script, created, override, detected, disabled>>

Detect(s, m) ==
  /\ search[s] # None /\ m \in search[s].todo
  /\ \/ search' = [search EXCEPT ![s].todo = @ \ {m}]
     \/ /\ Resolve(s, Detection[m]) # None
        /\ search' = [search EXCEPT ![s].todo = @ \ {m}, ![s].found = @ \cup {m}]
  /\ UNCHANGED <<managers, script, created, override, detected, disabled>>

\* detectAndStorePkgManager; the connection may be lost before.
EndDetection(s) ==
  /\ search[s] # None
  /\ \/ UNCHANGED detected
     \/ /\ search[s].todo = {} /\ search[s].found # {}
        /\ detected' = [detected EXCEPT ![s] = search[s].found]
  /\ search' = [search EXCEPT ![s] = None]
  /\ UNCHANGED <<managers, script, created, override, disabled>>

Next ==
  \/ \E k \in Scopes, default \in BOOLEAN : CreateScript(k, default)
  \/ \E i \in Ids : \/ DeleteScript(i)
                    \/ \E k \in Scopes, default \in BOOLEAN : UpdateScript(i, k, default)
  \/ \E m \in Managers : \/ CreateManager(m) \/ ImportManager(m)
                         \/ \E withScripts \in BOOLEAN : DeleteManager(m, withScripts)
  \/ \E s \in Systems :
       \/ ReplaceOverrides(s) \/ EditDetected(s) \/ StartDetection(s) \/ EndDetection(s)
       \/ \E k \in Scopes : SetOverride(s, k)
       \/ \E m \in Managers : SwitchManager(s, m) \/ Detect(s, m)

Spec == Init /\ [][Next]_vars

-------------------------------------------------------------------------------
(* A scope has one default at most, and no override names a script that is *)
(* gone, although overrides of managers that a system does not use protect *)
(* nothing.                                                                *)
ScriptsSound ==
  /\ \A k \in Scopes : \A i, j \in Defaults(k) : i = j
  /\ \A s \in Systems, k \in Scopes :
       override[s][k] \in Ids => script[override[s][k]] # None

\* The scope is one of the managers that the checks and upgrades of s go through.
Relied(s, k) ==
  \/ ManagerOf[k] = None
  \/ detected[s] # None /\ ManagerOf[k] \in detected[s] \ disabled[s]
Stale(s, k) == override[s][k] \in Ids /\ override[s][k] \notin Of(k)

\* What remains of a built-in manager's operation without a built-in script: the
\* first custom script, which nothing counts as a default.
Fallback(k) == ManagerOf[k] \in Builtin \cup {None} /\ k \notin Supplied /\ Defaults(k) = {}

(* "Used scripts and package managers are protected from accidental        *)
(* deletion": a deletion changes nothing a system runs.  With two          *)
(* exceptions.  A stale override: its script was given to another scope    *)
(* while the manager was disabled, the default it falls back to is not     *)
(* counted as used by this system, and may be deleted.  And the script a   *)
(* built-in manager falls back to: it is used by every system that has the *)
(* manager and by none in the usages.                                      *)
Gone == {i \in Ids : script[i] # None /\ script'[i] = None}
SparesUsed ==
  \A s \in Systems, k \in Scopes :
    Gone # {} /\ Relied(s, k) /\ ~Stale(s, k) /\ ~Fallback(k) =>
      Resolve(s, k)' = Resolve(s, k)
UsedScriptsStay == [][SparesUsed]_vars

\* Not so: see UsedScriptsStay.
SparesEveryUsed ==
  \A s \in Systems, k \in Scopes :
    Gone # {} /\ Relied(s, k) => Resolve(s, k)' = Resolve(s, k)
EveryUsedScriptStays == [][SparesEveryUsed]_vars

\* Not so: a manager deleted while a detection is going on comes back into the list.
DetectedKnown == \A s \in Systems : detected[s] # None => detected[s] \subseteq Builtin \cup managers
================================================================================
