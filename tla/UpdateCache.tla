------------------------------ MODULE UpdateCache ------------------------------
(***************************************************************************)
(* What a check of one system leaves behind: the cached updates, the       *)
(* updates hidden from the counts, and the list of installed packages      *)
(* (checkUpdatesUnlocked of services/update-service.ts,                    *)
(* services/cache-service.ts, hidden-update-service.ts and                 *)
(* installed-package-service.ts).  A check reads the row of the system,    *)
(* awaits one command per manager and stores everything at its end, while  *)
(* operators hide updates and edit the system.                             *)
(***************************************************************************)
EXTENDS Integers, FiniteSets

CONSTANTS Managers,
          ManagerOf,    \* the manager of each update; its domain is the updates
          Held          \* the updates that may be kept back (apt's)

VARIABLES offered,      \* on the host: updates, and how ("plain" or "kept")
          cache,        \* update_cache: the same, as last stored
          hidden,       \* hidden_updates: reason and state of each row
          disabled,     \* managers the operator disabled
          autoHide,     \* autoHideKeptBackUpdates
          installed,    \* managers with rows in installed_package_cache
          wish,         \* ghost: what the operator last asked for an update
          check         \* the check in progress

vars == <<offered, cache, hidden, disabled, autoHide, installed, wish, check>>

Updates == DOMAIN ManagerOf
Offers == {f \in [Updates -> {"no", "plain", "kept"}] : \A u \in Updates : f[u] = "kept" => u \in Held}
Nothing == [u \in Updates |-> "no"]

NoRow == [reason |-> "none", state |-> "none"]
Active(reason) == [reason |-> reason, state |-> "active"]

Idle == [phase |-> "idle"]

Init ==
  /\ offered \in Offers
  /\ cache = Nothing /\ hidden = [u \in Updates |-> NoRow]
  /\ disabled = {} /\ autoHide = FALSE /\ installed = {} /\ wish = [u \in Updates |-> "none"]
  /\ check = Idle

(* The managers of a check are those of the row it read at its begin.      *)
BeginCheck ==
  /\ check.phase = "idle" /\ Managers \ disabled # {}
  /\ check' = [phase |-> "managers", managers |-> Managers \ disabled,
               left |-> Managers \ disabled, ok |-> {}, found |-> Nothing]
  /\ UNCHANGED <<offered, cache, hidden, disabled, autoHide, installed, wish>>

\* Without a manager nothing is checked and no package is listed any more.
CheckWithoutManagers ==
  /\ check.phase = "idle" /\ disabled = Managers
  /\ installed' = {}
  /\ UNCHANGED <<offered, cache, hidden, disabled, autoHide, wish, check>>

(* One manager: its check may fail, and its list of packages, whose        *)
(* failure is only a warning, is replaced when it was read.                *)
CheckManager ==
  /\ check.phase = "managers"
  /\ \E m \in check.left, works \in BOOLEAN, listed \in BOOLEAN :
       /\ check' = [check EXCEPT
            !.left = @ \ {m},
            !.ok = IF works THEN @ \cup {m} ELSE @,
            !.found = [u \in Updates |-> IF works /\ ManagerOf[u] = m THEN offered[u] ELSE @[u]]]
       /\ installed' = IF listed THEN installed \cup {m} ELSE installed
  /\ UNCHANGED <<offered, cache, hidden, disabled, autoHide, wish>>

\* A cancellation or a lost connection leaves what is stored as it was.
CheckAbandoned ==
  /\ check.phase = "managers"
  /\ check' = Idle
  /\ UNCHANGED <<offered, cache, hidden, disabled, autoHide, installed, wish>>

\* Mutant: the last hide decides about the reason.
HideByLastReason(rows, u, reason) == [rows EXCEPT ![u] = Active(reason)]

\* createHiddenUpdate: a manual reason is never weakened.
Hide(rows, u, reason) ==
  [rows EXCEPT ![u] = Active(IF rows[u].reason = "manual" THEN "manual" ELSE reason)]

(* syncHiddenUpdatesForCheck, row by row: rows of managers that were not   *)
(* checked stay; a row is active while its update is found and its reason  *)
(* holds; an inactive row is removed once its retention is over.           *)
SyncedRow(u) ==
  LET row == hidden[u]
      keep == /\ check.found[u] # "no"
              /\ \/ row.reason = "manual"
                 \/ autoHide /\ check.found[u] = "kept"
  IN IF row = NoRow \/ ManagerOf[u] \notin check.ok THEN row
     ELSE IF keep THEN Active(row.reason)
     ELSE IF row.state = "old" THEN NoRow
     ELSE IF row.state = "inactive" THEN row
     ELSE [row EXCEPT !.state = "inactive"]

AutoHidden(rows, updates) ==
  [u \in Updates |-> IF autoHide /\ updates[u] = "kept" THEN Hide(rows, u, "kept_back")[u]
                     ELSE rows[u]]

(* The end of a check, in one turn: packages of managers it did not have   *)
(* are removed, the cache is replaced, hidden rows are synchronised, and   *)
(* updates kept back are hidden if the setting of this moment says so.     *)
EndCheck ==
  /\ check.phase = "managers" /\ check.left = {}
  /\ check' = Idle
  /\ installed' = installed \cap check.managers
  /\ cache' = check.found
  /\ hidden' = IF check.ok = {} THEN hidden
               ELSE AutoHidden([u \in Updates |-> SyncedRow(u)], check.found)
  /\ wish' = [u \in Updates |->
                 IF ManagerOf[u] \in check.ok /\ (wish[u] = "show" \/ SyncedRow(u) = NoRow)
                 THEN "none" ELSE wish[u]]
  /\ UNCHANGED <<offered, disabled, autoHide>>

HideUpdate ==
  \E u \in Updates :
    /\ cache[u] # "no"
    /\ hidden' = Hide(hidden, u, "manual")
    /\ wish' = [wish EXCEPT ![u] = "hide"]
    /\ UNCHANGED <<offered, cache, disabled, autoHide, installed, check>>

UnhideUpdate ==
  \E u \in Updates :
    /\ hidden[u] # NoRow
    /\ hidden' = [hidden EXCEPT ![u] = NoRow]
    /\ wish' = [wish EXCEPT ![u] = "show"]
    /\ UNCHANGED <<offered, cache, disabled, autoHide, installed, check>>

(* reconcileCachedKeptBackAutoHide, with the setting and the cache as they *)
(* are from now on.                                                        *)
Reconciled(on, updates) ==
  [u \in Updates |->
     IF on THEN IF updates[u] = "kept" THEN Hide(hidden, u, "kept_back")[u] ELSE hidden[u]
     ELSE IF hidden[u] = Active("kept_back") THEN [hidden[u] EXCEPT !.state = "inactive"]
     ELSE hidden[u]]

(* Saving the system: other managers empty the cache, and the hidden rows  *)
(* are reconciled in the same turn.                                        *)
SaveSystem ==
  \E off \in SUBSET Managers, hide \in BOOLEAN :
    /\ disabled' = off /\ autoHide' = hide
    /\ cache' = IF off # disabled THEN Nothing ELSE cache
    /\ hidden' = Reconciled(hide, cache')
    /\ wish' = [u \in Updates |->
                  IF hide /\ wish[u] = "show" /\ cache'[u] = "kept" THEN "none" ELSE wish[u]]
    /\ UNCHANGED <<offered, installed, check>>

InvalidateCache ==
  /\ cache' = Nothing
  /\ UNCHANGED <<offered, hidden, disabled, autoHide, installed, wish, check>>

\* An update of the host appears, changes or goes, and inactive rows reach the end of their retention.
HostChanges ==
  /\ \E u \in Updates : \E o \in {"no", "plain", "kept"} \ {offered[u]} :
       /\ o = "kept" => u \in Held
       /\ offered' = [offered EXCEPT ![u] = o]
  /\ UNCHANGED <<cache, hidden, disabled, autoHide, installed, wish, check>>

RetentionPasses ==
  \E u \in Updates :
    /\ hidden[u].state = "inactive"
    /\ hidden' = [hidden EXCEPT ![u].state = "old"]
    /\ UNCHANGED <<offered, cache, disabled, autoHide, installed, wish, check>>

Next == \/ BeginCheck \/ CheckWithoutManagers \/ CheckManager \/ CheckAbandoned \/ EndCheck
        \/ HideUpdate \/ UnhideUpdate \/ SaveSystem \/ InvalidateCache
        \/ HostChanges \/ RetentionPasses

Spec == Init /\ [][Next]_vars

Visible(u) == cache[u] # "no" /\ hidden[u].state # "active"

(* An update an operator hid does not come back into the counts, however   *)
(* long it was gone, and updates kept back are counted exactly when the    *)
(* setting says so or the operator asked for one: at all times, also when  *)
(* the setting changes under a check that began before.                    *)
ManualHidesApply == \A u \in Updates : wish[u] = "hide" => ~Visible(u)

KeptBackFollowsSetting ==
  \A u \in Updates :
    IF autoHide THEN cache[u] = "kept" => ~Visible(u) \/ wish[u] = "show"
    ELSE hidden[u] # Active("kept_back")

HiddenSound == ManualHidesApply /\ KeptBackFollowsSetting

(* Not so: a check that began before a manager was disabled stores what it *)
(* found for it after the edit had emptied the cache.                      *)
CacheOfEnabledManagers == \A u \in Updates : cache[u] # "no" => ManagerOf[u] \notin disabled
================================================================================
