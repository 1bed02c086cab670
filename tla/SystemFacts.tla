------------------------------ MODULE SystemFacts ------------------------------
(***************************************************************************)
(* What the dashboard knows of one host from the system information of a   *)
(* check, and the warnings an operator dismisses until the host's next     *)
(* boot: a pending reboot and issues of the package manager                *)
(* (updateSystemInfo and dismissNeedsReboot of services/system-service.ts, *)
(* ssh/system-info.ts, services/package-manager-issue-service.ts).         *)
(***************************************************************************)
EXTENDS Integers

CONSTANT MaxBoots       \* bound: boots of the host

\* What the proofs need of the constant.
BootsAssumption == MaxBoots \in Nat \ {0}

VARIABLES host,         \* its boot, why it wants a reboot, whether its manager is broken
          row,          \* systems: boot, needsReboot, boot of the dismissal (0: none)
          issue,        \* package_manager_issues: active, boot of the dismissal
          check         \* the check in progress and the row it read

vars == <<host, row, issue, check>>

Boots == 1 .. MaxBoots

TypeOK ==
  /\ host \in [boot : Boots, reason : {"none", "kernel", "file"}, broken : BOOLEAN]
  /\ row \in [boot : {0} \cup Boots, needsReboot : BOOLEAN, dismissed : {0} \cup Boots]
  /\ issue \in [active : BOOLEAN, dismissed : {0} \cup Boots]
  /\ check \in [phase : {"idle", "info", "manager"},
                boot : {0} \cup Boots, dismissed : {0} \cup Boots]

Init ==
  /\ host = [boot |-> 1, reason |-> "none", broken |-> FALSE]
  /\ row = [boot |-> 0, needsReboot |-> FALSE, dismissed |-> 0]
  /\ issue = [active |-> FALSE, dismissed |-> 0]
  /\ check = [phase |-> "idle", boot |-> 0, dismissed |-> 0]

\* updateSystemInfo keeps the row it began with while its command runs.
BeginInfo ==
  /\ check.phase = "idle"
  /\ check' = [phase |-> "info", boot |-> row.boot, dismissed |-> row.dismissed]
  /\ UNCHANGED <<host, row, issue>>

(* resolveRebootRequired: a reboot file left from before a boot that was   *)
(* seen to change is stale.                                                *)
RebootRequired ==
  \/ host.reason = "kernel"
  \/ host.reason = "file" /\ (check.boot = 0 \/ check.boot = host.boot)

\* Mutant: the dismissal is compared with the boot the row was about.
ExpiredByRow == check.dismissed # 0 /\ check.dismissed # check.boot

\* resolveRebootDismissal: a dismissal holds for the boot it was made in.
Expired == check.dismissed # 0 /\ check.dismissed # host.boot

(* The whole information is written, with the dismissal that was read.     *)
StoreInfo ==
  /\ check.phase = "info"
  /\ row' = [boot |-> host.boot,
             needsReboot |-> RebootRequired /\ (check.dismissed = 0 \/ Expired),
             dismissed |-> IF Expired THEN 0 ELSE check.dismissed]
  /\ check' = [check EXCEPT !.phase = "manager"]
  /\ UNCHANGED <<host, issue>>

\* The manager's check finds an issue, which keeps its dismissal, or none.
CheckManager ==
  /\ check.phase = "manager"
  /\ issue' = [issue EXCEPT !.active = host.broken]
  /\ check' = [phase |-> "idle", boot |-> 0, dismissed |-> 0]
  /\ UNCHANGED <<host, row>>

CheckFails ==
  /\ check.phase # "idle"
  /\ check' = [phase |-> "idle", boot |-> 0, dismissed |-> 0]
  /\ UNCHANGED <<host, row, issue>>

\* A dismissal needs a boot to be bound to.
DismissReboot ==
  /\ row.boot # 0
  /\ row' = [row EXCEPT !.needsReboot = FALSE, !.dismissed = row.boot]
  /\ UNCHANGED <<host, issue, check>>

DismissIssue ==
  /\ issue.active /\ row.boot # 0
  /\ issue' = [issue EXCEPT !.dismissed = row.boot]
  /\ UNCHANGED <<host, row, check>>

\* listVisiblePackageManagerIssues clears dismissals of another boot first.
ListIssues ==
  /\ issue.dismissed \notin {0, row.boot}
  /\ issue' = [issue EXCEPT !.dismissed = 0]
  /\ UNCHANGED <<host, row, check>>

Reboot ==
  /\ host.boot < MaxBoots
  /\ \E left \in {"none", "file"} :
       host' = [host EXCEPT !.boot = @ + 1,
                            !.reason = IF left = "file" /\ host.reason = "file" THEN "file" ELSE "none"]
  /\ UNCHANGED <<row, issue, check>>

HostChanges ==
  /\ \E reason \in {"none", "kernel", "file"}, broken \in BOOLEAN :
       /\ [host EXCEPT !.reason = reason, !.broken = broken] # host
       /\ host' = [host EXCEPT !.reason = reason, !.broken = broken]
  /\ UNCHANGED <<row, issue, check>>

Next == \/ BeginInfo \/ StoreInfo \/ CheckManager \/ CheckFails
        \/ DismissReboot \/ DismissIssue \/ ListIssues \/ Reboot \/ HostChanges

Spec == Init /\ [][Next]_vars

(* A dismissal silences the warning about a reboot for the boot the row is *)
(* about and for no later one, although a check may write back what it     *)
(* read before the dismissal, or before the host rebooted.                 *)
DismissalOfThisBoot ==
  /\ row.dismissed \in {0, row.boot}
  /\ row.dismissed # 0 => ~row.needsReboot

(* Not so: a dismissal during the information command of a check is        *)
(* written over with the row that check had read.                          *)
StaysDismissed == row.dismissed # 0 /\ row'.boot = row.boot => row'.dismissed = row.dismissed
DismissalsLast == [][StaysDismissed]_vars
================================================================================
