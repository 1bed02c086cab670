-------------------------------- MODULE History --------------------------------
(***************************************************************************)
(* The history of one system and its retention (pruneHistoryForSystem and  *)
(* its callers in services/update-service.ts and                           *)
(* services/upgrade-batch-service.ts).  Every row that is added may remove *)
(* others: a running operation still has to find its own, and the list of  *)
(* systems shows the latest check that is over.                            *)
(***************************************************************************)
EXTENDS Integers, FiniteSets

CONSTANTS Limits,       \* activity_history_limit
          MaxRows       \* bound: rows are added up to this time

VARIABLES rows,         \* id, start, action and status of each row
          limit,
          running,      \* id of the row of the operation in progress, 0 when idle
          queued,       \* id of the row an Upgrade All item waits with, 0 when none
          clock,        \* time of the last row added or started; ids are times
          checked       \* ghost: id of the last check that was over, 0 before it

vars == <<rows, limit, running, queued, clock, checked>>

Over == {"success", "failed", "cancelled"}
Row == [id : Nat, start : Nat, action : {"check", "upgrade"}, status : Over \cup {"queued", "started"}]

Init == /\ rows = {} /\ limit \in Limits
        /\ running = 0 /\ queued = 0 /\ clock = 0 /\ checked = 0

OverChecks(table) == {r \in table : r.action = "check" /\ r.status \in Over}

\* The newest rows, of a number of them.
Newest(table, n) == {r \in table : Cardinality({x \in table : x.start > r.start}) < n}

\* Mutant: retention looks at the number of rows only.
PruneByNumber(table, n) == Newest(table, n)

\* The row of the latest check that is over, and the newest rows, stay.
Prune(table, n) ==
  LET checks == OverChecks(table)
  IN {r \in checks : \A x \in checks : x.start <= r.start} \cup Newest(table, n)

Add(action, status) ==
  /\ clock < MaxRows
  /\ clock' = clock + 1
  /\ LET new == [id |-> clock + 1, start |-> clock + 1, action |-> action, status |-> status]
     IN rows' = Prune(rows \cup {new}, limit)

(* A check logs one row when it is over; the lock keeps it apart from      *)
(* operations, whose rechecks come after their row is finished.            *)
LogCheck ==
  /\ running = 0
  /\ \E status \in Over : Add("check", status)
  /\ checked' = clock + 1
  /\ UNCHANGED <<limit, running, queued>>

StartOperation ==
  /\ running = 0
  /\ Add("upgrade", "started")
  /\ running' = clock + 1
  /\ UNCHANGED <<limit, queued, checked>>

QueueItem ==
  /\ queued = 0
  /\ Add("upgrade", "queued")
  /\ queued' = clock + 1
  /\ UNCHANGED <<limit, running, checked>>

\* The row of a queued item starts now: it becomes the newest.
StartItem ==
  /\ running = 0 /\ queued # 0
  /\ clock' = clock + 1
  /\ rows' = {IF r.id = queued THEN [r EXCEPT !.status = "started", !.start = clock + 1]
                               ELSE r : r \in rows}
  /\ running' = queued /\ queued' = 0
  /\ UNCHANGED <<limit, checked>>

Finish ==
  /\ running # 0
  /\ \E status \in Over :
       rows' = {IF r.id = running THEN [r EXCEPT !.status = status] ELSE r : r \in rows}
  /\ running' = 0
  /\ UNCHANGED <<limit, queued, clock, checked>>

SetLimit ==
  /\ limit' \in Limits \ {limit}
  /\ rows' = Prune(rows, limit')
  /\ UNCHANGED <<running, queued, clock, checked>>

Next == LogCheck \/ StartOperation \/ QueueItem \/ StartItem \/ Finish \/ SetLimit

Spec == Init /\ [][Next]_vars

\* What the list of systems shows: the latest check that was not cancelled.
ShownChecks == {r \in OverChecks(rows) : r.status # "cancelled"}

(* Retention keeps the latest check that is over, however many rows of     *)
(* other actions follow it, start late or end meanwhile.                   *)
LatestCheckKept == checked # 0 => \E r \in OverChecks(rows) : r.id = checked

(* Not so: the check that is kept may be a cancelled one, which the reader *)
(* skips, and the one it would show is removed.                            *)
ShownCheckKept == [][ShownChecks # {} => ShownChecks' # {}]_vars

(* Not so: an Upgrade All item that waits for its group keeps no row when  *)
(* as many checks as the limit are logged meanwhile.                       *)
QueuedRowKept == queued # 0 => \E r \in rows : r.id = queued
================================================================================
