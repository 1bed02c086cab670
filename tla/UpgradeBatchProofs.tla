-------------------------- MODULE UpgradeBatchProofs --------------------------
(***************************************************************************)
(* What UpgradeBatch keeps for every number of systems, groups, managers   *)
(* and restarts.  Each conjunct of the invariant speaks of one system, and *)
(* the actions of an item change nothing of the others.                    *)
(***************************************************************************)
EXTENDS UpgradeBatch, SequenceTheorems, TLAPS

Steps == {"setup", "launched", "tailing", "reconnecting"}

\* The rows that are referred to exist.
PointersExist(s) ==
  /\ item[s].hist <= Len(rows[s])
  /\ item[s].status \in Unfinished => item[s].hist >= 1
  /\ op[s].row <= Len(rows[s]) /\ op[s].queued <= Len(rows[s])

\* An operation belongs to an unfinished item that is in flight, and leaves a
\* status to store.  One that rechecks has lost nothing and done something.
BusyIsUnfinished(s) ==
  /\ op[s].pc = "idle" <=> s \notin flight
  /\ op[s].pc = "idle" => op[s] = Idle
  /\ op[s].pc # "idle" => item[s].status \in Unfinished
  /\ op[s].pc = "finishing" => op[s].result \in Final
  /\ op[s].pc = "rechecking" => ~op[s].lost /\ ~(op[s].first /\ op[s].queued # 0)

\* The step an operation is in is the one its item names, and not to be done again.
StepIsOpen(s) ==
  op[s].pc \in Steps =>
    /\ op[s].mgr \in Mgrs \ op[s].todo /\ op[s].row \in 1..Len(rows[s])
    /\ item[s].status = "running" /\ item[s].mgr = op[s].mgr /\ item[s].hist = op[s].row
    /\ rows[s][op[s].row] = [mgr |-> op[s].mgr, status |-> "started"]

\* Between the start of a step and the answer of its setup nothing is stored.
InfoIsCurrent(s) ==
  /\ item[s].info # None => item[s].info = [mgr |-> item[s].mgr, n |-> launches[s][item[s].mgr]]
  /\ op[s].pc \in {"setup", "launched"} => item[s].info = None

\* This run of the dashboard has not launched the manager for the item.
NotYet(s, m) == \/ op[s].pc \in {"idle", "waiting"} /\ item[s].status \in Unfinished
                \/ m \in op[s].todo
                \/ op[s].pc = "setup" /\ op[s].mgr = m

LaunchesBounded(s) ==
  \A m \in Mgrs : /\ launches[s][m] <= restarts + 1
                  /\ NotYet(s, m) => launches[s][m] <= restarts

\* Before the first restart, what the rows may say beside success.
Allowed(s, i) ==
  LET status == rows[s][i].status IN
  \/ status = "success"
  \/ status = "warning" /\ op[s].lost
  \/ status = "failed" /\ ~op[s].ok
  \/ status = "started" /\ op[s].pc \in Steps /\ i = op[s].row
  \/ status = "queued" /\ op[s].first /\ i = op[s].queued

RowsAgree(s, status) ==
  status \in {"success", "warning"} =>
    \A i \in 1..Len(rows[s]) : rows[s][i].status \in {"success", status}

FirstRun(s) ==
  restarts = 0 =>
    /\ op[s].pc = "idle" /\ item[s].status \in Unfinished =>
         /\ item[s].status = "queued"
         /\ \A i \in 1..Len(rows[s]) : rows[s][i].status = "queued" /\ i = item[s].hist
    /\ op[s].pc # "idle" => ~op[s].resume
    /\ op[s].pc \notin {"idle", "finishing"} => \A i \in 1..Len(rows[s]) : Allowed(s, i)
    /\ op[s].pc = "finishing" => RowsAgree(s, op[s].result)
    /\ RowsAgree(s, item[s].status)

SystemInv(s) ==
  /\ PointersExist(s) /\ BusyIsUnfinished(s) /\ StepIsOpen(s)
  /\ InfoIsCurrent(s) /\ LaunchesBounded(s) /\ FirstRun(s)

\* Nothing has happened before the batch is created, and no item is in flight
\* when it is not running.
BatchInv ==
  /\ batch \notin Unfinished => flight = {}
  /\ batch = None => \A s \in Systems : item[s] = NoItem /\ \A m \in Mgrs : launches[s][m] = 0

\* s is the only system a step changes something of.
OnlyOf(s) ==
  /\ batch' = batch /\ restarts' = restarts
  /\ \A t \in Systems \ {s} : /\ item'[t] = item[t] /\ rows'[t] = rows[t] /\ op'[t] = op[t]
                              /\ launches'[t] = launches[t] /\ (t \in flight' <=> t \in flight)

IInv == TypeOK /\ BatchInv /\ \A s \in Systems : SystemInv(s)

-----------------------------------------------------------------------------
(* What the steps do to the three functions they update. *)

(* A row that is written over leaves the others and the length.            *)
LEMMA RowSet ==
  ASSUME TypeOK, NEW s \in Systems, NEW i \in 1..Len(rows[s]), NEW row \in Row, SetRow(s, i, row)
  PROVE  /\ rows' \in [Systems -> Seq(Row)]
         /\ \A t \in Systems \ {s} : rows'[t] = rows[t]
         /\ Len(rows'[s]) = Len(rows[s])
         /\ \A j \in 1..Len(rows[s]) : rows'[s][j] = IF j = i THEN row ELSE rows[s][j]
<1> DEFINE q == rows[s]
<1>1. q \in Seq(Row) /\ i \in 1..Len(q)
  BY DEF TypeOK
<1>2. rows' = [rows EXCEPT ![s] = [q EXCEPT ![i] = row]]
  BY DEF SetRow
<1> HIDE DEF q
<1>3. /\ [q EXCEPT ![i] = row] \in Seq(Row)
      /\ Len([q EXCEPT ![i] = row]) = Len(q)
      /\ \A j \in 1..Len(q) : [q EXCEPT ![i] = row][j] = IF j = i THEN row ELSE q[j]
  BY <1>1, ExceptSeq
<1>4. rows'[s] = [q EXCEPT ![i] = row]
  BY <1>2 DEF TypeOK
<1> QED
  BY <1>2, <1>3, <1>4 DEF TypeOK, q

(* A row that is added leaves all others.                                  *)
LEMMA RowAdded ==
  ASSUME TypeOK, NEW s \in Systems, NEW row \in Row, AddRow(s, row)
  PROVE  /\ rows' \in [Systems -> Seq(Row)]
         /\ \A t \in Systems \ {s} : rows'[t] = rows[t]
         /\ Len(rows'[s]) = Len(rows[s]) + 1
         /\ rows'[s][Len(rows[s]) + 1] = row
         /\ \A j \in 1..Len(rows[s]) : rows'[s][j] = rows[s][j]
<1> DEFINE q == rows[s]
<1>1. q \in Seq(Row)
  BY DEF TypeOK
<1>2. rows' = [rows EXCEPT ![s] = Append(q, row)]
  BY DEF AddRow
<1> HIDE DEF q
<1>3. /\ Append(q, row) \in Seq(Row) /\ Len(Append(q, row)) = Len(q) + 1
      /\ Append(q, row)[Len(q) + 1] = row
      /\ \A j \in 1..Len(q) : Append(q, row)[j] = q[j]
  BY <1>1, AppendProperties
<1>4. rows'[s] = Append(q, row)
  BY <1>2 DEF TypeOK
<1> QED
  BY <1>2, <1>3, <1>4 DEF TypeOK, q

LEMMA OpSet ==
  ASSUME TypeOK, NEW s \in Systems, NEW o \in Operation, SetOp(s, o)
  PROVE  /\ op' \in [Systems -> Operation] /\ op'[s] = o
         /\ \A t \in Systems \ {s} : op'[t] = op[t]
BY DEF TypeOK, SetOp

(* A system nothing is changed of keeps its part of the invariant.         *)
LEMMA Frame ==
  ASSUME NEW t \in Systems, SystemInv(t), item'[t] = item[t], rows'[t] = rows[t],
         op'[t] = op[t], launches'[t] = launches[t], restarts' = restarts,
         t \in flight' <=> t \in flight
  PROVE  SystemInv(t)'
<1>1. PointersExist(t)' /\ BusyIsUnfinished(t)' /\ StepIsOpen(t)' /\ InfoIsCurrent(t)'
  BY DEF SystemInv, PointersExist, BusyIsUnfinished, StepIsOpen, InfoIsCurrent
<1>2. LaunchesBounded(t)'
  BY DEF SystemInv, LaunchesBounded, NotYet
<1>3. FirstRun(t)'
  BY DEF SystemInv, FirstRun, Allowed, RowsAgree
<1> QED
  BY <1>1, <1>2, <1>3 DEF SystemInv

(* So a step of one item has only that system to look after.               *)
LEMMA LocalStep ==
  ASSUME IInv, NEW s \in Systems, op[s].pc # "idle", OnlyOf(s), TypeOK', SystemInv(s)'
  PROVE  IInv'
<1>1. \A t \in Systems \ {s} : SystemInv(t)'
  BY Frame DEF IInv, OnlyOf
<1>2. s \in flight
  BY DEF IInv, SystemInv, BusyIsUnfinished
<1>3. batch \in Unfinished /\ batch' = batch
  BY <1>2 DEF IInv, BatchInv, OnlyOf
<1>4. batch' # None
  BY <1>3, BatchAssumption DEF Unfinished
<1>5. BatchInv'
  BY <1>3, <1>4 DEF BatchInv
<1> QED
  BY <1>1, <1>5 DEF IInv

-----------------------------------------------------------------------------
(* The end of a step, and of an operation. *)

(* A step that ends leaves its row finished, with a status the operation   *)
(* remembers if it is not a success.                                       *)
LEMMA StepEnds ==
  ASSUME IInv, NEW s \in Systems, op[s].pc \in Steps,
         NEW status \in {"success", "warning", "failed"}, status = "warning" => op[s].lost,
         EndStep(s, status),
         item' = item, launches' = launches, restarts' = restarts, flight' = flight, batch' = batch
  PROVE  /\ op' \in [Systems -> Operation] /\ rows' \in [Systems -> Seq(Row)]
         /\ OnlyOf(s) /\ SystemInv(s)'
<1> DEFINE o == [op[s] EXCEPT !.pc = "loop", !.ok = op[s].ok /\ status # "failed",
                              !.todo = IF op[s].lost THEN {} ELSE op[s].todo]
           row == [mgr |-> op[s].mgr, status |-> status]
<1>1. op[s] \in Operation
  BY DEF IInv, TypeOK
<1>2. o \in Operation
  BY <1>1 DEF Operation, PcStates
<1>3. /\ o.pc = "loop" /\ o.row = op[s].row /\ o.queued = op[s].queued /\ o.first = op[s].first
      /\ o.lost = op[s].lost /\ o.resume = op[s].resume /\ o.todo \subseteq op[s].todo
      /\ (~o.ok <=> ~op[s].ok \/ status = "failed")
  BY <1>1 DEF Operation
<1>4. SetOp(s, o) /\ SetRow(s, op[s].row, row)
  BY DEF EndStep
<1> HIDE DEF o
<1>5. op' \in [Systems -> Operation] /\ op'[s] = o /\ \A t \in Systems \ {s} : op'[t] = op[t]
  BY <1>2, <1>4, OpSet DEF IInv
<1>6. /\ SystemInv(s) /\ op[s].mgr \in Mgrs \ op[s].todo /\ op[s].pc # "idle"
      /\ item[s].hist = op[s].row /\ item[s].status = "running"
      /\ rows[s][op[s].row] = [mgr |-> op[s].mgr, status |-> "started"]
  BY DEF IInv, SystemInv, StepIsOpen, Steps
<1>7. row \in Row /\ row.status = status
  BY <1>6 DEF Row, RowStatus, Final, Mgrs
<1>8. op[s].row \in 1..Len(rows[s])
  BY DEF IInv, SystemInv, StepIsOpen, Steps
<1> HIDE DEF row
<1>9. /\ rows' \in [Systems -> Seq(Row)] /\ \A t \in Systems \ {s} : rows'[t] = rows[t]
      /\ Len(rows'[s]) = Len(rows[s])
      /\ \A j \in 1..Len(rows[s]) : rows'[s][j] = IF j = op[s].row THEN row ELSE rows[s][j]
  BY <1>4, <1>7, <1>8, RowSet DEF IInv
<1>10. PointersExist(s)'
  BY <1>3, <1>5, <1>6, <1>9 DEF SystemInv, PointersExist
<1>11. BusyIsUnfinished(s)'
  BY <1>3, <1>5, <1>6 DEF SystemInv, BusyIsUnfinished
<1>12. StepIsOpen(s)' /\ InfoIsCurrent(s)'
  BY <1>3, <1>5, <1>6 DEF SystemInv, StepIsOpen, InfoIsCurrent, Steps
<1>13. LaunchesBounded(s)'
  BY <1>3, <1>5, <1>6 DEF SystemInv, LaunchesBounded, NotYet
<1>14. FirstRun(s)'
  <2> SUFFICES ASSUME restarts = 0 PROVE FirstRun(s)'
    BY DEF FirstRun
  <2>1. \A i \in 1..Len(rows[s]) : Allowed(s, i)
    BY <1>6 DEF SystemInv, FirstRun, Steps
  <2>2. \A i \in 1..Len(rows'[s]) : Allowed(s, i)'
    <3> SUFFICES ASSUME NEW i \in 1..Len(rows[s]) PROVE Allowed(s, i)'
      BY <1>9
    <3>1. CASE i = op[s].row
      BY <3>1, <1>3, <1>5, <1>7, <1>9 DEF Allowed
    <3>2. CASE i # op[s].row
      BY <3>2, <2>1, <1>3, <1>5, <1>9 DEF Allowed
    <3> QED
      BY <3>1, <3>2
  <2>3. ~op[s].resume
    BY <1>6 DEF SystemInv, FirstRun
  <2>4. RowsAgree(s, item[s].status)'
    BY <1>6 DEF RowsAgree
  <2> QED
    BY <2>2, <2>3, <2>4, <1>3, <1>5 DEF FirstRun
<1>15. OnlyOf(s)
  BY <1>5, <1>9 DEF OnlyOf
<1> QED
  BY <1>5, <1>9, <1>10, <1>11, <1>12, <1>13, <1>14, <1>15 DEF SystemInv

(* An operation that ends without success only has its result to store.    *)
LEMMA OperationFails ==
  ASSUME IInv, NEW s \in Systems, op[s].pc # "idle", NEW res \in {"failed", "cancelled"},
         Done(s, op[s], res), item' = item, launches' = launches, restarts' = restarts,
         flight' = flight, batch' = batch,
         rows' \in [Systems -> Seq(Row)], Len(rows'[s]) >= Len(rows[s]),
         \A t \in Systems \ {s} : rows'[t] = rows[t]
  PROVE  op' \in [Systems -> Operation] /\ OnlyOf(s) /\ SystemInv(s)'
<1> DEFINE o == [op[s] EXCEPT !.pc = "finishing", !.result = res]
<1>1. op[s] \in Operation
  BY DEF IInv, TypeOK
<1>2. o \in Operation
  BY <1>1 DEF Operation, PcStates, Final
<1>3. /\ o.pc = "finishing" /\ o.row = op[s].row /\ o.queued = op[s].queued
      /\ o.resume = op[s].resume /\ o.todo = op[s].todo /\ o.result = res
  BY <1>1 DEF Operation
<1>4. SetOp(s, o)
  BY DEF Done
<1> HIDE DEF o
<1>5. op' \in [Systems -> Operation] /\ op'[s] = o /\ \A t \in Systems \ {s} : op'[t] = op[t]
  BY <1>2, <1>4, OpSet DEF IInv
<1>6. SystemInv(s) /\ item[s].status \in Unfinished
  BY DEF IInv, SystemInv, BusyIsUnfinished
<1>7. /\ Len(rows[s]) \in Nat /\ Len(rows'[s]) \in Nat /\ op[s].row \in Nat
      /\ op[s].queued \in Nat /\ item[s].hist \in Nat
  BY <1>1, LenProperties DEF IInv, TypeOK, Operation, Item
<1>8. PointersExist(s)'
  BY <1>3, <1>5, <1>6, <1>7 DEF SystemInv, PointersExist
<1>9. BusyIsUnfinished(s)'
  BY <1>3, <1>5, <1>6 DEF SystemInv, BusyIsUnfinished, Final
<1>10. StepIsOpen(s)' /\ InfoIsCurrent(s)'
  BY <1>3, <1>5, <1>6 DEF SystemInv, StepIsOpen, InfoIsCurrent, Steps
<1>11. LaunchesBounded(s)'
  BY <1>3, <1>5, <1>6 DEF SystemInv, LaunchesBounded, NotYet
<1>12. FirstRun(s)'
  BY <1>3, <1>5, <1>6 DEF SystemInv, FirstRun, RowsAgree, Unfinished
<1>13. OnlyOf(s)
  BY <1>5 DEF OnlyOf
<1> QED
  BY <1>5, <1>8, <1>9, <1>10, <1>11, <1>12, <1>13 DEF SystemInv

(* An operation moves on between steps or inside one, and nothing but its  *)
(* own progress changes.                                                   *)
LEMMA OperationMoves ==
  ASSUME IInv, NEW s \in Systems, op[s].pc \notin {"idle", "finishing"},
         NEW o \in Operation, SetOp(s, o),
         o.pc \notin {"idle", "waiting", "finishing"},
         o.row = op[s].row, o.queued = op[s].queued, o.first = op[s].first,
         o.resume = op[s].resume, o.ok = op[s].ok, op[s].lost => o.lost,
         o.todo \subseteq op[s].todo \/ op[s].pc = "waiting",
         o.pc \in Steps <=> op[s].pc \in Steps,
         o.pc \in Steps => o.mgr = op[s].mgr /\ o.todo = op[s].todo,
         o.pc \in {"setup", "launched"} => o.pc = op[s].pc,
         o.pc = "rechecking" => \/ op[s].pc = "rechecking" /\ (o.lost <=> op[s].lost)
                                \/ ~o.lost /\ ~(o.first /\ o.queued # 0),
         item' = item, rows' = rows, launches' = launches, restarts' = restarts,
         flight' = flight, batch' = batch
  PROVE  op' \in [Systems -> Operation] /\ OnlyOf(s) /\ SystemInv(s)'
<1>1. op' \in [Systems -> Operation] /\ op'[s] = o /\ \A t \in Systems \ {s} : op'[t] = op[t]
  BY OpSet DEF IInv
<1>2. SystemInv(s) /\ item[s].status \in Unfinished
  BY DEF IInv, SystemInv, BusyIsUnfinished
<1>3. PointersExist(s)'
  BY <1>1, <1>2 DEF SystemInv, PointersExist
<1>4. BusyIsUnfinished(s)'
  BY <1>1, <1>2 DEF SystemInv, BusyIsUnfinished
<1>5. StepIsOpen(s)'
  BY <1>1, <1>2 DEF SystemInv, StepIsOpen
<1>6. InfoIsCurrent(s)'
  BY <1>1, <1>2 DEF SystemInv, InfoIsCurrent
<1>7. LaunchesBounded(s)'
  <2> SUFFICES ASSUME NEW m \in Mgrs PROVE /\ launches[s][m] <= restarts + 1
                                           /\ NotYet(s, m)' => launches[s][m] <= restarts
    BY DEF LaunchesBounded
  <2>1. launches[s][m] <= restarts + 1 /\ (NotYet(s, m) => launches[s][m] <= restarts)
    BY <1>2 DEF SystemInv, LaunchesBounded
  <2>2. NotYet(s, m)' => m \in o.todo \/ (o.pc = "setup" /\ o.mgr = m)
    BY <1>1 DEF NotYet
  <2>3. NotYet(s, m)' => NotYet(s, m)
    BY <2>2, <1>2 DEF NotYet, Steps
  <2> QED
    BY <2>1, <2>3
<1>8. FirstRun(s)'
  <2> SUFFICES ASSUME restarts = 0 PROVE FirstRun(s)'
    BY DEF FirstRun
  <2>1. \A i \in 1..Len(rows[s]) : Allowed(s, i)
    BY <1>2 DEF SystemInv, FirstRun
  <2>2. \A i \in 1..Len(rows[s]) : Allowed(s, i)'
    BY <2>1, <1>1 DEF Allowed
  <2>3. ~op[s].resume
    BY <1>2 DEF SystemInv, FirstRun
  <2>4. RowsAgree(s, item[s].status)'
    BY <1>2 DEF RowsAgree, Unfinished
  <2> QED
    BY <2>2, <2>3, <2>4, <1>1 DEF FirstRun
<1>9. OnlyOf(s)
  BY <1>1 DEF OnlyOf
<1> QED
  BY <1>1, <1>3, <1>4, <1>5, <1>6, <1>7, <1>8, <1>9 DEF SystemInv

(* An operation ends with success, or a warning after a reconnection.      *)
LEMMA OperationSucceeds ==
  ASSUME IInv, NEW s \in Systems, op[s].pc \in {"loop", "rechecking"},
         NEW res \in {"success", "warning"}, Done(s, op[s], res), op[s].ok,
         op[s].lost => res = "warning", ~(op[s].first /\ op[s].queued # 0),
         item' = item, rows' = rows, launches' = launches, restarts' = restarts,
         flight' = flight, batch' = batch
  PROVE  op' \in [Systems -> Operation] /\ OnlyOf(s) /\ SystemInv(s)'
<1> DEFINE o == [op[s] EXCEPT !.pc = "finishing", !.result = res]
<1>1. op[s] \in Operation
  BY DEF IInv, TypeOK
<1>2. o \in Operation
  BY <1>1 DEF Operation, PcStates, Final
<1>3. /\ o.pc = "finishing" /\ o.row = op[s].row /\ o.queued = op[s].queued
      /\ o.resume = op[s].resume /\ o.todo = op[s].todo /\ o.result = res
  BY <1>1 DEF Operation
<1>4. SetOp(s, o)
  BY DEF Done
<1> HIDE DEF o
<1>5. op' \in [Systems -> Operation] /\ op'[s] = o /\ \A t \in Systems \ {s} : op'[t] = op[t]
  BY <1>2, <1>4, OpSet DEF IInv
<1>6. SystemInv(s) /\ item[s].status \in Unfinished
  BY DEF IInv, SystemInv, BusyIsUnfinished
<1>7. PointersExist(s)'
  BY <1>3, <1>5, <1>6 DEF SystemInv, PointersExist
<1>8. BusyIsUnfinished(s)'
  BY <1>3, <1>5, <1>6 DEF SystemInv, BusyIsUnfinished, Final
<1>9. StepIsOpen(s)' /\ InfoIsCurrent(s)'
  BY <1>3, <1>5, <1>6 DEF SystemInv, StepIsOpen, InfoIsCurrent, Steps
<1>10. LaunchesBounded(s)'
  BY <1>3, <1>5, <1>6 DEF SystemInv, LaunchesBounded, NotYet
<1>11. FirstRun(s)'
  <2> SUFFICES ASSUME restarts = 0 PROVE FirstRun(s)'
    BY DEF FirstRun
  <2>1. rows[s] \in Seq(Row) /\ op[s].queued \in Nat
    BY <1>1 DEF IInv, TypeOK, Operation
  <2>2. \A i \in 1..Len(rows[s]) : rows[s][i].status \in {"success", res}
    <3> SUFFICES ASSUME NEW i \in 1..Len(rows[s]) PROVE rows[s][i].status \in {"success", res}
      OBVIOUS
    <3>1. Allowed(s, i)
      BY <1>6 DEF SystemInv, FirstRun
    <3>2. i # 0
      BY <2>1, LenProperties
    <3> QED
      BY <3>1, <3>2 DEF Allowed, Steps
  <2>3. ~op[s].resume
    BY <1>6 DEF SystemInv, FirstRun
  <2> QED
    BY <2>2, <2>3, <1>3, <1>5, <1>6 DEF FirstRun, RowsAgree, Unfinished
<1>12. OnlyOf(s)
  BY <1>5 DEF OnlyOf
<1> QED
  BY <1>5, <1>7, <1>8, <1>9, <1>10, <1>11, <1>12 DEF SystemInv

-----------------------------------------------------------------------------
(* The actions of an item. *)

LEMMA BeginKeeps == ASSUME IInv, NEW s \in Systems, Begin(s) PROVE IInv'
<1> DEFINE list == ManagersOf(s)
           todo == IF op[s].resume /\ op[s].mgr \in list THEN {m \in list : m >= op[s].mgr} ELSE list
           o == [op[s] EXCEPT !.todo = todo, !.pc = IF op[s].resume THEN "loop" ELSE "connecting"]
<1>1. op[s] \in Operation /\ list \in SUBSET Mgrs
  BY BatchAssumption DEF IInv, TypeOK, ManagersOf, Mgrs
<1>2. todo \in SUBSET Mgrs
  BY <1>1
<1> HIDE DEF todo
<1>3. o \in Operation
  BY <1>1, <1>2 DEF Operation, PcStates
<1>4. /\ o.pc \in {"loop", "connecting"} /\ o.row = op[s].row /\ o.queued = op[s].queued
      /\ o.first = op[s].first /\ o.resume = op[s].resume /\ o.ok = op[s].ok /\ o.lost = op[s].lost
  BY <1>1 DEF Operation
<1>5. /\ SetOp(s, o) /\ op[s].pc = "waiting" /\ item' = item /\ rows' = rows /\ cached' = cached
      /\ remote' = remote
      /\ launches' = launches /\ restarts' = restarts /\ flight' = flight /\ batch' = batch
  BY DEF Begin, todo, list, database, hosts
<1> HIDE DEF o
<1>6. op' \in [Systems -> Operation] /\ OnlyOf(s) /\ SystemInv(s)'
  BY <1>3, <1>4, <1>5, OperationMoves DEF Steps
<1>7. TypeOK'
  BY <1>5, <1>6 DEF IInv, TypeOK
<1> QED
  BY <1>5, <1>6, <1>7, LocalStep

LEMMA NoManagerKeeps == ASSUME IInv, NEW s \in Systems, NoManager(s) PROVE IInv'
<1> DEFINE row == [mgr |-> 0, status |-> "failed"]
<1>1. row \in Row
  BY BatchAssumption DEF Row, RowStatus, Final
<1>2. /\ op[s].pc = "waiting" /\ item' = item /\ cached' = cached /\ remote' = remote
      /\ launches' = launches /\ restarts' = restarts /\ flight' = flight /\ batch' = batch
      /\ Done(s, op[s], "failed")
      /\ IF op[s].queued # 0 THEN SetRow(s, op[s].queued, row) ELSE rows' = rows
  BY DEF NoManager, hosts
<1>3. op[s].queued \in Nat /\ Len(rows[s]) \in Nat /\ op[s].queued <= Len(rows[s])
  BY LenProperties DEF IInv, TypeOK, Operation, SystemInv, PointersExist
<1> HIDE DEF row
<1>4. /\ rows' \in [Systems -> Seq(Row)] /\ Len(rows'[s]) >= Len(rows[s])
      /\ \A t \in Systems \ {s} : rows'[t] = rows[t]
  <2>1. CASE op[s].queued # 0
    BY <2>1, <1>1, <1>2, <1>3, RowSet DEF IInv
  <2>2. CASE op[s].queued = 0
    BY <2>2, <1>2, <1>3 DEF IInv, TypeOK
  <2> QED
    BY <2>1, <2>2
<1>5. op' \in [Systems -> Operation] /\ OnlyOf(s) /\ SystemInv(s)'
  BY <1>2, <1>4, OperationFails
<1>6. TypeOK'
  BY <1>2, <1>4, <1>5 DEF IInv, TypeOK
<1> QED
  BY <1>2, <1>5, <1>6, LocalStep

(* A failure that logs a row of its own.                                   *)
LEMMA FailureLogged ==
  ASSUME IInv, NEW s \in Systems, op[s].pc # "idle",
         AddRow(s, [mgr |-> 0, status |-> "failed"]), Done(s, op[s], "failed"),
         UNCHANGED <<batch, item, cached, flight, hosts, restarts>>
  PROVE  IInv'
<1>1. [mgr |-> 0, status |-> "failed"] \in Row
  BY BatchAssumption DEF Row, RowStatus, Final
<1>2. /\ item' = item /\ cached' = cached /\ remote' = remote
      /\ launches' = launches /\ restarts' = restarts /\ flight' = flight /\ batch' = batch
  BY DEF hosts
<1>3. Len(rows[s]) \in Nat
  BY LenProperties DEF IInv, TypeOK
<1>4. /\ rows' \in [Systems -> Seq(Row)] /\ Len(rows'[s]) >= Len(rows[s])
      /\ \A t \in Systems \ {s} : rows'[t] = rows[t]
  BY <1>1, <1>3, RowAdded DEF IInv
<1>5. op' \in [Systems -> Operation] /\ OnlyOf(s) /\ SystemInv(s)'
  BY <1>2, <1>4, OperationFails
<1>6. TypeOK'
  BY <1>2, <1>4, <1>5 DEF IInv, TypeOK
<1> QED
  BY <1>5, <1>6, LocalStep

(* An operation ends and nothing else is written.                          *)
LEMMA FailureOnly ==
  ASSUME IInv, NEW s \in Systems, op[s].pc # "idle", NEW res \in {"failed", "cancelled"},
         Done(s, op[s], res), UNCHANGED <<database, flight, hosts, restarts>>
  PROVE  IInv'
<1>1. /\ item' = item /\ cached' = cached /\ remote' = remote /\ rows' = rows
      /\ launches' = launches /\ restarts' = restarts /\ flight' = flight /\ batch' = batch
  BY DEF hosts, database
<1>2. rows' \in [Systems -> Seq(Row)] /\ Len(rows'[s]) >= Len(rows[s])
  BY <1>1, LenProperties DEF IInv, TypeOK
<1>3. op' \in [Systems -> Operation] /\ OnlyOf(s) /\ SystemInv(s)'
  BY <1>1, <1>2, OperationFails
<1>4. TypeOK'
  BY <1>1, <1>3 DEF IInv, TypeOK
<1> QED
  BY <1>3, <1>4, LocalStep

(* An operation moves on and nothing else is written (see OperationMoves). *)
LEMMA MoveOnly ==
  ASSUME IInv, NEW s \in Systems, op[s].pc # "idle", op' \in [Systems -> Operation],
         OnlyOf(s), SystemInv(s)', UNCHANGED <<database, flight, hosts, restarts>>
  PROVE  IInv'
<1>1. TypeOK'
  BY DEF IInv, TypeOK, hosts, database
<1> QED
  BY <1>1, LocalStep

LEMMA ConnectKeeps == ASSUME IInv, NEW s \in Systems, Connect(s) PROVE IInv'
<1> DEFINE o == [op[s] EXCEPT !.pc = "loop", !.conn = TRUE]
<1>1. op[s].pc = "connecting" /\ UNCHANGED <<batch, item, cached, flight, hosts, restarts>>
  BY DEF Connect
<1>2. CASE Done(s, op[s], "failed") /\ AddRow(s, [mgr |-> 0, status |-> "failed"])
  BY <1>1, <1>2, FailureLogged
<1>3. CASE Done(s, op[s], "cancelled") /\ rows' = rows
  BY <1>1, <1>3, FailureOnly DEF database
<1>4. CASE SetOp(s, o) /\ rows' = rows
  <2>1. op[s] \in Operation
    BY DEF IInv, TypeOK
  <2>2. o \in Operation
    BY <2>1 DEF Operation, PcStates
  <2>3. /\ o.pc = "loop" /\ o.row = op[s].row /\ o.queued = op[s].queued /\ o.first = op[s].first
        /\ o.resume = op[s].resume /\ o.ok = op[s].ok /\ o.lost = op[s].lost /\ o.todo = op[s].todo
    BY <2>1 DEF Operation
  <2> HIDE DEF o
  <2>4. op' \in [Systems -> Operation] /\ OnlyOf(s) /\ SystemInv(s)'
    BY <1>1, <1>4, <2>2, <2>3, OperationMoves DEF Steps, hosts
  <2> QED
    BY <1>1, <1>4, <2>4, MoveOnly DEF database
<1> HIDE DEF o
<1>5. \/ Done(s, op[s], "failed") /\ AddRow(s, [mgr |-> 0, status |-> "failed"])
      \/ Done(s, op[s], "cancelled") /\ rows' = rows
      \/ SetOp(s, o) /\ rows' = rows
  BY DEF Connect, o
<1> QED
  BY <1>2, <1>3, <1>4, <1>5

LEMMA CancelKeeps == ASSUME IInv, NEW s \in Systems, Cancel(s) PROVE IInv'
<1> DEFINE o == [op[s] EXCEPT !.asked = TRUE]
<1>1. /\ op[s].pc \notin {"idle", "waiting", "finishing"} /\ SetOp(s, o)
      /\ UNCHANGED <<database, flight, hosts, restarts>>
  BY DEF Cancel
<1>2. op[s] \in Operation
  BY DEF IInv, TypeOK
<1>3. o \in Operation
  BY <1>2 DEF Operation
<1>4. /\ o.pc = op[s].pc /\ o.row = op[s].row /\ o.queued = op[s].queued /\ o.first = op[s].first
      /\ o.resume = op[s].resume /\ o.ok = op[s].ok /\ o.lost = op[s].lost
      /\ o.todo = op[s].todo /\ o.mgr = op[s].mgr
      /\ o.lost <=> op[s].lost
  BY <1>2 DEF Operation
<1> HIDE DEF o
<1>5. /\ item' = item /\ rows' = rows /\ launches' = launches /\ restarts' = restarts
      /\ flight' = flight /\ batch' = batch
  BY <1>1 DEF hosts, database
<1>6. op' \in [Systems -> Operation] /\ OnlyOf(s) /\ SystemInv(s)'
  BY <1>1, <1>3, <1>4, <1>5, OperationMoves DEF Steps
<1> QED
  BY <1>1, <1>6, MoveOnly

LEMMA CancelSeenKeeps == ASSUME IInv, NEW s \in Systems, CancelSeen(s) PROVE IInv'
BY FailureOnly DEF CancelSeen

LEMMA SkipManagerKeeps == ASSUME IInv, NEW s \in Systems, SkipManager(s) PROVE IInv'
<1>1. PICK m \in Mgrs : NextMgr(s, m) /\ SetOp(s, [op[s] EXCEPT !.todo = @ \ {m}])
  BY DEF SkipManager
<1> DEFINE o == [op[s] EXCEPT !.todo = op[s].todo \ {m}]
<1>2. /\ op[s].pc = "loop" /\ SetOp(s, o)
      /\ UNCHANGED <<database, flight, hosts, restarts>>
  BY <1>1 DEF SkipManager
<1>3. op[s] \in Operation
  BY DEF IInv, TypeOK
<1>4. o \in Operation
  BY <1>3 DEF Operation
<1>5. /\ o.pc = op[s].pc /\ o.row = op[s].row /\ o.queued = op[s].queued /\ o.first = op[s].first
      /\ o.resume = op[s].resume /\ o.ok = op[s].ok /\ o.lost = op[s].lost
      /\ o.todo \subseteq op[s].todo
  BY <1>3 DEF Operation
<1> HIDE DEF o
<1>6. op' \in [Systems -> Operation] /\ OnlyOf(s) /\ SystemInv(s)'
  BY <1>2, <1>4, <1>5, OperationMoves DEF hosts, database, Steps
<1> QED
  BY <1>2, <1>6, MoveOnly

LEMMA NeedConnectionKeeps == ASSUME IInv, NEW s \in Systems, NeedConnection(s) PROVE IInv'
<1> DEFINE o == [op[s] EXCEPT !.pc = "connecting"]
<1>1. op[s].pc = "loop" /\ SetOp(s, o) /\ UNCHANGED <<database, flight, hosts, restarts>>
  BY DEF NeedConnection
<1>2. op[s] \in Operation
  BY DEF IInv, TypeOK
<1>3. o \in Operation
  BY <1>2 DEF Operation, PcStates
<1>4. /\ o.pc = "connecting" /\ o.row = op[s].row /\ o.queued = op[s].queued
      /\ o.first = op[s].first /\ o.resume = op[s].resume /\ o.ok = op[s].ok
      /\ o.lost = op[s].lost /\ o.todo = op[s].todo
  BY <1>2 DEF Operation
<1> HIDE DEF o
<1>5. op' \in [Systems -> Operation] /\ OnlyOf(s) /\ SystemInv(s)'
  BY <1>1, <1>3, <1>4, OperationMoves DEF hosts, database, Steps
<1> QED
  BY <1>1, <1>5, MoveOnly

LEMMA TailLostKeeps == ASSUME IInv, NEW s \in Systems, TailLost(s) PROVE IInv'
<1> DEFINE o == [op[s] EXCEPT !.pc = "reconnecting", !.conn = FALSE, !.lost = TRUE]
<1>1. op[s].pc = "tailing" /\ SetOp(s, o) /\ UNCHANGED <<database, flight, hosts, restarts>>
  BY DEF TailLost
<1>2. op[s] \in Operation
  BY DEF IInv, TypeOK
<1>3. o \in Operation
  BY <1>2 DEF Operation, PcStates
<1>4. /\ o.pc = "reconnecting" /\ o.row = op[s].row /\ o.queued = op[s].queued
      /\ o.first = op[s].first /\ o.resume = op[s].resume /\ o.ok = op[s].ok
      /\ o.lost /\ o.todo = op[s].todo /\ o.mgr = op[s].mgr
  BY <1>2 DEF Operation
<1> HIDE DEF o
<1>5. op' \in [Systems -> Operation] /\ OnlyOf(s) /\ SystemInv(s)'
  BY <1>1, <1>3, <1>4, OperationMoves DEF hosts, database, Steps
<1> QED
  BY <1>1, <1>5, MoveOnly

LEMMA StepThrowsKeeps == ASSUME IInv, NEW s \in Systems, StepThrows(s) PROVE IInv'
BY FailureLogged DEF StepThrows

(* The next five actions end a step.                                       *)
LEMMA StepEndsKeeps ==
  ASSUME IInv, NEW s \in Systems, op[s].pc \in Steps,
         NEW status \in {"success", "warning", "failed"}, status = "warning" => op[s].lost,
         EndStep(s, status), UNCHANGED <<batch, item, flight, launches, restarts>>,
         cached' \in [Systems -> SUBSET Mgrs], remote' \in [Systems -> [Mgrs -> Process]]
  PROVE  IInv'
<1>1. /\ op' \in [Systems -> Operation] /\ rows' \in [Systems -> Seq(Row)]
      /\ OnlyOf(s) /\ SystemInv(s)'
  BY StepEnds
<1>2. TypeOK'
  BY <1>1 DEF IInv, TypeOK
<1> QED
  BY <1>1, <1>2, LocalStep DEF Steps

LEMMA RemoteSet ==
  ASSUME IInv, NEW s \in Systems, NEW state \in Process, SetRemote(s, state)
  PROVE  remote' \in [Systems -> [Mgrs -> Process]]
BY DEF SetRemote, IInv, TypeOK

LEMMA FilesRemovedKeepsTypes ==
  ASSUME IInv, NEW s \in Systems, op[s].mgr \in Mgrs, FilesRemoved(s)
  PROVE  remote' \in [Systems -> [Mgrs -> Process]]
<1> DEFINE now == remote[s][op[s].mgr]
           p == IF now \in {"ok", "failed"} THEN "read" ELSE now
<1>1. p \in Process
  BY DEF IInv, TypeOK, Process
<1>2. remote' = [remote EXCEPT ![s] = [remote[s] EXCEPT ![op[s].mgr] = p]]
  BY DEF FilesRemoved
<1> HIDE DEF p
<1> QED
  BY <1>1, <1>2 DEF IInv, TypeOK

LEMMA SetupFailsKeeps == ASSUME IInv, NEW s \in Systems, SetupFails(s) PROVE IInv'
<1>1. /\ op[s].pc \in Steps /\ EndStep(s, "failed")
      /\ UNCHANGED <<batch, item, flight, launches, restarts>> /\ cached' = cached /\ remote' = remote
  BY DEF SetupFails, Steps, hosts
<1>2. cached' \in [Systems -> SUBSET Mgrs] /\ remote' \in [Systems -> [Mgrs -> Process]]
  BY <1>1 DEF IInv, TypeOK
<1> QED
  BY <1>1, <1>2, StepEndsKeeps

LEMMA ReconnectFailsKeeps == ASSUME IInv, NEW s \in Systems, ReconnectFails(s) PROVE IInv'
<1>1. /\ op[s].pc \in Steps /\ EndStep(s, "failed")
      /\ UNCHANGED <<batch, item, flight, launches, restarts>> /\ cached' = cached /\ remote' = remote
  BY DEF ReconnectFails, Steps, hosts
<1>2. cached' \in [Systems -> SUBSET Mgrs] /\ remote' \in [Systems -> [Mgrs -> Process]]
  BY <1>1 DEF IInv, TypeOK
<1> QED
  BY <1>1, <1>2, StepEndsKeeps

LEMMA TailEndsKeeps == ASSUME IInv, NEW s \in Systems, TailEnds(s) PROVE IInv'
<1>1. /\ op[s].pc \in Steps /\ FilesRemoved(s)
      /\ UNCHANGED <<batch, item, flight, launches, restarts>> /\ cached' = cached
      /\ EndStep(s, "success") \/ EndStep(s, "failed")
  BY DEF TailEnds, Steps
<1>2. op[s].mgr \in Mgrs
  BY <1>1 DEF IInv, SystemInv, StepIsOpen
<1>3. cached' \in [Systems -> SUBSET Mgrs] /\ remote' \in [Systems -> [Mgrs -> Process]]
  BY <1>1, <1>2, FilesRemovedKeepsTypes DEF IInv, TypeOK
<1>4. CASE EndStep(s, "success")
  BY <1>1, <1>3, <1>4, StepEndsKeeps
<1>5. CASE EndStep(s, "failed")
  BY <1>1, <1>3, <1>5, StepEndsKeeps
<1> QED
  BY <1>1, <1>4, <1>5

LEMMA ReconnectReadsKeeps == ASSUME IInv, NEW s \in Systems, ReconnectReads(s) PROVE IInv'
<1> DEFINE status == IF remote[s][op[s].mgr] = "failed" THEN "failed"
                     ELSE IF op[s].lost THEN "warning" ELSE "success"
<1>1. /\ op[s].pc \in Steps /\ FilesRemoved(s) /\ EndStep(s, status)
      /\ UNCHANGED <<batch, item, flight, launches, restarts>> /\ cached' = cached
  BY DEF ReconnectReads, Steps
<1>2. op[s].mgr \in Mgrs
  BY <1>1 DEF IInv, SystemInv, StepIsOpen
<1>3. cached' \in [Systems -> SUBSET Mgrs] /\ remote' \in [Systems -> [Mgrs -> Process]]
  BY <1>1, <1>2, FilesRemovedKeepsTypes DEF IInv, TypeOK
<1>4. status \in {"success", "warning", "failed"} /\ (status = "warning" => op[s].lost)
  OBVIOUS
<1> HIDE DEF status
<1> QED
  BY <1>1, <1>3, <1>4, StepEndsKeeps

LEMMA ReconnectInfersKeeps == ASSUME IInv, NEW s \in Systems, ReconnectInfers(s) PROVE IInv'
<1>1. PICK left \in SUBSET Mgrs : cached' = [cached EXCEPT ![s] = left]
  BY DEF ReconnectInfers
<1>2. PICK guess \in {IF op[s].lost THEN "warning" ELSE "success", "failed"} : EndStep(s, guess)
  BY DEF ReconnectInfers
<1>3. op[s].pc \in Steps /\ UNCHANGED <<batch, item, flight, launches, restarts>> /\ remote' = remote
  BY DEF ReconnectInfers, Steps, hosts
<1>4. cached' \in [Systems -> SUBSET Mgrs] /\ remote' \in [Systems -> [Mgrs -> Process]]
  BY <1>1, <1>3 DEF IInv, TypeOK
<1>5. guess \in {"success", "warning", "failed"} /\ (guess = "warning" => op[s].lost)
  BY <1>2
<1> QED
  BY <1>2, <1>3, <1>4, <1>5, StepEndsKeeps

LEMMA StepCancelledKeeps == ASSUME IInv, NEW s \in Systems, StepCancelled(s) PROVE IInv'
<1> DEFINE row == [mgr |-> op[s].mgr, status |-> "cancelled"]
<1>1. /\ op[s].pc \in Steps /\ op[s].pc # "idle" /\ SetRow(s, op[s].row, row)
      /\ Done(s, op[s], "cancelled") /\ UNCHANGED <<batch, item, cached, flight, launches, restarts>>
      /\ remote' = remote \/ SetRemote(s, "killed")
  BY DEF StepCancelled, EndInStep, Steps
<1>2. op[s].mgr \in Mgrs /\ op[s].row \in 1..Len(rows[s])
  BY <1>1 DEF IInv, SystemInv, StepIsOpen
<1>3. row \in Row
  BY <1>2 DEF Row, RowStatus, Final, Mgrs
<1> HIDE DEF row
<1>4. /\ rows' \in [Systems -> Seq(Row)] /\ Len(rows'[s]) = Len(rows[s]) /\ Len(rows[s]) \in Nat
      /\ \A t \in Systems \ {s} : rows'[t] = rows[t]
  BY <1>1, <1>2, <1>3, RowSet, LenProperties DEF IInv, TypeOK
<1>5. op' \in [Systems -> Operation] /\ OnlyOf(s) /\ SystemInv(s)'
  BY <1>1, <1>4, OperationFails
<1>6. remote' \in [Systems -> [Mgrs -> Process]]
  <2>1. "killed" \in Process
    BY DEF Process
  <2> QED
    BY <1>1, <2>1, RemoteSet DEF IInv, TypeOK
<1>7. TypeOK'
  BY <1>1, <1>4, <1>5, <1>6 DEF IInv, TypeOK
<1> QED
  BY <1>1, <1>5, <1>7, LocalStep

LEMMA EndLoopKeeps == ASSUME IInv, NEW s \in Systems, EndLoop(s) PROVE IInv'
<1> DEFINE row == [mgr |-> 0, status |-> "failed"]
<1>1. op[s].pc = "loop" /\ UNCHANGED <<batch, item, cached, flight, hosts, restarts>>
  BY DEF EndLoop
<1>2. CASE op[s].first /\ op[s].queued # 0 /\ SetRow(s, op[s].queued, row) /\ Done(s, op[s], "failed")
  <2>1. row \in Row
    BY BatchAssumption DEF Row, RowStatus, Final
  <2>2. op[s].queued \in Nat /\ Len(rows[s]) \in Nat /\ op[s].queued <= Len(rows[s])
    BY LenProperties DEF IInv, TypeOK, Operation, SystemInv, PointersExist
  <2> HIDE DEF row
  <2>3. /\ rows' \in [Systems -> Seq(Row)] /\ Len(rows'[s]) >= Len(rows[s])
        /\ \A t \in Systems \ {s} : rows'[t] = rows[t]
    BY <1>2, <2>1, <2>2, RowSet DEF IInv
  <2>4. op' \in [Systems -> Operation] /\ OnlyOf(s) /\ SystemInv(s)'
    BY <1>1, <1>2, <2>3, OperationFails DEF hosts
  <2>5. TypeOK'
    BY <1>1, <2>3, <2>4 DEF IInv, TypeOK, hosts
  <2> QED
    BY <1>1, <2>4, <2>5, LocalStep
<1>3. ASSUME ~(op[s].first /\ op[s].queued # 0), rows' = rows,
             IF op[s].lost THEN Done(s, op[s], IF op[s].ok THEN "warning" ELSE "failed")
                           ELSE SetOp(s, [op[s] EXCEPT !.pc = "rechecking"])
      PROVE  IInv'
  <2>1. CASE op[s].lost /\ ~op[s].ok
    BY <1>1, <1>3, <2>1, FailureOnly DEF database
  <2>2. CASE op[s].lost /\ op[s].ok
    <3>1. Done(s, op[s], "warning")
      BY <1>3, <2>2
    <3>2. op' \in [Systems -> Operation] /\ OnlyOf(s) /\ SystemInv(s)'
      BY <1>1, <1>3, <2>2, <3>1, OperationSucceeds DEF hosts
    <3> QED
      BY <1>1, <1>3, <3>2, MoveOnly DEF database
  <2>3. CASE ~op[s].lost
    <3> DEFINE o == [op[s] EXCEPT !.pc = "rechecking"]
    <3>1. op[s] \in Operation
      BY DEF IInv, TypeOK
    <3>2. o \in Operation
      BY <3>1 DEF Operation, PcStates
    <3>3. /\ o.pc = "rechecking" /\ o.row = op[s].row /\ o.queued = op[s].queued
          /\ o.first = op[s].first /\ o.resume = op[s].resume /\ o.ok = op[s].ok
          /\ o.lost = op[s].lost /\ o.todo = op[s].todo
      BY <3>1 DEF Operation
    <3>4. SetOp(s, o)
      BY <1>3, <2>3
    <3> HIDE DEF o
    <3>5. op' \in [Systems -> Operation] /\ OnlyOf(s) /\ SystemInv(s)'
      BY <1>1, <1>3, <2>3, <3>2, <3>3, <3>4, OperationMoves DEF hosts, Steps
    <3> QED
      BY <1>1, <1>3, <3>5, MoveOnly DEF database
  <2> QED
    BY <2>1, <2>2, <2>3
<1>4. \/ op[s].first /\ op[s].queued # 0 /\ SetRow(s, op[s].queued, row) /\ Done(s, op[s], "failed")
      \/ /\ ~(op[s].first /\ op[s].queued # 0) /\ rows' = rows
         /\ IF op[s].lost THEN Done(s, op[s], IF op[s].ok THEN "warning" ELSE "failed")
                          ELSE SetOp(s, [op[s] EXCEPT !.pc = "rechecking"])
  BY DEF EndLoop
<1> QED
  BY <1>2, <1>3, <1>4

LEMMA RecheckedKeeps == ASSUME IInv, NEW s \in Systems, Rechecked(s) PROVE IInv'
<1>1. op[s].pc = "rechecking" /\ UNCHANGED <<batch, item, rows, flight, hosts, restarts>>
  BY DEF Rechecked
<1>2. CASE Done(s, op[s], "cancelled") /\ cached' = cached
  BY <1>1, <1>2, FailureOnly DEF database
<1>3. ASSUME NEW left \in SUBSET Mgrs, cached' = [cached EXCEPT ![s] = left],
             Done(s, op[s], IF op[s].ok THEN "success" ELSE "failed")
      PROVE  IInv'
  <2>1. op' \in [Systems -> Operation] /\ OnlyOf(s) /\ SystemInv(s)'
    <3>1. /\ item' = item /\ rows' = rows /\ launches' = launches /\ restarts' = restarts
          /\ flight' = flight /\ batch' = batch
      BY <1>1 DEF hosts
    <3>2. CASE op[s].ok
      <4>1. ~op[s].lost /\ ~(op[s].first /\ op[s].queued # 0)
        BY <1>1 DEF IInv, SystemInv, BusyIsUnfinished
      <4>2. Done(s, op[s], "success")
        BY <1>3, <3>2
      <4> QED
        BY <1>1, <3>1, <3>2, <4>1, <4>2, OperationSucceeds
    <3>3. CASE ~op[s].ok
      <4>1. rows' \in [Systems -> Seq(Row)] /\ Len(rows'[s]) >= Len(rows[s])
        BY <3>1, LenProperties DEF IInv, TypeOK
      <4>2. Done(s, op[s], "failed")
        BY <1>3, <3>3
      <4> QED
        BY <1>1, <3>1, <4>1, <4>2, OperationFails
    <3> QED
      BY <3>2, <3>3
  <2>2. TypeOK'
    BY <1>1, <1>3, <2>1 DEF IInv, TypeOK, hosts
  <2> QED
    BY <1>1, <2>1, <2>2, LocalStep
<1> QED
  BY <1>2, <1>3 DEF Rechecked

(* A step gets a row, and the item names both: the only action that makes  *)
(* a row "started" and that takes a manager off the list to launch it.     *)
LEMMA StartStepKeeps == ASSUME IInv, NEW s \in Systems, StartStep(s) PROVE IInv'
<1> DEFINE row(m) == IF StepRow(s, m) # 0 THEN StepRow(s, m) ELSE Len(rows[s]) + 1
<1>1. PICK m \in Mgrs :
        /\ NextMgr(s, m)
        /\ IF StepRow(s, m) # 0 THEN SetRow(s, row(m), [mgr |-> m, status |-> "started"])
                                ELSE AddRow(s, [mgr |-> m, status |-> "started"])
        /\ StepStarted(s, m, row(m)) /\ InStep(s, m, row(m))
  BY DEF StartStep
<1>2. /\ op[s].pc = "loop" /\ op[s].pc # "idle" /\ batch' = batch /\ cached' = cached
      /\ flight' = flight /\ remote' = remote /\ launches' = launches /\ restarts' = restarts
  BY DEF StartStep, hosts
<1> DEFINE started == [mgr |-> m, status |-> "started"]
           r == row(m)
           pc == IF Resumes(s, m) THEN "reconnecting" ELSE "setup"
           o == [op[s] EXCEPT !.pc = pc, !.mgr = m, !.row = r, !.first = FALSE, !.todo = op[s].todo \ {m}]
           it == [status |-> "running", mgr |-> m, hist |-> r, info |-> None]
<1>3. op[s] \in Operation /\ item[s] \in Item /\ m \in op[s].todo
  BY <1>1 DEF IInv, TypeOK, NextMgr
<1>4. /\ Len(rows[s]) \in Nat /\ StepRow(s, m) \in Nat /\ StepRow(s, m) <= Len(rows[s])
      /\ op[s].queued \in Nat
  BY <1>3, LenProperties DEF IInv, TypeOK, Operation, SystemInv, PointersExist, StepRow
<1>5. r \in Nat \ {0}
  BY <1>4
<1>6. started \in Row /\ started.status = "started"
  BY DEF Row, RowStatus, Mgrs
<1>7. /\ rows' \in [Systems -> Seq(Row)] /\ \A t \in Systems \ {s} : rows'[t] = rows[t]
      /\ Len(rows'[s]) >= Len(rows[s]) /\ Len(rows'[s]) \in Nat
      /\ r \in 1..Len(rows'[s]) /\ rows'[s][r] = started
      /\ \A i \in 1..Len(rows'[s]) : i # r => i \in 1..Len(rows[s]) /\ rows'[s][i] = rows[s][i]
  <2> HIDE DEF started
  <2>1. CASE StepRow(s, m) # 0
    <3>1. r = StepRow(s, m) /\ SetRow(s, r, started) /\ r \in 1..Len(rows[s])
      BY <1>1, <1>4, <2>1 DEF started
    <3> HIDE DEF r
    <3> QED
      BY <1>4, <1>6, <3>1, RowSet DEF IInv
  <2>2. CASE StepRow(s, m) = 0
    <3>1. r = Len(rows[s]) + 1 /\ AddRow(s, started)
      BY <1>1, <2>2 DEF started
    <3> HIDE DEF r
    <3> QED
      BY <1>4, <1>6, <3>1, RowAdded DEF IInv
  <2> QED
    BY <2>1, <2>2
<1>8. r = IF StepRow(s, m) # 0 THEN StepRow(s, m) ELSE Len(rows[s]) + 1
  OBVIOUS
<1>9. StepStarted(s, m, r) /\ SetOp(s, o)
  BY <1>1 DEF InStep
<1> HIDE DEF r, row
<1>10. pc \in {"setup", "reconnecting"} /\ m \in 0..Managers
  BY DEF Mgrs
<1> HIDE DEF pc
<1>11. o \in Operation
  BY <1>3, <1>5, <1>10 DEF Operation, PcStates
<1>12. /\ o.pc \in {"setup", "reconnecting"} /\ o.mgr = m /\ o.row = r /\ o.queued = op[s].queued
       /\ ~o.first /\ o.todo = op[s].todo \ {m} /\ o.resume = op[s].resume
       /\ o.ok = op[s].ok /\ o.lost = op[s].lost
  BY <1>3, <1>10 DEF Operation
<1>13. it \in Item /\ it.status = "running" /\ it.mgr = m /\ it.hist = r /\ it.info = None
  BY <1>5 DEF Item, Mgrs, Unfinished
<1>14. item' = [item EXCEPT ![s] = it]
  BY <1>9 DEF StepStarted
<1> HIDE DEF o, it
<1>15. op' \in [Systems -> Operation] /\ op'[s] = o /\ \A t \in Systems \ {s} : op'[t] = op[t]
  BY <1>9, <1>11, OpSet DEF IInv
<1>16. item' \in [Systems -> Item] /\ item'[s] = it /\ \A t \in Systems \ {s} : item'[t] = item[t]
  BY <1>13, <1>14 DEF IInv, TypeOK
<1>17. SystemInv(s)
  BY DEF IInv
<1>18. PointersExist(s)'
  <2>1. op[s].queued <= Len(rows'[s])
    BY <1>4, <1>7, <1>17 DEF SystemInv, PointersExist
  <2> QED
    BY <2>1, <1>7, <1>12, <1>13, <1>15, <1>16 DEF PointersExist
<1>19. BusyIsUnfinished(s)'
  BY <1>2, <1>12, <1>13, <1>15, <1>16, <1>17 DEF SystemInv, BusyIsUnfinished, Unfinished
<1>20. StepIsOpen(s)'
  BY <1>1, <1>7, <1>12, <1>13, <1>15, <1>16 DEF StepIsOpen
<1>21. InfoIsCurrent(s)'
  BY <1>13, <1>16 DEF InfoIsCurrent
<1>22. LaunchesBounded(s)'
  BY <1>2, <1>3, <1>12, <1>15, <1>17 DEF SystemInv, LaunchesBounded, NotYet
<1>23. FirstRun(s)'
  <2> SUFFICES ASSUME restarts = 0 PROVE FirstRun(s)'
    BY <1>2 DEF FirstRun
  <2>1. ~op[s].resume /\ \A i \in 1..Len(rows[s]) : Allowed(s, i)
    BY <1>2, <1>17 DEF SystemInv, FirstRun
  <2>2. op[s].first /\ op[s].queued # 0 => r = op[s].queued
    BY <2>1, <1>8 DEF StepRow, Resumes
  <2>3. ASSUME NEW i \in 1..Len(rows'[s]) PROVE Allowed(s, i)'
    <3>1. CASE i = r
      BY <3>1, <1>6, <1>7, <1>12, <1>15 DEF Allowed, Steps
    <3>2. CASE i # r
      <4>1. i \in 1..Len(rows[s]) /\ rows'[s][i] = rows[s][i]
        BY <3>2, <1>7
      <4>2. Allowed(s, i) /\ i # 0
        BY <2>1, <4>1, <1>4
      <4> QED
        BY <2>2, <3>2, <4>1, <4>2, <1>2, <1>12, <1>15 DEF Allowed, Steps
    <3> QED
      BY <3>1, <3>2
  <2>4. RowsAgree(s, item[s].status)'
    BY <1>13, <1>16 DEF RowsAgree
  <2> QED
    BY <2>1, <2>3, <2>4, <1>12, <1>15 DEF FirstRun
<1>24. OnlyOf(s)
  BY <1>2, <1>7, <1>15, <1>16 DEF OnlyOf
<1>25. TypeOK'
  BY <1>2, <1>7, <1>15, <1>16 DEF IInv, TypeOK
<1> QED
  BY <1>2, <1>18, <1>19, <1>20, <1>21, <1>22, <1>23, <1>24, <1>25, LocalStep DEF SystemInv

(* The one action that launches: the manager is off the list, so that it   *)
(* is not launched again by this run of the dashboard.                     *)
LEMMA LaunchKeeps == ASSUME IInv, NEW s \in Systems, Launch(s) PROVE IInv'
<1> DEFINE o == [op[s] EXCEPT !.pc = "launched"]
           m == op[s].mgr
<1>1. /\ op[s].pc = "setup" /\ op[s].pc # "idle" /\ SetRemote(s, "running") /\ SetOp(s, o)
      /\ launches' = [launches EXCEPT ![s][m] = @ + 1]
      /\ item' = item /\ rows' = rows /\ cached' = cached /\ flight' = flight /\ batch' = batch
      /\ restarts' = restarts
  BY DEF Launch, database
<1>2. op[s] \in Operation
  BY DEF IInv, TypeOK
<1>3. o \in Operation
  BY <1>2 DEF Operation, PcStates
<1>4. /\ o.pc = "launched" /\ o.row = op[s].row /\ o.queued = op[s].queued /\ o.first = op[s].first
      /\ o.resume = op[s].resume /\ o.ok = op[s].ok /\ o.lost = op[s].lost
      /\ o.todo = op[s].todo /\ o.mgr = m
  BY <1>2 DEF Operation
<1> HIDE DEF o
<1>5. op' \in [Systems -> Operation] /\ op'[s] = o /\ \A t \in Systems \ {s} : op'[t] = op[t]
  BY <1>1, <1>3, OpSet DEF IInv
<1>6. SystemInv(s) /\ m \in Mgrs \ op[s].todo
  BY <1>1 DEF IInv, SystemInv, StepIsOpen, Steps
<1>7. /\ launches' \in [Systems -> [Mgrs -> Nat]]
      /\ \A t \in Systems \ {s} : launches'[t] = launches[t]
      /\ launches'[s][m] = launches[s][m] + 1
      /\ \A n \in Mgrs \ {m} : launches'[s][n] = launches[s][n]
  BY <1>1, <1>6 DEF IInv, TypeOK
<1>8. PointersExist(s)' /\ BusyIsUnfinished(s)'
  BY <1>1, <1>4, <1>5, <1>6 DEF SystemInv, PointersExist, BusyIsUnfinished
<1>9. StepIsOpen(s)'
  BY <1>1, <1>4, <1>5, <1>6 DEF SystemInv, StepIsOpen, Steps
<1>10. InfoIsCurrent(s)'
  BY <1>1, <1>4, <1>5, <1>6 DEF SystemInv, InfoIsCurrent
<1>11. LaunchesBounded(s)'
  <2> SUFFICES ASSUME NEW n \in Mgrs
               PROVE  /\ launches'[s][n] <= restarts + 1
                      /\ NotYet(s, n)' => launches'[s][n] <= restarts
    BY <1>1 DEF LaunchesBounded
  <2>1. launches[s][n] <= restarts + 1 /\ (NotYet(s, n) => launches[s][n] <= restarts)
    BY <1>6 DEF SystemInv, LaunchesBounded
  <2>2. NotYet(s, n)' => n \in op[s].todo
    BY <1>4, <1>5 DEF NotYet
  <2>3. CASE n = m
    BY <2>1, <2>2, <2>3, <1>1, <1>6, <1>7 DEF NotYet, IInv, TypeOK
  <2>4. CASE n # m
    BY <2>1, <2>2, <2>4, <1>7 DEF NotYet
  <2> QED
    BY <2>3, <2>4
<1>12. FirstRun(s)'
  <2> SUFFICES ASSUME restarts = 0 PROVE FirstRun(s)'
    BY <1>1 DEF FirstRun
  <2>1. ~op[s].resume /\ \A i \in 1..Len(rows[s]) : Allowed(s, i)
    BY <1>1, <1>6 DEF SystemInv, FirstRun
  <2>2. \A i \in 1..Len(rows[s]) : Allowed(s, i)'
    BY <2>1, <1>1, <1>4, <1>5 DEF Allowed, Steps
  <2>3. RowsAgree(s, item[s].status)'
    BY <1>1, <1>6 DEF SystemInv, StepIsOpen, RowsAgree, Steps
  <2> QED
    BY <2>1, <2>2, <2>3, <1>1, <1>4, <1>5 DEF FirstRun
<1>13. OnlyOf(s)
  BY <1>1, <1>5, <1>7 DEF OnlyOf
<1>14. TypeOK'
  <2>1. remote' \in [Systems -> [Mgrs -> Process]]
    <3>1. "running" \in Process
      BY DEF Process
    <3> QED
      BY <1>1, <3>1, RemoteSet
  <2> QED
    BY <1>1, <1>5, <1>7, <2>1 DEF IInv, TypeOK
<1> QED
  BY <1>1, <1>8, <1>9, <1>10, <1>11, <1>12, <1>13, <1>14, LocalStep DEF SystemInv

(* What the answer of the setup stores is of the last launch.              *)
LEMMA SetupAnswersKeeps == ASSUME IInv, NEW s \in Systems, SetupAnswers(s) PROVE IInv'
<1> DEFINE o == [op[s] EXCEPT !.pc = "tailing"]
           info == [mgr |-> op[s].mgr, n |-> launches[s][op[s].mgr]]
           it == [item[s] EXCEPT !.info = info]
<1>1. /\ op[s].pc = "launched" /\ op[s].pc # "idle" /\ SetOp(s, o)
      /\ item' = [item EXCEPT ![s] = it]
      /\ rows' = rows /\ cached' = cached /\ flight' = flight /\ batch' = batch
      /\ launches' = launches /\ remote' = remote /\ restarts' = restarts
  BY DEF SetupAnswers, hosts
<1>2. op[s] \in Operation /\ item[s] \in Item
  BY DEF IInv, TypeOK
<1>3. SystemInv(s) /\ op[s].mgr \in Mgrs /\ item[s].mgr = op[s].mgr
  BY <1>1 DEF IInv, SystemInv, StepIsOpen, Steps
<1>4. info \in [mgr : Mgrs, n : Nat]
  BY <1>3 DEF IInv, TypeOK
<1>5. o \in Operation
  BY <1>2 DEF Operation, PcStates
<1>6. /\ o.pc = "tailing" /\ o.row = op[s].row /\ o.queued = op[s].queued /\ o.first = op[s].first
      /\ o.resume = op[s].resume /\ o.ok = op[s].ok /\ o.lost = op[s].lost
      /\ o.todo = op[s].todo /\ o.mgr = op[s].mgr
  BY <1>2 DEF Operation
<1> HIDE DEF o
<1>7. /\ it \in Item /\ it.status = item[s].status /\ it.mgr = item[s].mgr
      /\ it.hist = item[s].hist /\ it.info = info
  <2> HIDE DEF info
  <2> QED
    BY <1>2, <1>4 DEF Item
<1> HIDE DEF it
<1>8. op' \in [Systems -> Operation] /\ op'[s] = o /\ \A t \in Systems \ {s} : op'[t] = op[t]
  BY <1>1, <1>5, OpSet DEF IInv
<1>9. item' \in [Systems -> Item] /\ item'[s] = it /\ \A t \in Systems \ {s} : item'[t] = item[t]
  BY <1>1, <1>7 DEF IInv, TypeOK
<1>10. PointersExist(s)' /\ BusyIsUnfinished(s)'
  BY <1>1, <1>3, <1>6, <1>7, <1>8, <1>9 DEF SystemInv, PointersExist, BusyIsUnfinished
<1>11. StepIsOpen(s)'
  BY <1>1, <1>3, <1>6, <1>7, <1>8, <1>9 DEF SystemInv, StepIsOpen, Steps
<1>12. InfoIsCurrent(s)'
  BY <1>1, <1>3, <1>6, <1>7, <1>8, <1>9 DEF InfoIsCurrent
<1>13. LaunchesBounded(s)'
  BY <1>1, <1>3, <1>6, <1>8, <1>9 DEF SystemInv, LaunchesBounded, NotYet
<1>14. FirstRun(s)'
  <2> SUFFICES ASSUME restarts = 0 PROVE FirstRun(s)'
    BY <1>1 DEF FirstRun
  <2>1. ~op[s].resume /\ \A i \in 1..Len(rows[s]) : Allowed(s, i)
    BY <1>1, <1>3 DEF SystemInv, FirstRun
  <2>2. \A i \in 1..Len(rows[s]) : Allowed(s, i)'
    BY <2>1, <1>1, <1>6, <1>8 DEF Allowed, Steps
  <2>3. RowsAgree(s, item[s].status)'
    BY <1>1, <1>3, <1>7, <1>9 DEF SystemInv, StepIsOpen, RowsAgree, Steps
  <2> QED
    BY <2>1, <2>2, <2>3, <1>1, <1>6, <1>8 DEF FirstRun
<1>15. OnlyOf(s)
  BY <1>1, <1>8, <1>9 DEF OnlyOf
<1>16. TypeOK'
  BY <1>1, <1>8, <1>9 DEF IInv, TypeOK
<1> QED
  BY <1>1, <1>10, <1>11, <1>12, <1>13, <1>14, <1>15, <1>16, LocalStep DEF SystemInv

LEMMA IdleTyped ==
  /\ Idle \in Operation /\ Idle.pc = "idle" /\ Idle.row = 0 /\ Idle.queued = 0
  /\ Idle.todo = {} /\ ~Idle.resume
BY BatchAssumption DEF Idle, Operation, PcStates

(* The result the operation left becomes the status of the item.           *)
LEMMA ItemEndsKeeps == ASSUME IInv, NEW s \in Systems, ItemEnds(s) PROVE IInv'
<1> DEFINE it == [item[s] EXCEPT !.status = op[s].result]
<1>1. /\ op[s].pc = "finishing" /\ op[s].pc # "idle" /\ SetOp(s, Idle)
      /\ item' = [item EXCEPT ![s] = it] /\ flight' = flight \ {s}
      /\ rows' = rows /\ cached' = cached /\ batch' = batch
      /\ launches' = launches /\ remote' = remote /\ restarts' = restarts
  BY DEF ItemEnds, hosts
<1>2. SystemInv(s) /\ op[s].result \in Final /\ item[s] \in Item
  BY <1>1 DEF IInv, SystemInv, BusyIsUnfinished, TypeOK
<1>3. /\ it \in Item /\ it.status = op[s].result /\ it.mgr = item[s].mgr
      /\ it.hist = item[s].hist /\ it.info = item[s].info
  BY <1>2 DEF Item
<1> HIDE DEF it
<1>4. op' \in [Systems -> Operation] /\ op'[s] = Idle /\ \A t \in Systems \ {s} : op'[t] = op[t]
  BY <1>1, IdleTyped, OpSet DEF IInv
<1>5. item' \in [Systems -> Item] /\ item'[s] = it /\ \A t \in Systems \ {s} : item'[t] = item[t]
  BY <1>1, <1>3 DEF IInv, TypeOK
<1>6. op[s].result \notin Unfinished
  BY <1>2 DEF Final, Unfinished
<1>7. Len(rows[s]) \in Nat
  BY LenProperties DEF IInv, TypeOK
<1>8. PointersExist(s)' /\ BusyIsUnfinished(s)'
  BY <1>1, <1>2, <1>3, <1>4, <1>5, <1>7, IdleTyped DEF SystemInv, PointersExist, BusyIsUnfinished
<1>9. StepIsOpen(s)' /\ InfoIsCurrent(s)'
  BY <1>1, <1>2, <1>3, <1>4, <1>5, IdleTyped DEF SystemInv, StepIsOpen, InfoIsCurrent, Steps
<1>10. LaunchesBounded(s)'
  BY <1>1, <1>2, <1>3, <1>4, <1>5, <1>6, IdleTyped DEF SystemInv, LaunchesBounded, NotYet
<1>11. FirstRun(s)'
  BY <1>1, <1>2, <1>3, <1>4, <1>5, <1>6, IdleTyped DEF SystemInv, FirstRun, RowsAgree
<1>12. OnlyOf(s)
  BY <1>1, <1>4, <1>5 DEF OnlyOf
<1>13. TypeOK'
  BY <1>1, <1>4, <1>5 DEF IInv, TypeOK
<1> QED
  BY <1>1, <1>8, <1>9, <1>10, <1>11, <1>12, <1>13, LocalStep DEF SystemInv

-----------------------------------------------------------------------------
(* The batch, the hosts and the restarts. *)

(* Nothing is in flight when a batch is created.                           *)
LEMMA BeforeCreation ==
  ASSUME IInv, batch = None, NEW s \in Systems
  PROVE  /\ op[s] = Idle /\ op[s].pc = "idle" /\ s \notin flight
         /\ \A m \in Mgrs : launches[s][m] = 0
<1>1. batch \notin Unfinished
  BY BatchAssumption DEF Unfinished
<1>2. s \notin flight
  BY <1>1 DEF IInv, BatchInv
<1> QED
  BY <1>2 DEF IInv, SystemInv, BusyIsUnfinished, BatchInv

LEMMA Created ==
  ASSUME IInv, NEW T \in SUBSET Systems, NEW U \in SUBSET Systems, T \subseteq U,
         batch = None, batch' \in Unfinished, restarts' \in {restarts, restarts + 1},
         T = U \/ restarts' # restarts,
         rows' = [s \in Systems |-> IF s \in U THEN <<QueuedRow>> ELSE <<>>],
         item' = [s \in Systems |->
                    IF s \in T THEN QueuedItem ELSE NoItem],
         UNCHANGED <<cached, flight, op, hosts>>
  PROVE  IInv'
<1>1. /\ QueuedItem \in Item /\ QueuedItem.status = "queued" /\ QueuedItem.hist = 1 /\ QueuedItem.info = None
      /\ NoItem \in Item /\ NoItem.status = None /\ NoItem.hist = 0 /\ NoItem.info = None
  <2>1. 0 \in 0..Managers
    BY BatchAssumption
  <2>2. NoItem \in Item
    BY <2>1 DEF NoItem, Item
  <2>3. QueuedItem \in Item
    BY <2>1 DEF QueuedItem, Item, Unfinished
  <2> QED
    BY <2>2, <2>3 DEF NoItem, QueuedItem
<1>2. QueuedRow \in Row /\ QueuedRow.status = "queued"
  BY BatchAssumption DEF QueuedRow, Row, RowStatus
<1>3. /\ <<QueuedRow>> \in Seq(Row) /\ Len(<<QueuedRow>>) = 1 /\ <<QueuedRow>>[1] = QueuedRow
      /\ <<>> \in Seq(Row) /\ Len(<<>>) = 0
  BY <1>2
<1>4. TypeOK'
  <2>1. rows' \in [Systems -> Seq(Row)]
    BY <1>3
  <2>2. item' \in [Systems -> Item]
    BY <1>1 DEF QueuedItem
  <2> QED
    BY <2>1, <2>2 DEF IInv, TypeOK, hosts
<1>5. ASSUME NEW s \in Systems PROVE SystemInv(s)'
  <2>1. op'[s] = Idle /\ op'[s].pc = "idle" /\ s \notin flight' /\ restarts \in Nat /\ restarts' \in Nat
    BY BeforeCreation DEF IInv, TypeOK
  <2>2. \A m \in Mgrs : launches'[s][m] = 0
    BY BeforeCreation DEF hosts
  <2>3. CASE s \in T
    <3>1. item'[s] = QueuedItem /\ rows'[s] = <<QueuedRow>>
      BY <2>3 DEF QueuedItem
    <3>2. /\ item'[s].status = "queued" /\ item'[s].hist = 1 /\ item'[s].info = None
          /\ Len(rows'[s]) = 1 /\ rows'[s][1].status = "queued"
      BY <3>1, <1>1, <1>2, <1>3
    <3>3. PointersExist(s)' /\ BusyIsUnfinished(s)' /\ StepIsOpen(s)' /\ InfoIsCurrent(s)'
      BY <2>1, <3>2, IdleTyped DEF PointersExist, BusyIsUnfinished, StepIsOpen, InfoIsCurrent, Steps, Unfinished
    <3>4. LaunchesBounded(s)'
      BY <2>1, <2>2 DEF LaunchesBounded
    <3>5. FirstRun(s)'
      BY <2>1, <3>2 DEF FirstRun, RowsAgree
    <3> QED
      BY <3>3, <3>4, <3>5 DEF SystemInv
  <2>4. CASE s \notin T
    <3>1. item'[s] = NoItem /\ Len(rows'[s]) \in {0, 1}
      BY <2>4, <1>3
    <3>2. item'[s].status = None /\ item'[s].hist = 0 /\ item'[s].info = None
      BY <3>1, <1>1
    <3>3. PointersExist(s)' /\ BusyIsUnfinished(s)' /\ StepIsOpen(s)' /\ InfoIsCurrent(s)'
      BY <2>1, <3>1, <3>2, IdleTyped, BatchAssumption
         DEF PointersExist, BusyIsUnfinished, StepIsOpen, InfoIsCurrent, Steps, Unfinished
    <3>4. LaunchesBounded(s)'
      BY <2>1, <2>2 DEF LaunchesBounded
    <3>5. FirstRun(s)'
      BY <2>1, <3>2, BatchAssumption DEF FirstRun, RowsAgree, Unfinished
    <3> QED
      BY <3>3, <3>4, <3>5 DEF SystemInv
  <2> QED
    BY <2>3, <2>4
<1>6. BatchInv'
  BY BatchAssumption DEF BatchInv, Unfinished
<1> QED
  BY <1>4, <1>5, <1>6 DEF IInv

LEMMA CreateKeeps == ASSUME IInv, NEW S \in SUBSET Systems, Create(S) PROVE IInv'
BY Created DEF Create, Unfinished

LEMMA CreateInterruptedKeeps ==
  ASSUME IInv, NEW T \in SUBSET Systems, NEW U \in SUBSET Systems, CreateInterrupted(T, U)
  PROVE  IInv'
<1>1. restarts' = restarts + 1 /\ restarts' # restarts
  BY DEF CreateInterrupted, IInv, TypeOK
<1> QED
  BY <1>1, Created DEF CreateInterrupted, Unfinished

(* A step of the hosts only.                                               *)
LEMMA HostStep ==
  ASSUME IInv, remote' \in [Systems -> [Mgrs -> Process]],
         UNCHANGED <<database, flight, op, launches, restarts>>
  PROVE  IInv'
<1>1. \A s \in Systems : SystemInv(s)'
  BY Frame DEF IInv, database
<1>2. TypeOK' /\ BatchInv'
  BY DEF IInv, TypeOK, BatchInv, database
<1> QED
  BY <1>1, <1>2 DEF IInv

LEMMA ProcessEndsKeeps ==
  ASSUME IInv, NEW s \in Systems, NEW m \in Mgrs, ProcessEnds(s, m) PROVE IInv'
<1>1. PICK end \in {"ok", "failed"} : remote' = [remote EXCEPT ![s][m] = end]
  BY DEF ProcessEnds
<1>2. remote' \in [Systems -> [Mgrs -> Process]]
  BY <1>1 DEF IInv, TypeOK, Process
<1> QED
  BY <1>2, HostStep DEF ProcessEnds

LEMMA HostRebootsKeeps == ASSUME IInv, NEW s \in Systems, HostReboots(s) PROVE IInv'
<1> DEFINE after == [m \in Mgrs |-> IF remote[s][m] \in {"running", "ok", "failed"} THEN "lost"
                                   ELSE remote[s][m]]
<1>1. after \in [Mgrs -> Process]
  BY DEF IInv, TypeOK, Process
<1>2. remote' = [remote EXCEPT ![s] = after]
  BY DEF HostReboots
<1> HIDE DEF after
<1>3. remote' \in [Systems -> [Mgrs -> Process]]
  BY <1>1, <1>2 DEF IInv, TypeOK
<1> QED
  BY <1>3, HostStep DEF HostReboots

(* The runner starts what is unfinished and idle.                          *)
LEMMA ItemOpTyped ==
  ASSUME IInv, NEW s \in Systems
  PROVE  /\ ItemOp(s) \in Operation /\ ItemOp(s).pc = "waiting" /\ ItemOp(s).todo = {}
         /\ ItemOp(s).row \in {0, item[s].hist} /\ ItemOp(s).queued \in {0, item[s].hist}
         /\ ItemOp(s).first /\ ItemOp(s).ok
         /\ item[s].status = "queued" => ItemOp(s).queued = item[s].hist /\ ~ItemOp(s).resume
<1> DEFINE resume == item[s].status = "running" /\ item[s].info # None
           mgr == IF resume THEN item[s].mgr ELSE 0
           row == IF resume THEN item[s].hist ELSE 0
           queued == IF resume THEN 0 ELSE item[s].hist
<1>1. item[s] \in Item /\ 0 \in 0..Managers
  BY BatchAssumption DEF IInv, TypeOK
<1>2. /\ resume \in BOOLEAN /\ mgr \in 0..Managers /\ row \in Nat /\ queued \in Nat
      /\ row \in {0, item[s].hist} /\ queued \in {0, item[s].hist}
      /\ item[s].status = "queued" => queued = item[s].hist /\ ~resume
  BY <1>1 DEF Item
<1>3. ItemOp(s) = [Idle EXCEPT !.pc = "waiting", !.resume = resume, !.mgr = mgr, !.row = row,
                               !.queued = queued]
  BY DEF ItemOp
<1> HIDE DEF resume, mgr, row, queued
<1>4. ItemOp(s) = [pc |-> "waiting", todo |-> {}, mgr |-> mgr, row |-> row, resume |-> resume,
                   queued |-> queued, first |-> TRUE, conn |-> FALSE, ok |-> TRUE, lost |-> FALSE,
                   asked |-> FALSE, result |-> None]
  BY <1>3 DEF Idle
<1>5. ItemOp(s) \in Operation
  BY <1>2, <1>4 DEF Operation, PcStates
<1> QED
  BY <1>2, <1>4, <1>5

LEMMA RunGroupKeeps == ASSUME IInv, RunGroup PROVE IInv'
<1>1. /\ batch \in Unfinished /\ flight = {} /\ batch' = "running" /\ flight' = NextGroup
      /\ op' = [s \in Systems |-> IF s \in NextGroup THEN ItemOp(s) ELSE op[s]]
      /\ item' = item /\ rows' = rows /\ cached' = cached /\ remote' = remote
      /\ launches' = launches /\ restarts' = restarts
  BY DEF RunGroup, StartItems, hosts
<1>2. NextGroup \subseteq Systems /\ \A s \in NextGroup : item[s].status \in Unfinished
  BY DEF NextGroup, Active
<1>3. op' \in [Systems -> Operation]
  BY <1>1, ItemOpTyped DEF IInv, TypeOK
<1>4. TypeOK'
  BY <1>1, <1>2, <1>3 DEF IInv, TypeOK, Unfinished
<1>5. ASSUME NEW s \in Systems PROVE SystemInv(s)'
  <2>1. SystemInv(s) /\ op[s].pc = "idle" /\ op[s] = Idle
    BY <1>1 DEF IInv, SystemInv, BusyIsUnfinished
  <2>2. CASE s \notin NextGroup
    BY <1>1, <2>1, <2>2, Frame
  <2>3. CASE s \in NextGroup
    <3> DEFINE o == ItemOp(s)
    <3>1. op'[s] = o /\ s \in flight'
      BY <1>1, <2>3
    <3>2. /\ o.pc = "waiting" /\ o.todo = {} /\ o.row \in {0, item[s].hist}
          /\ o.queued \in {0, item[s].hist} /\ o.first /\ o.ok
          /\ item[s].status = "queued" => o.queued = item[s].hist /\ ~o.resume
      BY ItemOpTyped
    <3> HIDE DEF o
    <3>3. item[s].status \in Unfinished
      BY <1>2, <2>3
    <3>4. Len(rows[s]) \in Nat /\ item[s].hist <= Len(rows[s]) /\ item[s].hist >= 1
      BY <2>1, <3>3, LenProperties DEF IInv, TypeOK, SystemInv, PointersExist
    <3>5. PointersExist(s)' /\ BusyIsUnfinished(s)'
      BY <1>1, <3>1, <3>2, <3>3, <3>4 DEF PointersExist, BusyIsUnfinished
    <3>6. StepIsOpen(s)' /\ InfoIsCurrent(s)'
      BY <1>1, <2>1, <3>1, <3>2 DEF SystemInv, StepIsOpen, InfoIsCurrent, Steps
    <3>7. LaunchesBounded(s)'
      BY <1>1, <2>1, <3>1, <3>2, <3>3 DEF SystemInv, LaunchesBounded, NotYet
    <3>8. FirstRun(s)'
      BY <1>1, <2>1, <3>1, <3>2, <3>3 DEF SystemInv, FirstRun, RowsAgree, Allowed, Unfinished
    <3> QED
      BY <3>5, <3>6, <3>7, <3>8 DEF SystemInv
  <2> QED
    BY <2>2, <2>3
<1>6. BatchInv'
  BY <1>1, BatchAssumption DEF BatchInv, Unfinished
<1> QED
  BY <1>4, <1>5, <1>6 DEF IInv

LEMMA EndBatchKeeps == ASSUME IInv, EndBatch PROVE IInv'
<1>1. Summary \in Final /\ Summary # None
  BY BatchAssumption DEF Summary, Final
<1>2. /\ batch' = Summary /\ flight = {} /\ item' = item /\ rows' = rows /\ cached' = cached
      /\ flight' = flight /\ op' = op /\ remote' = remote /\ launches' = launches
      /\ restarts' = restarts
  BY DEF EndBatch, hosts
<1>3. TypeOK'
  BY <1>1, <1>2 DEF IInv, TypeOK
<1>4. \A s \in Systems : SystemInv(s)'
  BY <1>2, Frame DEF IInv
<1>5. BatchInv'
  BY <1>1, <1>2 DEF BatchInv
<1> QED
  BY <1>3, <1>4, <1>5 DEF IInv

(* The cleanup keeps every row, and spares those the items name.           *)
LEMMA Cleaned ==
  ASSUME IInv, rows' = Cleanup(rows, item), NEW s \in Systems
  PROVE  /\ rows'[s] \in Seq(Row) /\ Len(rows'[s]) = Len(rows[s])
         /\ \A i \in 1..Len(rows[s]) :
              rows[s][i].status # "started" \/ (item[s].status \in Unfinished /\ item[s].hist = i)
                => rows'[s][i] = rows[s][i]
<1> DEFINE q == rows[s]
           Now(i) == IF /\ q[i].status = "started"
                        /\ ~(item[s].status \in Unfinished /\ item[s].hist = i)
                     THEN [q[i] EXCEPT !.status = "warning"] ELSE q[i]
           n == Len(q)
<1>1. q \in Seq(Row) /\ n \in Nat /\ DOMAIN q = 1..n
  BY LenProperties DEF IInv, TypeOK
<1>2. \A i \in 1..n : q[i] \in Row
  BY <1>1, ElementOfSeq
<1>3. \A i \in 1..n : Now(i) \in Row
  BY <1>2 DEF Row, RowStatus, Final
<1>4. rows'[s] = [i \in 1..n |-> Now(i)]
  BY <1>1 DEF Cleanup
<1> HIDE DEF Now, n
<1>5. rows'[s] \in Seq(Row)
  BY <1>1, <1>3, <1>4
<1>6. Len(rows'[s]) = n
  BY <1>1, <1>4, <1>5, LenProperties
<1> QED
  BY <1>1, <1>4, <1>5, <1>6 DEF Now, n

LEMMA RestartKeeps == ASSUME IInv, Restart PROVE IInv'
<1>1. /\ restarts' = restarts + 1 /\ rows' = Cleanup(rows, item) /\ flight' = {}
      /\ batch' = (IF batch = "queued" THEN "running" ELSE batch) /\ batch # None
      /\ op' = [s \in Systems |-> Idle] /\ item' = item /\ cached' = cached
      /\ remote' = remote /\ launches' = launches
  BY DEF Restart, hosts
<1>2. restarts \in Nat /\ restarts' \in Nat /\ restarts' # 0
  BY <1>1 DEF IInv, TypeOK
<1>3. rows' \in [Systems -> Seq(Row)]
  <2>1. rows' = [s \in Systems |-> rows'[s]]
    BY <1>1 DEF Cleanup
  <2> QED
    BY <1>1, <2>1, Cleaned
<1>4. TypeOK'
  BY <1>1, <1>2, <1>3, IdleTyped DEF IInv, TypeOK, Unfinished
<1>5. ASSUME NEW s \in Systems PROVE SystemInv(s)'
  <2>1. SystemInv(s) /\ op'[s] = Idle /\ s \notin flight'
    BY <1>1 DEF IInv
  <2>2. Len(rows'[s]) = Len(rows[s]) /\ Len(rows[s]) \in Nat
    BY <1>1, Cleaned, LenProperties DEF IInv, TypeOK
  <2>3. PointersExist(s)' /\ BusyIsUnfinished(s)'
    BY <1>1, <2>1, <2>2, IdleTyped DEF SystemInv, PointersExist, BusyIsUnfinished
  <2>4. StepIsOpen(s)' /\ InfoIsCurrent(s)'
    BY <1>1, <2>1, IdleTyped DEF SystemInv, StepIsOpen, InfoIsCurrent, Steps
  <2>5. LaunchesBounded(s)'
    <3> SUFFICES ASSUME NEW m \in Mgrs PROVE launches'[s][m] <= restarts'
      BY <1>1, <1>2 DEF LaunchesBounded, IInv, TypeOK
    <3>1. launches[s][m] <= restarts + 1
      BY <2>1 DEF SystemInv, LaunchesBounded
    <3> QED
      BY <1>1, <3>1
  <2>6. FirstRun(s)'
    BY <1>2 DEF FirstRun
  <2> QED
    BY <2>3, <2>4, <2>5, <2>6 DEF SystemInv
<1>6. BatchInv'
  BY <1>1, BatchAssumption DEF BatchInv
<1> QED
  BY <1>4, <1>5, <1>6 DEF IInv

LEMMA InitIInv == Init => IInv
<1> SUFFICES ASSUME Init PROVE IInv
  OBVIOUS
<1>1. /\ <<>> \in Seq(Row) /\ Len(<<>>) = 0 /\ batch = None /\ flight = {} /\ restarts = 0
      /\ batch \notin Unfinished
  BY BatchAssumption DEF Init, Unfinished
<1>2. NoItem \in Item /\ NoItem.status = None /\ NoItem.hist = 0 /\ NoItem.info = None
  <2>1. 0 \in 0..Managers
    BY BatchAssumption
  <2> QED
    BY <2>1 DEF NoItem, Item
<1>3. TypeOK
  BY <1>1, <1>2, IdleTyped DEF Init, TypeOK, Process
<1>4. ASSUME NEW s \in Systems PROVE SystemInv(s)
  <2>1. /\ item[s] = NoItem /\ rows[s] = <<>> /\ op[s] = Idle
        /\ \A m \in Mgrs : launches[s][m] = 0
    BY DEF Init
  <2>2. item[s].status = None /\ item[s].hist = 0 /\ item[s].info = None /\ Len(rows[s]) = 0
    BY <2>1, <1>1, <1>2
  <2>3. PointersExist(s) /\ BusyIsUnfinished(s) /\ StepIsOpen(s) /\ InfoIsCurrent(s)
    BY <2>1, <2>2, <1>1, IdleTyped
       DEF PointersExist, BusyIsUnfinished, StepIsOpen, InfoIsCurrent, Steps
  <2>4. LaunchesBounded(s)
    BY <1>1, <2>1 DEF LaunchesBounded
  <2>5. FirstRun(s)
    BY <2>1, <2>2, IdleTyped, BatchAssumption DEF FirstRun, RowsAgree, Unfinished
  <2> QED
    BY <2>3, <2>4, <2>5 DEF SystemInv
<1>5. BatchInv
  BY <1>1 DEF Init, BatchInv
<1> QED
  BY <1>3, <1>4, <1>5 DEF IInv

LEMMA AdvanceKeeps == ASSUME IInv, NEW s \in Systems, Advance(s) PROVE IInv'
BY BeginKeeps, NoManagerKeeps, ConnectKeeps, CancelSeenKeeps, SkipManagerKeeps,
   NeedConnectionKeeps, StartStepKeeps, LaunchKeeps, SetupAnswersKeeps, SetupFailsKeeps,
   StepThrowsKeeps, StepCancelledKeeps, TailEndsKeeps, TailLostKeeps, ReconnectReadsKeeps,
   ReconnectInfersKeeps, ReconnectFailsKeeps, EndLoopKeeps, RecheckedKeeps, ItemEndsKeeps
   DEF Advance

LEMMA StepKeeps == ASSUME IInv, [Next]_vars PROVE IInv'
<1>1. CASE UNCHANGED vars
  <2>1. \A s \in Systems : SystemInv(s)'
    BY <1>1, Frame DEF IInv, vars
  <2>2. TypeOK' /\ BatchInv'
    BY <1>1 DEF IInv, TypeOK, BatchInv, vars
  <2> QED
    BY <2>1, <2>2 DEF IInv
<1> QED
  BY <1>1, CreateKeeps, RunGroupKeeps, EndBatchKeeps, AdvanceKeeps, CancelKeeps,
     HostRebootsKeeps, ProcessEndsKeeps, RestartKeeps, CreateInterruptedKeeps DEF Next

LEMMA InvariantHolds == Spec => []IInv
BY InitIInv, StepKeeps, PTL DEF Spec

(* What the step of an item leaves alone.                                  *)
LEMMA AdvanceIsLocal ==
  ASSUME IInv, NEW s \in Systems, Advance(s) \/ Cancel(s)
  PROVE  /\ op[s].pc # "idle"
         /\ \A t \in Systems \ {s} : item'[t] = item[t] /\ op'[t] = op[t]
<1>1. ASSUME NEW o, SetOp(s, o) PROVE \A t \in Systems \ {s} : op'[t] = op[t]
  BY <1>1 DEF SetOp, IInv, TypeOK
<1>2. CASE Begin(s) \/ NoManager(s) \/ Connect(s) \/ CancelSeen(s) \/ SkipManager(s)
           \/ NeedConnection(s)
  BY <1>1, <1>2 DEF Begin, NoManager, Connect, CancelSeen, SkipManager, NeedConnection, Done, database
<1>3. CASE Launch(s) \/ SetupFails(s) \/ StepThrows(s) \/ StepCancelled(s) \/ TailEnds(s)
           \/ TailLost(s)
  BY <1>1, <1>3 DEF Launch, SetupFails, StepThrows, StepCancelled, TailEnds, TailLost, EndStep,
                    EndInStep, Done, database
<1>4. CASE ReconnectReads(s) \/ ReconnectInfers(s) \/ ReconnectFails(s) \/ EndLoop(s)
           \/ Rechecked(s)
  BY <1>1, <1>4 DEF ReconnectReads, ReconnectInfers, ReconnectFails, EndLoop, Rechecked, EndStep, Done
<1>5. CASE StartStep(s)
  BY <1>1, <1>5 DEF StartStep, StepStarted, InStep, IInv, TypeOK
<1>6. CASE SetupAnswers(s)
  BY <1>1, <1>6 DEF SetupAnswers, IInv, TypeOK
<1>7. CASE ItemEnds(s)
  BY <1>1, <1>7 DEF ItemEnds, IInv, TypeOK
<1>8. CASE Cancel(s)
  BY <1>1, <1>8 DEF Cancel, database
<1> QED
  BY <1>2, <1>3, <1>4, <1>5, <1>6, <1>7, <1>8 DEF Advance

(* Only the runner sets items of a new group going, and it takes the first *)
(* group that has unfinished ones.                                         *)
LEMMA GroupOrderKept == ASSUME IInv, GroupOrder, [Next]_vars PROVE GroupOrder'
<1> SUFFICES ASSUME NEW s \in Systems, NEW t \in Systems, GroupOf[s] < GroupOf[t],
                    item'[s].status \in Unfinished
             PROVE  op'[t].pc = "idle" /\ item'[t].status \in {None, "queued"}
  BY DEF GroupOrder
<1>1. GroupOf[s] \in Nat /\ GroupOf[t] \in Nat /\ Idle.pc = "idle"
  BY BatchAssumption, IdleTyped
<1>2. item[s].status \in Unfinished => op[t].pc = "idle" /\ item[t].status \in {None, "queued"}
  BY DEF GroupOrder
<1>3. ASSUME NEW x \in Systems, Advance(x) \/ Cancel(x)
      PROVE  op'[t].pc = "idle" /\ item'[t].status \in {None, "queued"}
  <2>1. item[x].status \in Unfinished /\ op[x].pc # "idle"
    BY <1>3, AdvanceIsLocal DEF IInv, SystemInv, BusyIsUnfinished
  <2>2. item[s].status \in Unfinished
    BY <1>3, <2>1, AdvanceIsLocal
  <2>3. t # x
    BY <1>2, <2>1, <2>2
  <2> QED
    BY <1>2, <1>3, <2>2, <2>3, AdvanceIsLocal
<1>4. ASSUME item' = item, op' = op
      PROVE  op'[t].pc = "idle" /\ item'[t].status \in {None, "queued"}
  BY <1>2, <1>4
<1>5. CASE RunGroup
  <2>1. /\ item' = item /\ t \notin NextGroup
        /\ op' = [x \in Systems |-> IF x \in NextGroup THEN ItemOp(x) ELSE op[x]]
    BY <1>1, <1>5 DEF RunGroup, StartItems, NextGroup, Active
  <2> QED
    BY <1>2, <2>1
<1>6. CASE Restart
  BY <1>1, <1>2, <1>6 DEF Restart
<1>7. ASSUME batch = None, UNCHANGED op, NEW T,
             item' = [x \in Systems |->
                        IF x \in T THEN QueuedItem ELSE NoItem]
      PROVE  op'[t].pc = "idle" /\ item'[t].status \in {None, "queued"}
  <2>1. op'[t].pc = "idle"
    BY <1>7, BeforeCreation
  <2>2. NoItem.status = None /\ QueuedItem.status = "queued"
    BY DEF NoItem, QueuedItem
  <2> QED
    BY <1>7, <2>1, <2>2
<1>8. CASE \E S \in SUBSET Systems : Create(S)
  BY <1>7, <1>8 DEF Create
<1>9. CASE \E T, U \in SUBSET Systems : CreateInterrupted(T, U)
  BY <1>7, <1>9 DEF CreateInterrupted
<1>10. CASE UNCHANGED vars
  BY <1>4, <1>10 DEF vars
<1>11. CASE EndBatch
  BY <1>4, <1>11 DEF EndBatch
<1>12. CASE \E x \in Systems : HostReboots(x) \/ \E m \in Mgrs : ProcessEnds(x, m)
  BY <1>4, <1>12 DEF HostReboots, ProcessEnds, database
<1> QED
  BY <1>3, <1>5, <1>6, <1>8, <1>9, <1>10, <1>11, <1>12 DEF Next

-----------------------------------------------------------------------------
(* The results. *)

(* No item of a group is started, or finished, while one of an earlier     *)
(* group is unfinished, also when the dashboard restarts in between.       *)
THEOREM GroupsCorrect == Spec => []GroupOrder
<1>1. Init => GroupOrder
  <2> SUFFICES ASSUME Init PROVE GroupOrder
    OBVIOUS
  <2>1. \A s \in Systems : item[s].status = None
    BY DEF Init, NoItem
  <2> QED
    BY <2>1, BatchAssumption DEF GroupOrder, Unfinished
<1>2. IInv /\ GroupOrder /\ [Next]_vars => GroupOrder'
  BY GroupOrderKept
<1> QED
  BY <1>1, <1>2, InvariantHolds, PTL DEF Spec

(* Every variable keeps its type.                                          *)
THEOREM TypeCorrect == Spec => []TypeOK
<1>1. IInv => TypeOK
  BY DEF IInv
<1> QED
  BY <1>1, InvariantHolds, PTL

(* The process a resumption watches is the last one of the item's step.    *)
THEOREM InfoCorrect == Spec => []StoredInfoIsCurrent
<1>1. IInv => StoredInfoIsCurrent
  BY DEF IInv, SystemInv, InfoIsCurrent, StoredInfoIsCurrent
<1> QED
  BY <1>1, InvariantHolds, PTL

(* An operation inside a step has an open activity row, which its item names. *)
THEOREM OpenRowCorrect == Spec => []StepHasOpenRow
<1>1. IInv => StepHasOpenRow
  BY DEF IInv, SystemInv, StepIsOpen, StepHasOpenRow, Steps
<1> QED
  BY <1>1, InvariantHolds, PTL

(* No run of the dashboard launches the upgrade of a manager twice.        *)
THEOREM LaunchesCorrect == Spec => []OneLaunchPerRun
<1>1. IInv => OneLaunchPerRun
  BY DEF IInv, SystemInv, LaunchesBounded, OneLaunchPerRun
<1> QED
  BY <1>1, InvariantHolds, PTL

(* Without a restart the status of an item says no more than its rows.     *)
THEOREM ResultsCorrect == Spec => []ItemMatchesRows
<1>1. IInv => ItemMatchesRows
  BY DEF IInv, SystemInv, FirstRun, RowsAgree, ItemMatchesRows
<1> QED
  BY <1>1, InvariantHolds, PTL

(* What a batch is going to resume survives the cleanup of every start.    *)
THEOREM CleanupCorrect == Spec => CleanupSparesBatch
<1> DEFINE Spared == \A s \in Systems : item[s].status \in Unfinished =>
                        rows'[s][item[s].hist] = rows[s][item[s].hist]
<1>1. ASSUME IInv, [Next]_vars PROVE restarts' # restarts => Spared
  <2> SUFFICES ASSUME restarts' # restarts PROVE Spared
    OBVIOUS
  <2>1. CASE Restart
    <3> SUFFICES ASSUME NEW s \in Systems, item[s].status \in Unfinished
                 PROVE  rows'[s][item[s].hist] = rows[s][item[s].hist]
      OBVIOUS
    <3>1. item[s].hist \in 1..Len(rows[s])
      BY <1>1, LenProperties DEF IInv, TypeOK, Item, SystemInv, PointersExist
    <3> QED
      BY <1>1, <2>1, <3>1, Cleaned DEF Restart
  <2>2. CASE \E T, U \in SUBSET Systems : CreateInterrupted(T, U)
    <3>1. batch = None
      BY <2>2 DEF CreateInterrupted
    <3>2. \A s \in Systems : item[s].status = None
      BY <1>1, <3>1 DEF IInv, BatchInv, NoItem
    <3> QED
      BY <3>2, BatchAssumption DEF Unfinished
  <2>3. CASE UNCHANGED vars
    BY <2>3 DEF vars
  <2>4. ~Restart /\ ~(\E T, U \in SUBSET Systems : CreateInterrupted(T, U)) /\ ~UNCHANGED vars
          => restarts' = restarts
    <3>1. \A s \in Systems : Advance(s) => restarts' = restarts
      BY DEF Advance, Begin, NoManager, Connect, CancelSeen, SkipManager, NeedConnection,
             StartStep, Launch, SetupAnswers, SetupFails, StepThrows, StepCancelled, TailEnds,
             TailLost, ReconnectReads, ReconnectInfers, ReconnectFails, EndLoop, Rechecked, ItemEnds
    <3> QED
      BY <1>1, <3>1 DEF Next, Create, RunGroup, EndBatch, Cancel, HostReboots, ProcessEnds
  <2> QED
    BY <2>1, <2>2, <2>3, <2>4
<1> QED
  BY <1>1, InvariantHolds, PTL DEF Spec, CleanupSparesBatch
=============================================================================
