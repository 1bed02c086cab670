------------------------ MODULE SystemOperationsProofs ------------------------
(***************************************************************************)
(* Theorems about SystemOperations, for any number of calls, systems,      *)
(* permits, managers and retries.  The inductive invariant says which      *)
(* states of a call go with the lock, the active operation and the permit; *)
(* every step of a call either moves it inside its section or ends it,     *)
(* and these two shapes are shown to preserve the invariant once.  A       *)
(* second invariant says which history rows a call has at each label, and  *)
(* gives what its result and its rows say of each other.                   *)
(***************************************************************************)
EXTENDS SystemOperations, SequenceTheorems, TLAPS

\* In the section and not yet past its finally block.
Busy == SectionStates \ {"releasing"}

Holding == {"dialing", "loop", "running", "resuming", "checking"}

\* What is true of each call on its own.
TaskOK(t) ==
  /\ t \in Task
  /\ (t.result = None) <=> (t.pc \notin {"releasing", "done"})
  /\ t.pc \in {"new", "blocked", "woken", "starting"} => t.step = 0
  /\ t.pc \in {"connecting", "dialing"} /\ t.phase = "main" => t.step = 0
  /\ t.pc = "running" => t.step < Managers
  /\ t.pc = "verifyWait" => t.checks < CheckRetries /\ t.phase = "verify"
  /\ t.result = "cancelled" => t.asked

\* The holder of a lock is the one call of that system in its section.
LockInv ==
  /\ lock \in [Systems -> Ops \union {None}]
  /\ \A s \in Systems : lock[s] # None => Sys(lock[s]) = s
  /\ \A o \in Ops : (task[o].pc \in SectionStates) <=> (lock[Sys(o)] = o)

\* The active operation is the busy one.
ActiveInv ==
  /\ active \in [Systems -> Ops \union {None}]
  /\ \A s \in Systems : active[s] # None => Sys(active[s]) = s
  /\ \A o \in Ops : (task[o].pc \in Busy) <=> (active[Sys(o)] = o)

\* An aborted controller is that of a call somebody cancelled.
CancelInv ==
  /\ aborted \in [Systems -> BOOLEAN]
  /\ \A s \in Systems : aborted[s] /\ active[s] # None => task[active[s]].asked

TaskInv ==
  /\ task \in [Ops -> Task]
  /\ \A o \in Ops : TaskOK(task[o])

PermitInv == connected = {o \in Ops : task[o].pc \in Holding}

IInv == TaskInv /\ LockInv /\ ActiveInv /\ CancelInv /\ PermitInv

\* A step of o that stays in its section.
Moves(o) ==
  /\ task[o].pc \in Busy
  /\ task' = [task EXCEPT ![o] = task'[o]]
  /\ TaskOK(task'[o])
  /\ task'[o].pc \in Busy
  /\ task'[o].asked = task[o].asked
  /\ connected' = IF task'[o].pc \in Holding THEN connected \union {o} ELSE connected \ {o}
  /\ UNCHANGED <<lock, active, aborted>>

\* A step of o that ends its operation.
Ends(o) ==
  /\ task[o].pc \in Busy
  /\ task' = [task EXCEPT ![o] = task'[o]]
  /\ TaskOK(task'[o])
  /\ task'[o].pc = "releasing"
  /\ connected' = connected \ {o}
  /\ active' = [active EXCEPT ![Sys(o)] = None]
  /\ UNCHANGED <<lock, aborted>>

-----------------------------------------------------------------------------
(* The two shapes, and the three other actions, preserve the invariant. *)

\* A call that moves inside its section keeps the invariant.
LEMMA MovesPreserves ==
  ASSUME IInv, NEW o \in Ops, Moves(o)
  PROVE  IInv'
<1> USE OperationsAssumption DEF IInv, Moves
<1>1. \A p \in Ops : p # o => task'[p] = task[p]
  BY DEF TaskInv
<1>2. TaskInv'
  BY <1>1 DEF TaskInv, TaskOK
<1>3. task'[o].pc \in SectionStates /\ task[o].pc \in SectionStates
  BY DEF Busy
<1>4. LockInv'
  BY <1>1, <1>3 DEF LockInv, Sys
<1>5. ActiveInv'
  BY <1>1 DEF ActiveInv, Sys
<1>6. CancelInv'
  BY <1>1 DEF CancelInv, ActiveInv
<1>7. PermitInv'
  BY <1>1 DEF PermitInv
<1> QED BY <1>2, <1>4, <1>5, <1>6, <1>7

\* A call that ends its operation keeps the invariant.
LEMMA EndsPreserves ==
  ASSUME IInv, NEW o \in Ops, Ends(o)
  PROVE  IInv'
<1> USE OperationsAssumption DEF IInv, Ends
<1>1. \A p \in Ops : p # o => task'[p] = task[p]
  BY DEF TaskInv
<1>2. TaskInv'
  BY <1>1 DEF TaskInv, TaskOK
<1>3. /\ task'[o].pc \in SectionStates /\ task[o].pc \in SectionStates
      /\ task'[o].pc \notin Busy /\ task'[o].pc \notin Holding
  BY DEF Busy, Holding, SectionStates, PcStates
<1>4. LockInv'
  BY <1>1, <1>3 DEF LockInv, Sys
<1>5. ActiveInv'
  <2>1. active' \in [Systems -> Ops \union {None}]
    BY DEF ActiveInv
  <2>2. \A s \in Systems : active'[s] # None => active'[s] = active[s]
    BY DEF ActiveInv
  <2>3. \A p \in Ops : (task'[p].pc \in Busy) <=> (active'[Sys(p)] = p)
    BY <1>1, <1>3 DEF ActiveInv, Sys
  <2> QED BY <2>1, <2>2, <2>3 DEF ActiveInv, Sys
<1>6. CancelInv'
  <2>1. \A s \in Systems : active'[s] # None => active'[s] = active[s] /\ active[s] # o
    BY <1>3 DEF ActiveInv, Sys
  <2> QED BY <1>1, <2>1 DEF CancelInv, ActiveInv
<1>7. PermitInv'
  BY <1>1, <1>3 DEF PermitInv
<1> QED BY <1>2, <1>4, <1>5, <1>6, <1>7

\* Releasing the lock keeps the invariant: nobody else was inside.
LEMMA ReleasePreserves ==
  ASSUME IInv, NEW o \in Ops, ReleaseLock(o)
  PROVE  IInv'
<1> USE OperationsAssumption DEF IInv, ReleaseLock
<1>1. \A p \in Ops : \/ task'[p] = task[p] /\ p # o
                     \/ p = o /\ task'[p] = [task[p] EXCEPT !.pc = "done"]
                     \/ p # o /\ task[p].pc = "blocked" /\ task'[p] = [task[p] EXCEPT !.pc = "woken"]
  OBVIOUS
<1>2. TaskInv'
  <2>1. ASSUME NEW p \in Ops PROVE TaskOK(task'[p])
    <3>1. TaskOK(task[p])
      BY DEF TaskInv
    <3>2. CASE task'[p] = task[p]
      BY <3>1, <3>2 DEF TaskOK
    <3>3. CASE p = o /\ task'[p] = [task[p] EXCEPT !.pc = "done"]
      BY <3>1, <3>3 DEF TaskOK, Task, PcStates
    <3>4. CASE task[p].pc = "blocked" /\ task'[p] = [task[p] EXCEPT !.pc = "woken"]
      BY <3>1, <3>4 DEF TaskOK, Task, PcStates
    <3> QED BY <1>1, <3>2, <3>3, <3>4
  <2>2. task' \in [Ops -> Task]
    BY <2>1 DEF TaskOK
  <2> QED BY <2>1, <2>2 DEF TaskInv
<1>3. \A p \in Ops : /\ (task'[p].pc \in SectionStates) <=> (task[p].pc \in SectionStates /\ p # o)
                     /\ (task'[p].pc \in Busy) <=> (task[p].pc \in Busy)
                     /\ (task'[p].pc \in Holding) <=> (task[p].pc \in Holding)
                     /\ task'[p].asked = task[p].asked
  BY <1>1 DEF TaskInv, Task, SectionStates, Busy, Holding, PcStates
<1>4. LockInv'
  <2>1. lock[Sys(o)] = o
    BY DEF LockInv, SectionStates, PcStates
  <2> QED BY <1>3, <2>1 DEF LockInv, Sys
<1>5. ActiveInv'
  BY <1>3 DEF ActiveInv, Sys
<1>6. CancelInv'
  BY <1>3 DEF CancelInv, ActiveInv
<1>7. PermitInv'
  BY <1>3 DEF PermitInv
<1> QED BY <1>2, <1>4, <1>5, <1>6, <1>7

\* Remembering that a call was asked to stop disturbs nothing else of it.
LEMMA AskedTaskOK ==
  ASSUME NEW t, TaskOK(t)
  PROVE  TaskOK([t EXCEPT !.asked = TRUE])
<1> DEFINE u == [t EXCEPT !.asked = TRUE]
<1>1. t \in Task
  BY DEF TaskOK
<1>2. /\ u.pc = t.pc /\ u.phase = t.phase /\ u.step = t.step
      /\ u.checks = t.checks /\ u.result = t.result
  BY <1>1 DEF Task
<1>3. u.asked
  BY <1>1, Zenon DEF Task
<1>4. u \in Task
  BY <1>1, Zenon DEF Task
<1> HIDE DEF u
<1>5. TaskOK(u)
  BY <1>2, <1>3, <1>4 DEF TaskOK
<1> QED BY <1>5 DEF u

\* A cancellation keeps the invariant: it marks the call whose record it aborts.
LEMMA CancelPreserves ==
  ASSUME IInv, NEW s \in Systems, Cancel(s)
  PROVE  IInv'
<1> USE OperationsAssumption DEF IInv, Cancel
<1>0. active[s] \in Ops
  BY DEF ActiveInv
<1>1. \A p \in Ops : \/ task'[p] = task[p] /\ p # active[s]
                     \/ p = active[s] /\ task'[p] = [task[p] EXCEPT !.asked = TRUE]
  BY <1>0 DEF TaskInv
<1>2. TaskInv'
  <2>1. ASSUME NEW p \in Ops PROVE TaskOK(task'[p])
    <3>1. TaskOK(task[p])
      BY DEF TaskInv
    <3>2. CASE task'[p] = task[p]
      BY <3>1, <3>2 DEF TaskOK
    <3>3. CASE task'[p] = [task[p] EXCEPT !.asked = TRUE]
      BY <3>1, <3>3, AskedTaskOK
    <3> QED BY <1>1, <3>2, <3>3
  <2>2. task' \in [Ops -> Task]
    BY <1>0, <2>1 DEF TaskOK, TaskInv
  <2> QED BY <2>1, <2>2 DEF TaskInv
<1>3. \A p \in Ops : /\ task'[p].pc = task[p].pc
                     /\ task[p].asked => task'[p].asked
  BY <1>1 DEF TaskInv, Task
<1>4. LockInv'
  BY <1>3 DEF LockInv, Sys
<1>5. ActiveInv'
  BY <1>3 DEF ActiveInv, Sys
<1>6. CancelInv'
  <2>1. task'[active[s]].asked
    BY <1>0, <1>1 DEF TaskInv, Task
  <2> QED BY <1>3, <2>1 DEF CancelInv, ActiveInv
<1>7. PermitInv'
  BY <1>3 DEF PermitInv
<1> QED BY <1>2, <1>4, <1>5, <1>6, <1>7

-----------------------------------------------------------------------------
(* The lock. *)

\* withLock keeps the invariant: a call goes to sleep, or finds the lock free,
\* and then no call of that system is inside and no operation is active on it.
LEMMA WithLockPreserves ==
  ASSUME IInv, NEW o \in Ops, NEW k \in Kinds, WithLock(o, k)
  PROVE  IInv'
<1> USE OperationsAssumption DEF IInv
<1>1. /\ task[o].pc \in {"new", "woken"}
      /\ task[o] \in Task /\ TaskOK(task[o]) /\ k \in AllKinds
  BY DEF WithLock, TaskInv
<1>2. \E t : task' = [task EXCEPT ![o] = t]
  BY DEF WithLock, EnterSection, SetTask
<1>3. task' = [task EXCEPT ![o] = task'[o]]
  BY <1>2 DEF TaskInv
<1>4. \A p \in Ops : p # o => task'[p] = task[p]
  BY <1>3 DEF TaskInv
<1>5. CASE /\ lock[Sys(o)] # None
           /\ SetTask(o, [task[o] EXCEPT !.pc = "blocked", !.kind = k])
           /\ UNCHANGED <<lock, active, aborted>>
  <2>1. /\ task'[o].pc = "blocked" /\ TaskOK(task'[o]) /\ task'[o].asked = task[o].asked
    BY <1>1, <1>5 DEF SetTask, TaskInv, TaskOK, Task, PcStates
  <2>2. TaskInv'
    BY <1>4, <1>3, <2>1 DEF TaskInv, TaskOK
  <2>3. LockInv'
    BY <1>1, <1>4, <1>5, <2>1 DEF LockInv, Sys, SectionStates
  <2>4. ActiveInv'
    BY <1>1, <1>4, <1>5, <2>1 DEF ActiveInv, Sys, SectionStates, Busy
  <2>5. CancelInv'
    BY <1>1, <1>4, <1>5, <2>1 DEF CancelInv, ActiveInv
  <2>6. PermitInv'
    BY <1>1, <1>4, <1>5, <2>1 DEF PermitInv, Holding, WithLock
  <2> QED BY <2>2, <2>3, <2>4, <2>5, <2>6
<1>6. CASE /\ lock[Sys(o)] = None
           /\ lock' = [lock EXCEPT ![Sys(o)] = o]
           /\ EnterSection(o, k)
  <2> DEFINE registers == task'[o].pc \in {"connecting", "starting"} /\ SetActive(o)
             rejected == task'[o].pc = "releasing" /\ UNCHANGED <<active, aborted>>
  <2>1. /\ TaskOK(task'[o]) /\ task'[o].asked = task[o].asked
        /\ registers \/ rejected
    <3>1. CASE k = "check" /\ SetActive(o)
               /\ SetTask(o, [task[o] EXCEPT !.kind = k, !.pc = "connecting", !.phase = "check"])
      BY <1>1, <3>1 DEF SetTask, TaskInv, TaskOK, Task, PcStates, Phases
    <3>2. CASE k # "check" /\ SetActive(o)
               /\ SetTask(o, [task[o] EXCEPT !.kind = k, !.pc = "starting"])
      BY <1>1, <3>2 DEF SetTask, TaskInv, TaskOK, Task, PcStates
    <3>3. CASE k = "select" /\ UNCHANGED <<active, aborted>>
               /\ SetTask(o, [task[o] EXCEPT !.kind = k, !.pc = "releasing", !.result = "failed"])
      BY <1>1, <3>3 DEF SetTask, TaskInv, TaskOK, Task, PcStates, Results
    <3> QED BY <1>6, <3>1, <3>2, <3>3 DEF EnterSection
  <2>2. TaskInv'
    BY <1>4, <1>3, <2>1 DEF TaskInv, TaskOK
  <2>3. task'[o].pc \in SectionStates /\ task'[o].pc \notin Holding /\ task[o].pc \notin Holding
    BY <1>1, <2>1 DEF SectionStates, PcStates, Holding
  <2>4. \A p \in Ops : Sys(p) = Sys(o) => task[p].pc \notin SectionStates
    BY <1>6 DEF LockInv
  <2>5. LockInv'
    BY <1>4, <1>6, <2>3, <2>4 DEF LockInv, Sys
  <2>6. \A p \in Ops : Sys(p) = Sys(o) => active[Sys(o)] # p
    BY <2>4 DEF ActiveInv, Busy
  <2>7. active[Sys(o)] = None
    BY <2>6 DEF ActiveInv, Sys
  <2>8. ActiveInv'
    <3>1. CASE registers
      <4>1. task'[o].pc \in Busy
        BY <3>1 DEF Busy, SectionStates, PcStates
      <4> QED BY <1>4, <2>4, <3>1, <4>1 DEF ActiveInv, Sys, SetActive, Busy
    <3>2. CASE rejected
      <4>1. task'[o].pc \notin Busy /\ task[o].pc \notin Busy
        BY <1>1, <3>2 DEF Busy, SectionStates
      <4> QED BY <1>4, <3>2, <4>1 DEF ActiveInv, Sys
    <3> QED BY <2>1, <3>1, <3>2
  <2>9. CancelInv'
    <3>1. CASE registers
      <4>1. \A s \in Systems : s # Sys(o) /\ active[s] # None => active[s] # o /\ active[s] \in Ops
        BY DEF ActiveInv
      <4> QED BY <1>4, <3>1, <4>1 DEF CancelInv, ActiveInv, SetActive
    <3>2. CASE rejected
      BY <1>4, <2>1, <3>2 DEF CancelInv, ActiveInv
    <3> QED BY <2>1, <3>1, <3>2
  <2>10. PermitInv'
    BY <1>4, <2>3 DEF PermitInv, WithLock
  <2> QED BY <2>2, <2>5, <2>8, <2>9, <2>10
<1> QED BY <1>5, <1>6 DEF WithLock
-----------------------------------------------------------------------------
(* Every step of a call has one of the two shapes. *)

\* The task t is a step of o inside its section.
MovesTo(o, t) ==
  /\ SetTask(o, t)
  /\ TaskOK(t) /\ t.pc \in Busy /\ t.asked = task[o].asked
  /\ connected' = IF t.pc \in Holding THEN connected \union {o} ELSE connected \ {o}
  /\ UNCHANGED <<lock, active, aborted>>

LEMMA MovesToMoves ==
  ASSUME IInv, NEW o \in Ops, task[o].pc \in Busy, \E t : MovesTo(o, t)
  PROVE  Moves(o)
<1>1. PICK t : MovesTo(o, t)
  OBVIOUS
<1>2. task'[o] = t
  BY <1>1 DEF MovesTo, SetTask, IInv, TaskInv
<1> QED BY <1>1, <1>2 DEF MovesTo, SetTask, Moves

\* A busy call whose signal is aborted was asked to stop.
LEMMA CancelledIsAsked ==
  ASSUME IInv, NEW o \in Ops, task[o].pc \in Busy, Cancelled(o)
  PROVE  task[o].asked
<1>1. active[Sys(o)] = o /\ Sys(o) \in Systems
  BY OperationsAssumption DEF IInv, ActiveInv, Sys
<1> QED BY <1>1, OperationsAssumption DEF IInv, CancelInv, Cancelled

\* The task t ends the operation of o with the result res.
EndsWith(o, t, res) ==
  /\ t \in Task /\ t.asked = task[o].asked
  /\ res \in Results
  /\ res = "cancelled" => Cancelled(o)
  /\ Finish(o, t, res)

LEMMA EndsWithEnds ==
  ASSUME IInv, NEW o \in Ops, task[o].pc \in Busy, \E t, res : EndsWith(o, t, res)
  PROVE  Ends(o)
<1>1. PICK t, res : EndsWith(o, t, res)
  OBVIOUS
<1> DEFINE u == [t EXCEPT !.pc = "releasing", !.result = res]
<1>2. t \in Task /\ res \in Results
  BY <1>1 DEF EndsWith
<1>3. u \in Task /\ u.pc = "releasing" /\ u.result = res /\ u.asked = t.asked
  BY <1>2 DEF Task, PcStates
<1>4. task' = [task EXCEPT ![o] = u]
  BY <1>1 DEF EndsWith, Finish, SetTask
<1>5. task'[o] = u
  BY <1>4 DEF IInv, TaskInv
<1>6. res = "cancelled" => t.asked
  BY <1>1, CancelledIsAsked DEF EndsWith
<1>7. res # None
  BY <1>2, OperationsAssumption
<1> HIDE DEF u
<1>8. TaskOK(u)
  BY <1>3, <1>6, <1>7 DEF TaskOK
<1> QED BY <1>1, <1>3, <1>4, <1>5, <1>8 DEF EndsWith, Finish, Ends

LEMMA LastReplaced ==
  ASSUME NEW S, NEW q \in Seq(S), NEW e \in S
  PROVE  [q EXCEPT ![Len(q)] = e] \in Seq(S)
<1>1. CASE Len(q) \in 1..Len(q)
  BY <1>1, ExceptSeq
<1>2. CASE Len(q) \notin 1..Len(q)
  <2>1. Len(q) \notin DOMAIN q
    BY <1>2, LenProperties
  <2>2. q = [i \in DOMAIN q |-> q[i]]
    BY SeqDef
  <2>3. [q EXCEPT ![Len(q)] = e] = q
    BY <2>1, <2>2
  <2> QED BY <2>3
<1> QED BY <1>1, <1>2

LEMMA RowFinished ==
  ASSUME NEW o \in Ops, task[o].rows \in Seq(RowStatus), NEW status \in RowStatus
  PROVE  LastRow(o, status) \in Seq(RowStatus)
<1>1. PICK q \in Seq(RowStatus) : q = task[o].rows
  OBVIOUS
<1>2. [q EXCEPT ![Len(q)] = status] \in Seq(RowStatus)
  BY LastReplaced
<1> QED BY <1>1, <1>2 DEF LastRow

\* Ending with the row of the command written.
LEMMA FinishRowEnds ==
  ASSUME IInv, NEW o \in Ops, task[o].pc \in Busy, NEW status \in RowStatus, NEW res \in Results,
         res = "cancelled" => Cancelled(o), FinishRow(o, status, res)
  PROVE  Ends(o)
<1> DEFINE t == [task[o] EXCEPT !.rows = LastRow(o, status), !.ok = @ /\ res # "failed"]
<1>1. task[o] \in Task
  BY DEF IInv, TaskInv
<1>2. task[o].rows \in Seq(RowStatus)
  BY <1>1 DEF Task
<1>3. t \in Task /\ t.asked = task[o].asked
  BY <1>1, <1>2, RowFinished DEF Task
<1>4. EndsWith(o, t, res)
  BY <1>3 DEF EndsWith, FinishRow
<1> QED BY <1>4, EndsWithEnds
\* The actions from the start of the section to the connection.
LEMMA BeginShape ==
  ASSUME IInv, NEW o \in Ops, NothingToDo(o) \/ Begin(o)
  PROVE  Moves(o) \/ Ends(o)
<1> DEFINE t == IF task[o].kind = "reboot" THEN [task[o] EXCEPT !.rows = <<"started">>] ELSE task[o]
           u == IF t.kind = "reboot" THEN [t EXCEPT !.rows = <<"cancelled">>] ELSE t
           v == [t EXCEPT !.pc = "connecting", !.phase = "main"]
<1>1. task[o] \in Task /\ TaskOK(task[o]) /\ task[o].pc = "starting"
  BY DEF NothingToDo, Begin, IInv, TaskInv
<1>2. task[o].pc \in Busy
  BY <1>1 DEF Busy, SectionStates, PcStates
<1>3. "starting" \notin Holding /\ "connecting" \notin Holding /\ "connecting" \in Busy
  BY DEF Holding, Busy, SectionStates, PcStates
<1>4. CASE NothingToDo(o)
  <2>1. EndsWith(o, task[o], "failed")
    BY <1>1, <1>4 DEF NothingToDo, EndsWith, Results
  <2> QED BY <1>2, <2>1, EndsWithEnds
<1>5. /\ t \in Task /\ t.asked = task[o].asked
      /\ t.pc = "starting" /\ t.step = 0 /\ t.result = None
  <2>1. <<"started">> \in Seq(RowStatus)
    BY DEF RowStatus
  <2> QED BY <1>1, <2>1 DEF TaskOK, Task
<1> HIDE DEF t
<1>6. CASE Cancelled(o) /\ Finish(o, u, "cancelled")
  <2>1. u \in Task /\ u.asked = task[o].asked
    <3>1. <<"cancelled">> \in Seq(RowStatus)
      BY DEF RowStatus
    <3> QED BY <1>5, <3>1 DEF Task
  <2>2. EndsWith(o, u, "cancelled")
    BY <1>6, <2>1 DEF EndsWith, Results
  <2> QED BY <1>2, <2>2, EndsWithEnds
<1>7. CASE SetTask(o, v) /\ UNCHANGED <<lock, active, aborted, connected>>
  <2>1. /\ v \in Task /\ v.asked = task[o].asked /\ v.pc = "connecting"
        /\ v.step = 0 /\ v.result = None
    BY <1>5 DEF Task, PcStates, Phases
  <2>2. TaskOK(v)
    <3> HIDE DEF v
    <3> QED BY <2>1, OperationsAssumption DEF TaskOK, Results
  <2>3. o \notin connected
    BY <1>1, <1>3 DEF IInv, PermitInv
  <2>4. MovesTo(o, v)
    BY <1>3, <1>7, <2>1, <2>2, <2>3 DEF MovesTo
  <2> QED BY <1>2, <2>4, MovesToMoves
<1> QED BY <1>4, <1>6, <1>7 DEF Begin, t

LEMMA TakePermitShape ==
  ASSUME IInv, NEW o \in Ops, TakePermit(o)
  PROVE  Moves(o)
<1> DEFINE t == [task[o] EXCEPT !.pc = "dialing"]
<1>1. task[o] \in Task /\ TaskOK(task[o]) /\ task[o].pc = "connecting"
  BY DEF TakePermit, IInv, TaskInv
<1>2. task[o].pc \in Busy /\ "dialing" \in Busy /\ "dialing" \in Holding
  BY <1>1 DEF Busy, SectionStates, PcStates, Holding
<1>3. TaskOK(t) /\ t.pc = "dialing" /\ t.asked = task[o].asked
  BY <1>1 DEF TaskOK, Task, PcStates
<1>4. MovesTo(o, t)
  BY <1>2, <1>3 DEF MovesTo, TakePermit, Goto
<1> QED BY <1>2, <1>4, MovesToMoves

\* A step to a label that asks nothing of the step or of the number of checks.
LEMMA GotoMoves ==
  ASSUME IInv, NEW o \in Ops, task[o].pc \in Busy,
         NEW label \in {"reconnecting", "rechecking", "checking", "resuming"},
         Goto(o, label), UNCHANGED <<lock, active, aborted>>,
         connected' = IF label \in Holding THEN connected \union {o} ELSE connected \ {o}
  PROVE  Moves(o)
<1> DEFINE t == [task[o] EXCEPT !.pc = label]
<1>1. task[o] \in Task /\ TaskOK(task[o])
  BY DEF IInv, TaskInv
<1>2. label \in Busy /\ label \in PcStates
  BY DEF Busy, SectionStates, PcStates
<1>3. t.pc = label /\ t.asked = task[o].asked /\ t \in Task /\ t.result = task[o].result
  BY <1>1, <1>2 DEF Task
<1>4. task[o].pc \notin {"releasing", "done"}
  BY DEF Busy, SectionStates
<1>5. TaskOK(t)
  BY <1>1, <1>3, <1>4, OperationsAssumption DEF TaskOK, Results
<1>6. MovesTo(o, t)
  BY <1>2, <1>3, <1>5 DEF MovesTo, Goto
<1> QED BY <1>6, MovesToMoves
\* Ending without touching the rows, and ending with other rows.
LEMMA KeepRowsEnds ==
  ASSUME IInv, NEW o \in Ops, task[o].pc \in Busy, NEW res \in Results,
         res = "cancelled" => Cancelled(o), Finish(o, task[o], res)
  PROVE  Ends(o)
<1>1. task[o] \in Task
  BY DEF IInv, TaskInv
<1>2. EndsWith(o, task[o], res)
  BY <1>1 DEF EndsWith
<1> QED BY <1>2, EndsWithEnds

LEMMA NewRowsEnds ==
  ASSUME IInv, NEW o \in Ops, task[o].pc \in Busy, NEW res \in Results,
         res = "cancelled" => Cancelled(o),
         \E rows \in Seq(RowStatus) : Finish(o, [task[o] EXCEPT !.rows = rows], res)
  PROVE  Ends(o)
<1>1. PICK rows \in Seq(RowStatus) : Finish(o, [task[o] EXCEPT !.rows = rows], res)
  OBVIOUS
<1> DEFINE t == [task[o] EXCEPT !.rows = rows]
<1>2. task[o] \in Task
  BY DEF IInv, TaskInv
<1>3. t \in Task /\ t.asked = task[o].asked
  BY <1>2 DEF Task
<1>4. EndsWith(o, t, res)
  BY <1>1, <1>3 DEF EndsWith
<1> QED BY <1>4, EndsWithEnds

LEMMA RowSequences ==
  /\ <<>> \in Seq(RowStatus)
  /\ \A status \in RowStatus : <<status>> \in Seq(RowStatus)
  /\ \A rows \in Seq(RowStatus), status \in RowStatus : Append(rows, status) \in Seq(RowStatus)
OBVIOUS

\* A connection that could not be made.
LEMMA DialFailsShape ==
  ASSUME IInv, NEW o \in Ops, DialFails(o)
  PROVE  Moves(o) \/ Ends(o)
<1> USE DEF Results, RowStatus
<1>1. task[o] \in Task /\ TaskOK(task[o]) /\ task[o].pc = "dialing"
  BY DEF DialFails, IInv, TaskInv
<1>2. task[o].pc \in Busy
  BY <1>1 DEF Busy, SectionStates, PcStates
<1>3. CASE \E rows \in {<<>>, <<"failed">>} : Finish(o, [task[o] EXCEPT !.rows = rows], "failed")
  BY <1>2, <1>3, RowSequences, NewRowsEnds
<1>4. CASE Finish(o, [task[o] EXCEPT !.rows = <<"failed">>], "success")
  BY <1>2, <1>4, RowSequences, NewRowsEnds
<1>5. CASE \E res \in {"success", "failed"} : Finish(o, task[o], res)
  BY <1>2, <1>5, KeepRowsEnds
<1>6. CASE /\ Goto(o, "reconnecting")
           /\ connected' = connected \ {o}
           /\ UNCHANGED <<lock, active, aborted>>
  BY <1>2, <1>6, GotoMoves DEF Holding
<1>7. CASE /\ task[o].checks < CheckRetries /\ task[o].phase = "verify"
           /\ Goto(o, "verifyWait")
           /\ connected' = connected \ {o}
           /\ UNCHANGED <<lock, active, aborted>>
  <2> DEFINE t == [task[o] EXCEPT !.pc = "verifyWait"]
  <2>1. TaskOK(t) /\ t.pc = "verifyWait" /\ t.asked = task[o].asked
    BY <1>1, <1>7 DEF TaskOK, Task, PcStates
  <2>2. MovesTo(o, t)
    BY <1>7, <2>1 DEF MovesTo, Goto, Holding, Busy, SectionStates, PcStates
  <2> QED BY <1>2, <2>2, MovesToMoves
<1>8. CASE FinishRow(o, "failed", "failed")
  BY <1>2, <1>8, FinishRowEnds
<1> QED BY <1>3, <1>4, <1>5, <1>6, <1>7, <1>8 DEF DialFails, LoopResult

\* A connection that was made.
LEMMA DialSucceedsShape ==
  ASSUME IInv, NEW o \in Ops, DialSucceeds(o)
  PROVE  Moves(o) \/ Ends(o)
<1> USE DEF Results, RowStatus
<1>1. task[o] \in Task /\ TaskOK(task[o]) /\ task[o].pc = "dialing"
  BY DEF DialSucceeds, IInv, TaskInv
<1>2. task[o].pc \in Busy
  BY <1>1 DEF Busy, SectionStates, PcStates
<1>3. connected = connected \union {o}
  BY <1>1 DEF IInv, PermitInv, Holding
<1>4. CASE Cancelled(o) /\ \E rows \in {<<"cancelled">>} : Finish(o, [task[o] EXCEPT !.rows = rows], "cancelled")
  BY <1>2, <1>4, RowSequences, NewRowsEnds
<1>5. CASE Cancelled(o) /\ Finish(o, task[o], "cancelled")
  BY <1>2, <1>5, KeepRowsEnds
<1>6. CASE /\ task[o].phase = "main"
           /\ Goto(o, IF task[o].kind \in LoopKinds THEN "loop" ELSE "running")
           /\ UNCHANGED <<lock, active, aborted, connected>>
  <2> DEFINE label == IF task[o].kind \in LoopKinds THEN "loop" ELSE "running"
             t == [task[o] EXCEPT !.pc = label]
  <2>1. label \in Busy /\ label \in Holding /\ label \in PcStates /\ label \in {"loop", "running"}
    BY DEF Busy, SectionStates, PcStates, Holding
  <2> HIDE DEF label
  <2>2. TaskOK(t) /\ t.pc = label /\ t.asked = task[o].asked
    BY <1>1, <1>6, <2>1, OperationsAssumption DEF TaskOK, Task
  <2>3. MovesTo(o, t)
    BY <1>3, <1>6, <2>1, <2>2 DEF MovesTo, Goto, label
  <2> QED BY <1>2, <2>3, MovesToMoves
<1>7. CASE /\ Goto(o, "reconnecting")
           /\ connected' = connected \ {o}
           /\ UNCHANGED <<lock, active, aborted>>
  BY <1>2, <1>7, GotoMoves DEF Holding
<1>8. CASE /\ Goto(o, "checking") \/ Goto(o, "resuming")
           /\ UNCHANGED <<lock, active, aborted, connected>>
  BY <1>2, <1>3, <1>8, GotoMoves DEF Holding
<1> QED BY <1>4, <1>5, <1>6, <1>7, <1>8 DEF DialSucceeds
\* The silent check at the end: t is the task with what the commands left.
LEMMA RecheckShape ==
  ASSUME IInv, NEW o \in Ops, task[o].pc \in Busy,
         \E rows \in Seq(RowStatus) : Recheck(o, [task[o] EXCEPT !.rows = rows])
  PROVE  Moves(o) \/ Ends(o)
<1>1. PICK rows \in Seq(RowStatus) : Recheck(o, [task[o] EXCEPT !.rows = rows])
  OBVIOUS
<1> DEFINE u == [task[o] EXCEPT !.rows = rows]
           v == [u EXCEPT !.pc = "connecting", !.phase = "recheck"]
<1>2. task[o] \in Task /\ TaskOK(task[o]) /\ task[o].pc \notin {"releasing", "done"}
  BY DEF IInv, TaskInv, Busy, SectionStates
<1>3. CASE Cancelled(o) /\ Finish(o, u, "cancelled")
  BY <1>3, NewRowsEnds DEF Results
<1>4. CASE /\ SetTask(o, v)
           /\ connected' = connected \ {o}
           /\ UNCHANGED <<lock, active, aborted>>
  <2>1. u \in Task /\ u.asked = task[o].asked /\ u.result = None
    BY <1>2 DEF Task, TaskOK
  <2> HIDE DEF u
  <2>2. /\ v \in Task /\ v.pc = "connecting" /\ v.phase = "recheck"
        /\ v.asked = task[o].asked /\ v.result = None
    BY <2>1 DEF Task, PcStates, Phases
  <2> HIDE DEF v
  <2>3. TaskOK(v)
    BY <2>2, OperationsAssumption DEF TaskOK, Results
  <2>4. MovesTo(o, v)
    BY <1>4, <2>2, <2>3 DEF MovesTo, Busy, Holding, SectionStates, PcStates
  <2> QED BY <2>4, MovesToMoves
<1> QED BY <1>1, <1>3, <1>4 DEF Recheck

\* One turn of the loop.
LEMMA LoopStepShape ==
  ASSUME IInv, NEW o \in Ops, LoopStep(o)
  PROVE  Moves(o) \/ Ends(o)
<1>1. task[o] \in Task /\ TaskOK(task[o]) /\ task[o].pc = "loop"
  BY DEF LoopStep, IInv, TaskInv
<1>2. /\ task[o].pc \in Busy /\ "running" \in Busy /\ "running" \in Holding
      /\ "loop" \in Busy /\ "loop" \in Holding
  BY <1>1 DEF Busy, SectionStates, PcStates, Holding
<1>3. connected = connected \union {o}
  BY <1>1 DEF IInv, PermitInv, Holding
<1>4. CASE Cancelled(o) /\ Finish(o, task[o], "cancelled")
  BY <1>2, <1>4, KeepRowsEnds DEF Results
<1>5. CASE /\ task[o].step < Managers
           /\ SetTask(o, [task[o] EXCEPT !.pc = "running", !.rows = Append(@, "started")])
           /\ UNCHANGED <<lock, active, aborted, connected>>
  <2> DEFINE t == [task[o] EXCEPT !.pc = "running", !.rows = Append(@, "started")]
  <2>1. Append(task[o].rows, "started") \in Seq(RowStatus)
    BY <1>1, RowSequences DEF Task, RowStatus
  <2>2. TaskOK(t) /\ t.pc = "running" /\ t.asked = task[o].asked
    BY <1>1, <1>5, <2>1 DEF TaskOK, Task, PcStates
  <2>3. MovesTo(o, t)
    BY <1>2, <1>3, <1>5, <2>2 DEF MovesTo
  <2> QED BY <1>2, <2>3, MovesToMoves
<1>6. CASE /\ task[o].step < Managers
           /\ SetTask(o, [task[o] EXCEPT !.step = @ + 1, !.ok = @ /\ task[o].kind # "select"])
           /\ UNCHANGED <<lock, active, aborted, connected>>
  <2> DEFINE t == [task[o] EXCEPT !.step = @ + 1, !.ok = @ /\ task[o].kind # "select"]
  <2>1. task[o].step + 1 \in 0..Managers
    BY <1>1, <1>6, OperationsAssumption DEF Task
  <2>2. TaskOK(t) /\ t.pc = "loop" /\ t.asked = task[o].asked
    BY <1>1, <2>1 DEF TaskOK, Task
  <2>3. MovesTo(o, t)
    BY <1>2, <1>3, <1>6, <2>2 DEF MovesTo
  <2> QED BY <1>2, <2>3, MovesToMoves
<1>7. CASE /\ Goto(o, "rechecking")
           /\ connected' = connected \ {o}
           /\ UNCHANGED <<lock, active, aborted>>
  BY <1>2, <1>7, GotoMoves DEF Holding
<1> QED BY <1>4, <1>5, <1>6, <1>7 DEF LoopStep

\* How a command of the loop ends.
LEMMA CommandShape ==
  ASSUME IInv, NEW o \in Ops,
         CommandEnds(o) \/ CommandCancelled(o) \/ CommandThrows(o) \/ MonitoringLost(o)
  PROVE  Moves(o) \/ Ends(o)
<1>1. task[o] \in Task /\ TaskOK(task[o]) /\ task[o].pc = "running"
  BY DEF CommandEnds, CommandCancelled, CommandThrows, MonitoringLost, IInv, TaskInv
<1>2. /\ task[o].pc \in Busy /\ "loop" \in Busy /\ "loop" \in Holding
      /\ task[o].rows \in Seq(RowStatus)
  BY <1>1 DEF Busy, SectionStates, PcStates, Holding, Task
<1>3. connected = connected \union {o}
  BY <1>1 DEF IInv, PermitInv, Holding
<1>4. CASE CommandEnds(o)
  <2>1. PICK status \in {"success", "failed"} :
          SetTask(o, [task[o] EXCEPT !.pc = "loop", !.step = @ + 1, !.rows = LastRow(o, status),
                                     !.ok = @ /\ status = "success"])
    BY <1>4 DEF CommandEnds
  <2> DEFINE t == [task[o] EXCEPT !.pc = "loop", !.step = @ + 1, !.rows = LastRow(o, status),
                                  !.ok = @ /\ status = "success"]
  <2>2. LastRow(o, status) \in Seq(RowStatus)
    BY <1>2, RowFinished DEF RowStatus
  <2>3. task[o].step + 1 \in 0..Managers
    BY <1>1, OperationsAssumption DEF TaskOK, Task
  <2>4. TaskOK(t) /\ t.pc = "loop" /\ t.asked = task[o].asked
    BY <1>1, <2>2, <2>3 DEF TaskOK, Task, PcStates
  <2>5. MovesTo(o, t)
    BY <1>2, <1>3, <1>4, <2>1, <2>4 DEF MovesTo, CommandEnds
  <2> QED BY <1>2, <2>5, MovesToMoves
<1>5. CASE CommandCancelled(o)
  BY <1>2, <1>5, FinishRowEnds DEF CommandCancelled, RowStatus, Results
<1>6. CASE CommandThrows(o)
  <2>1. Append(task[o].rows, "failed") \in Seq(RowStatus)
    BY <1>2, RowSequences DEF RowStatus
  <2> QED BY <1>2, <1>6, <2>1, NewRowsEnds DEF CommandThrows, Results
<1>7. CASE MonitoringLost(o)
  <2>1. CASE /\ Goto(o, "reconnecting")
             /\ connected' = connected \ {o}
             /\ UNCHANGED <<lock, active, aborted>>
    BY <1>2, <2>1, GotoMoves DEF Holding
  <2>2. CASE FinishRow(o, "warning", "failed")
    BY <1>2, <2>2, FinishRowEnds DEF RowStatus, Results
  <2> QED BY <1>7, <2>1, <2>2 DEF MonitoringLost
<1> QED BY <1>4, <1>5, <1>6, <1>7
\* A command of a reboot or of a repair that is followed by another one.
LEMMA NextCommandMoves ==
  ASSUME IInv, NEW o \in Ops, task[o].pc = "running", task[o].step + 1 < Managers,
         SetTask(o, [task[o] EXCEPT !.step = @ + 1]),
         UNCHANGED <<lock, active, aborted, connected>>
  PROVE  Moves(o)
<1> DEFINE t == [task[o] EXCEPT !.step = @ + 1]
<1>1. task[o] \in Task /\ TaskOK(task[o])
  BY DEF IInv, TaskInv
<1>2. task[o].pc \in Busy /\ task[o].pc \in Holding
  BY DEF Busy, SectionStates, PcStates, Holding
<1>3. connected = connected \union {o}
  BY <1>2 DEF IInv, PermitInv
<1>4. task[o].step + 1 \in 0..Managers
  BY <1>1, OperationsAssumption DEF Task
<1>5. TaskOK(t) /\ t.pc = task[o].pc /\ t.asked = task[o].asked
  BY <1>1, <1>4 DEF TaskOK, Task
<1>6. MovesTo(o, t)
  BY <1>2, <1>3, <1>5 DEF MovesTo
<1> QED BY <1>2, <1>6, MovesToMoves

LEMMA RebootRepairShape ==
  ASSUME IInv, NEW o \in Ops, RebootCommand(o) \/ RepairCommand(o)
  PROVE  Moves(o) \/ Ends(o)
<1> USE DEF Results, RowStatus
<1>1. task[o] \in Task /\ task[o].pc = "running"
  BY DEF RebootCommand, RepairCommand, IInv, TaskInv
<1>2. task[o].pc \in Busy /\ task[o].rows \in Seq(RowStatus)
  BY <1>1 DEF Busy, SectionStates, PcStates, Task
<1>3. CASE /\ task[o].step + 1 < Managers
           /\ SetTask(o, [task[o] EXCEPT !.step = @ + 1])
           /\ UNCHANGED <<lock, active, aborted, connected>>
  BY <1>1, <1>3, NextCommandMoves
<1>4. CASE \E status \in {"success", "failed"} : FinishRow(o, status, status)
  BY <1>2, <1>4, FinishRowEnds
<1>5. \A status \in RowStatus : Append(task[o].rows, status) \in Seq(RowStatus)
  BY <1>2, RowSequences
<1>6. CASE Recheck(o, [task[o] EXCEPT !.rows = Append(@, "success")])
  BY <1>2, <1>5, <1>6, RecheckShape
<1>7. CASE \E status \in {"failed", "cancelled"} :
             /\ status = "cancelled" => Cancelled(o)
             /\ Finish(o, [task[o] EXCEPT !.rows = Append(@, status)], status)
  BY <1>2, <1>5, <1>7, NewRowsEnds
<1>8. CASE Finish(o, task[o], "failed")
  BY <1>2, <1>8, KeepRowsEnds
<1>9. CASE RebootCommand(o)
  BY <1>3, <1>4, <1>9 DEF RebootCommand
<1>10. CASE RepairCommand(o)
  BY <1>3, <1>6, <1>7, <1>8, <1>10 DEF RepairCommand
<1> QED BY <1>9, <1>10

\* The checks: the call itself, and the silent one after an operation.
LEMMA CheckShape ==
  ASSUME IInv, NEW o \in Ops, StartRecheck(o) \/ CheckEnds(o) \/ RecheckEnds(o)
  PROVE  Moves(o) \/ Ends(o)
<1> USE DEF Results, RowStatus
<1>1. task[o] \in Task /\ task[o].pc \in {"rechecking", "checking"}
  BY DEF StartRecheck, CheckEnds, RecheckEnds, IInv, TaskInv
<1>2. task[o].pc \in Busy /\ task[o].rows \in Seq(RowStatus)
  BY <1>1 DEF Busy, SectionStates, PcStates, Task
<1>3. CASE StartRecheck(o)
  <2>1. task[o] = [task[o] EXCEPT !.rows = task[o].rows]
    BY <1>1 DEF Task
  <2>2. Recheck(o, [task[o] EXCEPT !.rows = task[o].rows])
    BY <1>3, <2>1 DEF StartRecheck
  <2> QED BY <1>2, <2>2, RecheckShape
<1>4. CASE \E res \in Results : /\ res = "cancelled" => Cancelled(o)
                                /\ Finish(o, task[o], res)
  BY <1>2, <1>4, KeepRowsEnds
<1>5. CASE \E status \in RowStatus, res \in Results :
             /\ res = "cancelled" => Cancelled(o)
             /\ Finish(o, [task[o] EXCEPT !.rows = <<status>>], res)
  BY <1>2, <1>5, RowSequences, NewRowsEnds
<1>6. CASE CheckEnds(o)
  BY <1>4, <1>5, <1>6 DEF CheckEnds
<1>7. CASE RecheckEnds(o)
  BY <1>4, <1>7 DEF RecheckEnds, LoopResult
<1> QED BY <1>3, <1>6, <1>7

\* The reconnection.
LEMMA ReconnectedEnds ==
  ASSUME IInv, NEW o \in Ops, task[o].pc \in Busy, Reconnected(o)
  PROVE  Ends(o)
BY FinishRowEnds DEF Reconnected, RowStatus, Results

LEMMA ReconnectShape ==
  ASSUME IInv, NEW o \in Ops, AttemptConnect(o) \/ GiveUp(o) \/ ResumeEnds(o)
  PROVE  Moves(o) \/ Ends(o)
<1>1. /\ task[o] \in Task /\ TaskOK(task[o])
      /\ task[o].pc \in {"reconnecting", "resuming"}
  BY DEF AttemptConnect, GiveUp, ResumeEnds, IInv, TaskInv
<1>2. /\ task[o].pc \in Busy /\ task[o].result = None
      /\ "connecting" \in Busy /\ "connecting" \notin Holding
  BY <1>1 DEF Busy, SectionStates, PcStates, Holding, TaskOK
<1>3. CASE AttemptConnect(o)
  <2> DEFINE t == [task[o] EXCEPT !.pc = "connecting", !.phase = "resume", !.tries = @ + 1]
  <2>1. task[o].tries + 1 \in 0..MaxAttempts
    BY <1>1, <1>3, OperationsAssumption DEF Task, AttemptConnect
  <2>2. TaskOK(t) /\ t.pc = "connecting" /\ t.asked = task[o].asked
    BY <1>1, <2>1 DEF TaskOK, Task, PcStates, Phases
  <2>3. connected = connected \ {o}
    BY <1>3 DEF AttemptConnect, IInv, PermitInv, Holding
  <2>4. MovesTo(o, t)
    BY <1>2, <1>3, <2>2, <2>3 DEF MovesTo, AttemptConnect
  <2> QED BY <1>2, <2>4, MovesToMoves
<1>4. CASE GiveUp(o)
  BY <1>2, <1>4, FinishRowEnds DEF GiveUp, RowStatus, Results
<1>5. CASE ResumeEnds(o)
  <2>1. CASE Reconnected(o)
    BY <1>2, <2>1, ReconnectedEnds
  <2>2. CASE /\ Goto(o, "reconnecting")
             /\ connected' = connected \ {o}
             /\ UNCHANGED <<lock, active, aborted>>
    BY <1>2, <2>2, GotoMoves DEF Holding
  <2>3. CASE /\ SetTask(o, [task[o] EXCEPT !.pc = "connecting", !.phase = "verify", !.checks = 1])
             /\ connected' = connected \ {o}
             /\ UNCHANGED <<lock, active, aborted>>
    <3> DEFINE t == [task[o] EXCEPT !.pc = "connecting", !.phase = "verify", !.checks = 1]
    <3>1. 1 \in 0..CheckRetries
      BY OperationsAssumption
    <3>2. TaskOK(t) /\ t.pc = "connecting" /\ t.asked = task[o].asked
      BY <1>1, <3>1 DEF TaskOK, Task, PcStates, Phases
    <3>3. MovesTo(o, t)
      BY <1>2, <2>3, <3>2 DEF MovesTo
    <3> QED BY <1>2, <3>3, MovesToMoves
  <2> QED BY <1>5, <2>1, <2>2, <2>3 DEF ResumeEnds
<1> QED BY <1>3, <1>4, <1>5

LEMMA VerifyShape ==
  ASSUME IInv, NEW o \in Ops, VerifyEnds(o) \/ RetryVerify(o)
  PROVE  Moves(o) \/ Ends(o)
<1>1. /\ task[o] \in Task /\ TaskOK(task[o])
      /\ task[o].pc \in {"checking", "verifyWait"}
  BY DEF VerifyEnds, RetryVerify, IInv, TaskInv
<1>2. /\ task[o].pc \in Busy /\ "verifyWait" \in Busy /\ "connecting" \in Busy
      /\ "verifyWait" \notin Holding /\ "connecting" \notin Holding
  BY <1>1 DEF Busy, SectionStates, PcStates, Holding
<1>3. CASE Reconnected(o)
  BY <1>2, <1>3, ReconnectedEnds
<1>4. CASE /\ Goto(o, "reconnecting")
           /\ connected' = connected \ {o}
           /\ UNCHANGED <<lock, active, aborted>>
  BY <1>2, <1>4, GotoMoves DEF Holding
<1>5. CASE /\ task[o].checks < CheckRetries /\ task[o].phase = "verify"
           /\ Goto(o, "verifyWait")
           /\ connected' = connected \ {o}
           /\ UNCHANGED <<lock, active, aborted>>
  <2> DEFINE t == [task[o] EXCEPT !.pc = "verifyWait"]
  <2>1. TaskOK(t) /\ t.pc = "verifyWait" /\ t.asked = task[o].asked
    BY <1>1, <1>5 DEF TaskOK, Task, PcStates
  <2>2. MovesTo(o, t)
    BY <1>2, <1>5, <2>1 DEF MovesTo, Goto
  <2> QED BY <1>2, <2>2, MovesToMoves
<1>6. CASE RetryVerify(o)
  <2>1. connected = connected \ {o}
    BY <1>6 DEF RetryVerify, IInv, PermitInv, Holding
  <2>2. CASE Goto(o, "reconnecting")
    BY <1>2, <1>6, <2>1, <2>2, GotoMoves DEF RetryVerify, Holding
  <2>3. CASE ~Cancelled(o)
    <3> DEFINE t == [task[o] EXCEPT !.pc = "connecting", !.checks = @ + 1]
    <3>1. task[o].checks + 1 \in 0..CheckRetries /\ task[o].pc = "verifyWait"
      BY <1>1, <1>6, OperationsAssumption DEF Task, TaskOK, RetryVerify
    <3>2. TaskOK(t) /\ t.pc = "connecting" /\ t.asked = task[o].asked
      BY <1>1, <3>1 DEF TaskOK, Task, PcStates
    <3>3. MovesTo(o, t)
      BY <1>2, <1>6, <2>1, <2>3, <3>2 DEF MovesTo, RetryVerify
    <3> QED BY <1>2, <3>3, MovesToMoves
  <2> QED BY <1>6, <2>2, <2>3 DEF RetryVerify
<1> QED BY <1>3, <1>4, <1>5, <1>6 DEF VerifyEnds

-----------------------------------------------------------------------------
(* The history rows of a call, on top of the invariant. *)

\* The commands behind these rows have ended; ok says that all succeeded.
Settled(rows, ok) ==
  \A i \in 1..Len(rows) : rows[i] \in {"success", "failed"} /\ (ok => rows[i] = "success")

\* The last row is that of the command in progress.
OpenLast(rows, ok) ==
  /\ Len(rows) > 0
  /\ rows[Len(rows)] = "started"
  /\ \A i \in 1..Len(rows) - 1 :
       rows[i] \in {"success", "failed"} /\ (ok => rows[i] = "success")

\* What rows a call has at each label.
OpenFit(pc, kind, phase, ok, rows) ==
  /\ pc \in {"new", "blocked", "woken", "starting"} => rows = <<>> /\ ok
  /\ pc = "starting" => kind # "check"
  /\ pc \in {"loop", "rechecking"} => kind \in LoopKinds /\ Settled(rows, ok)
  /\ pc = "running" => /\ kind # "check"
                       /\ kind = "repair" => rows = <<>> /\ ok
                       /\ kind # "repair" => OpenLast(rows, ok)
                       /\ kind = "reboot" => ok
  /\ pc \in {"reconnecting", "resuming", "verifyWait"} => OpenLast(rows, ok)
  /\ pc \in {"connecting", "dialing", "checking"} =>
       /\ phase = "main" => /\ pc # "checking" /\ kind # "check" /\ ok
                            /\ kind = "reboot" => OpenLast(rows, ok)
                            /\ kind # "reboot" => rows = <<>>
       /\ phase = "check" => kind = "check" /\ rows = <<>>
       /\ phase \in {"resume", "verify"} => OpenLast(rows, ok)
       /\ phase = "recheck" => Settled(rows, ok)

\* The two properties, of one call that is over.
EndFit(kind, rows, res) ==
  /\ \A i \in 1..Len(rows) :
       rows[i] = "started" => i + 1 = Len(rows) /\ rows[i + 1] = "failed"
  /\ kind # "check" /\ res = "success" => \A i \in 1..Len(rows) : rows[i] = "success"
  /\ kind # "check" /\ res = "warning" =>
       /\ rows # <<>>
       /\ \A i \in 1..Len(rows) : rows[i] = IF i = Len(rows) THEN "warning" ELSE "success"

RowsFit(t) == IF t.result = None THEN OpenFit(t.pc, t.kind, t.phase, t.ok, t.rows)
                                 ELSE EndFit(t.kind, t.rows, t.result)

RowsInv == \A o \in Ops : RowsFit(task[o])

\* A command is launched after settled rows, and its row is settled by its end.
LEMMA LaunchedRow ==
  ASSUME NEW q \in Seq(RowStatus), NEW ok \in BOOLEAN, Settled(q, ok)
  PROVE  OpenLast(Append(q, "started"), ok)
BY DEF Settled, OpenLast, RowStatus

LEMMA AllButLast ==
  ASSUME NEW n \in Nat
  PROVE  \A i \in 1..n : i # n => i \in 1..n - 1
OBVIOUS

LEMMA SettledRow ==
  ASSUME NEW q \in Seq(RowStatus), NEW ok \in BOOLEAN, OpenLast(q, ok),
         NEW status \in {"success", "failed"}
  PROVE  Settled([q EXCEPT ![Len(q)] = status], ok /\ status = "success")
<1> DEFINE r == [q EXCEPT ![Len(q)] = status]
<1>1. Len(q) \in Nat /\ Len(q) > 0 /\ DOMAIN q = 1..Len(q)
  BY DEF OpenLast
<1>2. r \in Seq(RowStatus)
  BY LastReplaced DEF RowStatus
<1>3. DOMAIN r = 1..Len(q)
  BY <1>1
<1>4. Len(r) = Len(q)
  BY <1>1, <1>2, <1>3
<1>5. \A i \in 1..Len(q) : r[i] = IF i = Len(q) THEN status ELSE q[i]
  BY <1>1
<1> HIDE DEF r
<1>6. \A i \in 1..Len(q) : i # Len(q) => i \in 1..Len(q) - 1
  BY <1>1, AllButLast
<1>7. \A i \in 1..Len(r) : r[i] \in {"success", "failed"}
  BY <1>4, <1>5, <1>6 DEF OpenLast
<1>8. ASSUME ok /\ status = "success" PROVE \A i \in 1..Len(r) : r[i] = "success"
  BY <1>4, <1>5, <1>6, <1>7, <1>8 DEF OpenLast, Settled
<1>9. Settled(r, ok /\ status = "success")
  BY <1>7, <1>8 DEF Settled
<1> QED BY <1>9 DEF r

\* What the end of an operation makes of its rows.
LEMMA EndOfRow ==
  ASSUME NEW q \in Seq(RowStatus), NEW ok \in BOOLEAN, OpenLast(q, ok), NEW kind,
         NEW status \in RowStatus \ {"started"}, NEW res,
         res = "success" => ok /\ status = "success",
         res = "warning" => ok /\ status = "warning"
  PROVE  EndFit(kind, [q EXCEPT ![Len(q)] = status], res)
<1> DEFINE r == [q EXCEPT ![Len(q)] = status]
<1>1. Len(q) \in Nat /\ Len(q) > 0 /\ DOMAIN q = 1..Len(q)
  BY DEF OpenLast
<1>2. r \in Seq(RowStatus)
  BY LastReplaced
<1>3. DOMAIN r = 1..Len(q)
  BY <1>1
<1>4. Len(r) = Len(q) /\ r # <<>>
  BY <1>1, <1>2, <1>3
<1>5. \A i \in 1..Len(q) : r[i] = IF i = Len(q) THEN status ELSE q[i]
  BY <1>1
<1> HIDE DEF r
<1>6. \A i \in 1..Len(q) : i # Len(q) => i \in 1..Len(q) - 1
  BY <1>1, AllButLast
<1>7. \A i \in 1..Len(r) : r[i] # "started"
  BY <1>4, <1>5, <1>6 DEF OpenLast
<1>8. ASSUME res = "success" PROVE \A i \in 1..Len(r) : r[i] = "success"
  BY <1>4, <1>5, <1>6, <1>8 DEF OpenLast
<1>9. ASSUME res = "warning"
      PROVE  \A i \in 1..Len(r) : r[i] = IF i = Len(r) THEN "warning" ELSE "success"
  BY <1>4, <1>5, <1>6, <1>9 DEF OpenLast
<1>10. EndFit(kind, r, res)
  BY <1>4, <1>7, <1>8, <1>9 DEF EndFit
<1> QED BY <1>10 DEF r

LEMMA EndAfterThrow ==
  ASSUME NEW q \in Seq(RowStatus), NEW ok \in BOOLEAN, OpenLast(q, ok), NEW kind
  PROVE  EndFit(kind, Append(q, "failed"), "failed")
<1> DEFINE r == Append(q, "failed")
<1>1. /\ Len(q) \in Nat /\ Len(r) = Len(q) + 1 /\ r[Len(q) + 1] = "failed"
      /\ \A i \in 1..Len(q) : r[i] = q[i]
  BY DEF RowStatus
<1> HIDE DEF r
<1>2. \A i \in 1..Len(r) : r[i] = "started" => i + 1 = Len(r) /\ r[i + 1] = "failed"
  BY <1>1 DEF OpenLast
<1>3. EndFit(kind, r, "failed")
  BY <1>2 DEF EndFit
<1> QED BY <1>3 DEF r

LEMMA EndOfSettled ==
  ASSUME NEW q \in Seq(RowStatus), NEW ok \in BOOLEAN, Settled(q, ok), NEW kind, NEW res,
         res = "success" => ok, res # "warning"
  PROVE  EndFit(kind, q, res)
BY DEF Settled, EndFit

\* A single row, or none.
LEMMA EndOfOne ==
  ASSUME NEW rows \in {<<>>} \union {<<status>> : status \in RowStatus \ {"started"}},
         NEW kind, NEW res, kind = "check" \/ res \notin {"success", "warning"}
  PROVE  EndFit(kind, rows, res)
BY DEF EndFit, RowStatus
\* What a step makes of the rows of its call.
LEMMA TaskSet ==
  ASSUME IInv, NEW o \in Ops, NEW t, SetTask(o, t)
  PROVE  task'[o] = t
BY DEF IInv, TaskInv, SetTask

LEMMA FinishFits ==
  ASSUME IInv, NEW o \in Ops, NEW t \in Task, NEW res \in Results, Finish(o, t, res),
         EndFit(t.kind, t.rows, res)
  PROVE  RowsFit(task'[o])
<1> DEFINE u == [t EXCEPT !.pc = "releasing", !.result = res]
<1>1. task'[o] = u
  BY TaskSet DEF Finish
<1>2. u.result = res /\ u.kind = t.kind /\ u.rows = t.rows
  BY DEF Task
<1>3. res # None
  BY OperationsAssumption
<1> QED BY <1>1, <1>2, <1>3 DEF RowsFit

LEMMA FinishRowFits ==
  ASSUME IInv, NEW o \in Ops, OpenLast(task[o].rows, task[o].ok),
         NEW status \in RowStatus \ {"started"}, NEW res \in Results, FinishRow(o, status, res),
         res = "success" => task[o].ok /\ status = "success",
         res = "warning" => task[o].ok /\ status = "warning"
  PROVE  RowsFit(task'[o])
<1> DEFINE t == [task[o] EXCEPT !.rows = LastRow(o, status), !.ok = @ /\ res # "failed"]
<1>1. task[o] \in Task /\ task[o].rows \in Seq(RowStatus) /\ task[o].ok \in BOOLEAN
  BY DEF IInv, TaskInv, Task
<1>2. LastRow(o, status) \in Seq(RowStatus)
  BY <1>1, RowFinished
<1>3. t \in Task /\ t.kind = task[o].kind /\ t.rows = LastRow(o, status)
  BY <1>1, <1>2 DEF Task
<1>4. EndFit(t.kind, LastRow(o, status), res)
  BY <1>1, EndOfRow DEF LastRow
<1>5. Finish(o, t, res)
  BY DEF FinishRow
<1> HIDE DEF t
<1> QED BY <1>3, <1>4, <1>5, FinishFits

LEMMA GotoFits ==
  ASSUME IInv, NEW o \in Ops, task[o].result = None, NEW label, Goto(o, label),
         OpenFit(label, task[o].kind, task[o].phase, task[o].ok, task[o].rows)
  PROVE  RowsFit(task'[o])
<1> DEFINE u == [task[o] EXCEPT !.pc = label]
<1>1. task'[o] = u
  BY TaskSet DEF Goto
<1>2. /\ u.result = None /\ u.kind = task[o].kind /\ u.rows = task[o].rows /\ u.pc = label
      /\ u.phase = task[o].phase /\ u.ok = task[o].ok
  BY DEF IInv, TaskInv, Task
<1> HIDE DEF u
<1> QED BY <1>1, <1>2 DEF RowsFit

\* A call in progress, with the parts of its record.
Open(o) ==
  /\ task[o] \in Task /\ TaskOK(task[o]) /\ task[o].result = None
  /\ task[o].kind \in AllKinds /\ task[o].phase \in Phases
  /\ task[o].ok \in BOOLEAN /\ task[o].rows \in Seq(RowStatus)
  /\ OpenFit(task[o].pc, task[o].kind, task[o].phase, task[o].ok, task[o].rows)

LEMMA InProgress ==
  ASSUME IInv, RowsInv, NEW o \in Ops, task[o].pc \notin {"releasing", "done"}
  PROVE  Open(o)
<1>1. task[o] \in Task /\ TaskOK(task[o]) /\ task[o].result = None
  BY DEF IInv, TaskInv, TaskOK
<1> QED BY <1>1 DEF RowsInv, RowsFit, Open, Task

\* From the start of the section to the connection.
LEMMA BeginRows ==
  ASSUME IInv, RowsInv, NEW o \in Ops, NothingToDo(o) \/ Begin(o)
  PROVE  RowsFit(task'[o])
<1> DEFINE t == IF task[o].kind = "reboot" THEN [task[o] EXCEPT !.rows = <<"started">>] ELSE task[o]
           u == IF t.kind = "reboot" THEN [t EXCEPT !.rows = <<"cancelled">>] ELSE t
           v == [t EXCEPT !.pc = "connecting", !.phase = "main"]
<1>1. Open(o) /\ task[o].pc = "starting"
  BY InProgress DEF NothingToDo, Begin
<1>2. task[o] \in Task /\ task[o].rows = <<>> /\ task[o].ok /\ task[o].result = None
  BY <1>1 DEF Open, OpenFit
<1>3. CASE NothingToDo(o)
  <2>1. EndFit(task[o].kind, task[o].rows, "failed")
    BY <1>2, EndOfOne
  <2> QED BY <1>2, <1>3, <2>1, FinishFits DEF NothingToDo, Results
<1>4. CASE Begin(o)
  <2>1. <<"started">> \in Seq(RowStatus) /\ <<"cancelled">> \in Seq(RowStatus)
    BY DEF RowStatus
  <2>2. /\ t \in Task /\ t.kind = task[o].kind /\ t.result = None /\ t.ok
        /\ t.rows = IF t.kind = "reboot" THEN <<"started">> ELSE <<>>
    BY <1>2, <2>1 DEF Task
  <2>3. \/ Finish(o, u, "cancelled")
        \/ SetTask(o, v)
    BY <1>4 DEF Begin
  <2> HIDE DEF t
  <2>4. CASE Finish(o, u, "cancelled")
    <3>1. /\ u \in Task
          /\ u.rows \in {<<>>} \union {<<status>> : status \in RowStatus \ {"started"}}
      BY <2>1, <2>2 DEF Task, RowStatus
    <3>2. EndFit(u.kind, u.rows, "cancelled")
      BY <3>1, EndOfOne
    <3> HIDE DEF u
    <3> QED BY <2>4, <3>1, <3>2, FinishFits DEF Results
  <2>5. CASE SetTask(o, v)
    <3>1. task'[o] = v
      BY <2>5, TaskSet
    <3>2. task[o].kind # "check"
      BY <1>1 DEF Open, OpenFit
    <3>3. /\ v.pc = "connecting" /\ v.phase = "main" /\ v.kind = task[o].kind /\ v.result = None
          /\ v.ok /\ v.rows = t.rows
      BY <2>2 DEF Task
    <3>4. OpenLast(<<"started">>, v.ok)
      BY DEF OpenLast
    <3> HIDE DEF v
    <3>5. OpenFit(v.pc, v.kind, v.phase, v.ok, v.rows)
      BY <2>2, <3>2, <3>3, <3>4 DEF OpenFit
    <3> QED BY <3>1, <3>3, <3>5 DEF RowsFit
  <2> QED BY <2>3, <2>4, <2>5
<1> QED BY <1>3, <1>4

LEMMA TakePermitRows ==
  ASSUME IInv, RowsInv, NEW o \in Ops, TakePermit(o)
  PROVE  RowsFit(task'[o])
<1>1. Open(o) /\ task[o].pc = "connecting" /\ Goto(o, "dialing")
  BY InProgress DEF TakePermit
<1>2. OpenFit("dialing", task[o].kind, task[o].phase, task[o].ok, task[o].rows)
  BY <1>1 DEF Open, OpenFit
<1> QED BY <1>1, <1>2, GotoFits DEF Open

\* Ending with a single row, or with the rows there are.
LEMMA OneRowFits ==
  ASSUME IInv, NEW o \in Ops, NEW res \in Results,
         NEW rows \in {<<>>} \union {<<status>> : status \in RowStatus \ {"started"}},
         task[o].kind = "check" \/ res \notin {"success", "warning"},
         Finish(o, [task[o] EXCEPT !.rows = rows], res)
  PROVE  RowsFit(task'[o])
<1> DEFINE t == [task[o] EXCEPT !.rows = rows]
<1>1. rows \in Seq(RowStatus)
  BY RowSequences
<1>2. task[o] \in Task
  BY DEF IInv, TaskInv
<1>3. t \in Task /\ t.kind = task[o].kind /\ t.rows = rows
  BY <1>1, <1>2 DEF Task
<1>4. EndFit(t.kind, t.rows, res)
  BY <1>3, EndOfOne
<1> HIDE DEF t
<1>5. Finish(o, t, res)
  BY DEF t
<1> QED BY <1>3, <1>4, <1>5, FinishFits

LEMMA SettledFits ==
  ASSUME IInv, NEW o \in Ops, NEW res \in Results, Settled(task[o].rows, task[o].ok),
         res = "success" => task[o].ok, res # "warning",
         Finish(o, task[o], res)
  PROVE  RowsFit(task'[o])
<1>1. task[o] \in Task /\ task[o].rows \in Seq(RowStatus) /\ task[o].ok \in BOOLEAN
  BY DEF IInv, TaskInv, Task
<1>2. EndFit(task[o].kind, task[o].rows, res)
  BY <1>1, EndOfSettled
<1> QED BY <1>1, <1>2, FinishFits

\* A connection that could not be made.
LEMMA DialFailsRows ==
  ASSUME IInv, RowsInv, NEW o \in Ops, DialFails(o)
  PROVE  RowsFit(task'[o])
<1>1. Open(o) /\ task[o].pc = "dialing"
  BY InProgress DEF DialFails
<1>2. OpenFit("dialing", task[o].kind, task[o].phase, task[o].ok, task[o].rows)
  BY <1>1 DEF Open
<1>3. <<>> \in {<<>>} \union {<<status>> : status \in RowStatus \ {"started"}}
  OBVIOUS
<1>4. <<"failed">> \in {<<>>} \union {<<status>> : status \in RowStatus \ {"started"}}
  BY DEF RowStatus
<1>5. CASE \E rows \in {<<>>, <<"failed">>} : Finish(o, [task[o] EXCEPT !.rows = rows], "failed")
  BY <1>3, <1>4, <1>5, OneRowFits DEF Results
<1>6. CASE task[o].phase = "check" /\ Finish(o, [task[o] EXCEPT !.rows = <<"failed">>], "success")
  <2>1. task[o].kind = "check"
    BY <1>2, <1>6 DEF OpenFit
  <2> QED BY <1>4, <1>6, <2>1, OneRowFits DEF Results
<1>7. CASE /\ task[o].phase = "recheck"
           /\ \E res \in {"failed", LoopResult(task[o])} : Finish(o, task[o], res)
  <2>1. Settled(task[o].rows, task[o].ok)
    BY <1>2, <1>7 DEF OpenFit
  <2> QED BY <1>7, <2>1, SettledFits DEF Results, LoopResult
<1>8. CASE /\ task[o].phase \in {"resume", "verify"}
           /\ Goto(o, "reconnecting") \/ Goto(o, "verifyWait") \/ FinishRow(o, "failed", "failed")
  <2>1. OpenLast(task[o].rows, task[o].ok)
    BY <1>2, <1>8 DEF OpenFit
  <2>2. \A label \in {"reconnecting", "verifyWait"} :
          OpenFit(label, task[o].kind, task[o].phase, task[o].ok, task[o].rows)
    BY <2>1 DEF OpenFit
  <2>3. CASE Goto(o, "reconnecting") \/ Goto(o, "verifyWait")
    BY <1>1, <2>2, <2>3, GotoFits DEF Open
  <2>4. CASE FinishRow(o, "failed", "failed")
    BY <2>1, <2>4, FinishRowFits DEF RowStatus, Results
  <2> QED BY <1>8, <2>3, <2>4
<1> QED BY <1>5, <1>6, <1>7, <1>8 DEF DialFails

\* A connection that was made.
LEMMA DialSucceedsRows ==
  ASSUME IInv, RowsInv, NEW o \in Ops, DialSucceeds(o)
  PROVE  RowsFit(task'[o])
<1>1. Open(o) /\ task[o].pc = "dialing"
  BY InProgress DEF DialSucceeds
<1>2. OpenFit("dialing", task[o].kind, task[o].phase, task[o].ok, task[o].rows)
  BY <1>1 DEF Open
<1>3. <<"cancelled">> \in {<<>>} \union {<<status>> : status \in RowStatus \ {"started"}}
  BY DEF RowStatus
<1>4. CASE Finish(o, [task[o] EXCEPT !.rows = <<"cancelled">>], "cancelled")
  BY <1>3, <1>4, OneRowFits DEF Results
<1>5. CASE /\ \/ task[o].phase = "main" /\ task[o].kind # "reboot"
              \/ task[o].phase = "recheck"
           /\ Finish(o, task[o], "cancelled")
  <2>1. Settled(task[o].rows, task[o].ok)
    BY <1>2, <1>5 DEF OpenFit, Settled
  <2> QED BY <1>5, <2>1, SettledFits DEF Results
<1>6. CASE task[o].phase = "main" /\ Goto(o, IF task[o].kind \in LoopKinds THEN "loop" ELSE "running")
  <2> DEFINE label == IF task[o].kind \in LoopKinds THEN "loop" ELSE "running"
  <2>1. OpenFit(label, task[o].kind, task[o].phase, task[o].ok, task[o].rows)
    <3>1. CASE task[o].kind \in LoopKinds
      BY <1>2, <1>6, <3>1 DEF OpenFit, LoopKinds, Settled
    <3>2. CASE task[o].kind \notin LoopKinds
      BY <1>1, <1>2, <1>6, <3>2 DEF Open, OpenFit, LoopKinds, AllKinds
    <3> QED BY <3>1, <3>2
  <2> QED BY <1>1, <1>6, <2>1, GotoFits DEF Open
<1>7. CASE /\ task[o].phase = "verify" /\ Goto(o, "reconnecting")
  BY <1>1, <1>2, <1>7, GotoFits DEF Open, OpenFit
<1>8. CASE /\ task[o].phase \in {"check", "recheck", "verify"} /\ Goto(o, "checking")
  BY <1>1, <1>2, <1>8, GotoFits DEF Open, OpenFit
<1>9. CASE /\ task[o].phase = "resume" /\ Goto(o, "resuming")
  BY <1>1, <1>2, <1>9, GotoFits DEF Open, OpenFit
<1> QED BY <1>4, <1>5, <1>6, <1>7, <1>8, <1>9 DEF DialSucceeds

\* One turn of the loop.
LEMMA LoopStepRows ==
  ASSUME IInv, RowsInv, NEW o \in Ops, LoopStep(o)
  PROVE  RowsFit(task'[o])
<1>1. Open(o) /\ task[o].pc = "loop"
  BY InProgress DEF LoopStep
<1>2. task[o].kind \in LoopKinds /\ Settled(task[o].rows, task[o].ok)
  BY <1>1 DEF Open, OpenFit
<1>3. CASE Finish(o, task[o], "cancelled")
  BY <1>2, <1>3, SettledFits DEF Results
<1>4. CASE SetTask(o, [task[o] EXCEPT !.pc = "running", !.rows = Append(@, "started")])
  <2> DEFINE u == [task[o] EXCEPT !.pc = "running", !.rows = Append(@, "started")]
  <2>1. task'[o] = u
    BY <1>4, TaskSet
  <2>2. /\ u.pc = "running" /\ u.kind = task[o].kind /\ u.ok = task[o].ok /\ u.result = None
        /\ u.rows = Append(task[o].rows, "started") /\ u.phase = task[o].phase
    BY <1>1 DEF Open, Task
  <2>3. OpenLast(Append(task[o].rows, "started"), task[o].ok)
    BY <1>1, <1>2, LaunchedRow DEF Open
  <2> HIDE DEF u
  <2>4. OpenFit(u.pc, u.kind, u.phase, u.ok, u.rows)
    BY <1>2, <2>2, <2>3 DEF OpenFit, LoopKinds
  <2> QED BY <2>1, <2>2, <2>4 DEF RowsFit
<1>5. CASE SetTask(o, [task[o] EXCEPT !.step = @ + 1, !.ok = @ /\ task[o].kind # "select"])
  <2> DEFINE u == [task[o] EXCEPT !.step = @ + 1, !.ok = @ /\ task[o].kind # "select"]
  <2>1. task'[o] = u
    BY <1>5, TaskSet
  <2>2. /\ u.pc = "loop" /\ u.kind = task[o].kind /\ u.result = None /\ u.rows = task[o].rows
        /\ u.ok => task[o].ok
    BY <1>1 DEF Open, Task
  <2> HIDE DEF u
  <2>3. Settled(u.rows, u.ok)
    BY <1>2, <2>2 DEF Settled
  <2>4. OpenFit(u.pc, u.kind, u.phase, u.ok, u.rows)
    BY <1>2, <2>2, <2>3 DEF OpenFit
  <2> QED BY <2>1, <2>2, <2>4 DEF RowsFit
<1>6. CASE Goto(o, "rechecking")
  BY <1>1, <1>2, <1>6, GotoFits DEF Open, OpenFit
<1> QED BY <1>3, <1>4, <1>5, <1>6 DEF LoopStep

\* How a command of the loop ends.
LEMMA CommandRows ==
  ASSUME IInv, RowsInv, NEW o \in Ops,
         CommandEnds(o) \/ CommandCancelled(o) \/ CommandThrows(o) \/ MonitoringLost(o)
  PROVE  RowsFit(task'[o])
<1>1. Open(o) /\ task[o].pc = "running" /\ task[o].kind # "repair"
  BY InProgress DEF CommandEnds, CommandCancelled, CommandThrows, MonitoringLost, LoopKinds
<1>2. OpenLast(task[o].rows, task[o].ok)
  BY <1>1 DEF Open, OpenFit
<1>3. CASE CommandEnds(o)
  <2>1. PICK status \in {"success", "failed"} :
          SetTask(o, [task[o] EXCEPT !.pc = "loop", !.step = @ + 1, !.rows = LastRow(o, status),
                                     !.ok = @ /\ status = "success"])
    BY <1>3 DEF CommandEnds
  <2> DEFINE u == [task[o] EXCEPT !.pc = "loop", !.step = @ + 1, !.rows = LastRow(o, status),
                                  !.ok = @ /\ status = "success"]
  <2>2. task'[o] = u
    BY <2>1, TaskSet
  <2>3. /\ u.pc = "loop" /\ u.kind = task[o].kind /\ u.result = None
        /\ u.rows = LastRow(o, status) /\ u.ok = (task[o].ok /\ status = "success")
    BY <1>1 DEF Open, Task
  <2>4. Settled(LastRow(o, status), task[o].ok /\ status = "success")
    BY <1>1, <1>2, SettledRow DEF Open, LastRow
  <2> HIDE DEF u
  <2>5. u.kind \in LoopKinds /\ Settled(u.rows, u.ok)
    BY <1>3, <2>3, <2>4 DEF CommandEnds
  <2>6. OpenFit(u.pc, u.kind, u.phase, u.ok, u.rows)
    BY <2>3, <2>5 DEF OpenFit
  <2> QED BY <2>2, <2>3, <2>6 DEF RowsFit
<1>4. CASE CommandCancelled(o)
  BY <1>2, <1>4, FinishRowFits DEF CommandCancelled, RowStatus, Results
<1>5. CASE CommandThrows(o)
  <2> DEFINE t == [task[o] EXCEPT !.rows = Append(@, "failed")]
  <2>1. Append(task[o].rows, "failed") \in Seq(RowStatus)
    BY <1>1, RowSequences DEF Open, RowStatus
  <2>2. t \in Task /\ t.kind = task[o].kind /\ t.rows = Append(task[o].rows, "failed")
    BY <1>1, <2>1 DEF Open, Task
  <2>3. EndFit(t.kind, Append(task[o].rows, "failed"), "failed")
    BY <1>1, <1>2, EndAfterThrow DEF Open
  <2>4. Finish(o, t, "failed")
    BY <1>5 DEF CommandThrows
  <2> HIDE DEF t
  <2> QED BY <2>2, <2>3, <2>4, FinishFits DEF Results
<1>6. CASE MonitoringLost(o)
  <2>1. CASE Goto(o, "reconnecting")
    BY <1>1, <1>2, <2>1, GotoFits DEF Open, OpenFit
  <2>2. CASE FinishRow(o, "warning", "failed")
    BY <1>2, <2>2, FinishRowFits DEF RowStatus, Results
  <2> QED BY <1>6, <2>1, <2>2 DEF MonitoringLost
<1> QED BY <1>3, <1>4, <1>5, <1>6

\* The silent check after the commands keeps their rows.
LEMMA RecheckRows ==
  ASSUME IInv, NEW o \in Ops, NEW t \in Task, t.result = None, Settled(t.rows, t.ok), Recheck(o, t)
  PROVE  RowsFit(task'[o])
<1>1. CASE Finish(o, t, "cancelled")
  <2>1. EndFit(t.kind, t.rows, "cancelled")
    BY EndOfSettled DEF Task
  <2> QED BY <1>1, <2>1, FinishFits DEF Results
<1>2. CASE SetTask(o, [t EXCEPT !.pc = "connecting", !.phase = "recheck"])
  <2> DEFINE u == [t EXCEPT !.pc = "connecting", !.phase = "recheck"]
  <2>1. task'[o] = u
    BY <1>2, TaskSet
  <2>2. /\ u.pc = "connecting" /\ u.phase = "recheck" /\ u.result = None
        /\ u.ok = t.ok /\ u.rows = t.rows
    BY DEF Task
  <2> HIDE DEF u
  <2>3. OpenFit(u.pc, u.kind, u.phase, u.ok, u.rows)
    BY <2>2 DEF OpenFit
  <2> QED BY <2>1, <2>2, <2>3 DEF RowsFit
<1> QED BY <1>1, <1>2 DEF Recheck

\* The commands of a reboot and of a repair.
LEMMA NextCommandRows ==
  ASSUME IInv, NEW o \in Ops, Open(o), task[o].pc = "running",
         SetTask(o, [task[o] EXCEPT !.step = @ + 1])
  PROVE  RowsFit(task'[o])
<1> DEFINE u == [task[o] EXCEPT !.step = @ + 1]
<1>1. task'[o] = u
  BY TaskSet
<1>2. /\ u.pc = task[o].pc /\ u.kind = task[o].kind /\ u.phase = task[o].phase /\ u.ok = task[o].ok
      /\ u.rows = task[o].rows /\ u.result = None
  BY DEF Open, Task
<1> HIDE DEF u
<1> QED BY <1>1, <1>2 DEF RowsFit, Open

LEMMA RebootRows ==
  ASSUME IInv, RowsInv, NEW o \in Ops, RebootCommand(o)
  PROVE  RowsFit(task'[o])
<1>1. Open(o) /\ task[o].pc = "running" /\ task[o].kind = "reboot"
  BY InProgress DEF RebootCommand
<1>2. OpenLast(task[o].rows, task[o].ok) /\ task[o].ok
  BY <1>1 DEF Open, OpenFit
<1>3. CASE SetTask(o, [task[o] EXCEPT !.step = @ + 1])
  BY <1>1, <1>3, NextCommandRows
<1>4. CASE \E status \in {"success", "failed"} : FinishRow(o, status, status)
  BY <1>2, <1>4, FinishRowFits DEF RowStatus, Results
<1> QED BY <1>3, <1>4 DEF RebootCommand

LEMMA RepairRows ==
  ASSUME IInv, RowsInv, NEW o \in Ops, RepairCommand(o)
  PROVE  RowsFit(task'[o])
<1> DEFINE Logged(status) == [task[o] EXCEPT !.rows = Append(@, status)]
<1>1. Open(o) /\ task[o].pc = "running" /\ task[o].kind = "repair"
  BY InProgress DEF RepairCommand
<1>2. task[o] \in Task /\ task[o].rows = <<>> /\ task[o].ok /\ task[o].result = None
  BY <1>1 DEF Open, OpenFit
<1>3. \A status \in RowStatus :
        /\ Logged(status) = [task[o] EXCEPT !.rows = <<status>>]
        /\ <<status>> \in Seq(RowStatus)
  BY <1>2
<1>4. CASE SetTask(o, [task[o] EXCEPT !.step = @ + 1])
  BY <1>1, <1>4, NextCommandRows
<1>5. CASE Recheck(o, Logged("success"))
  <2> DEFINE t == [task[o] EXCEPT !.rows = <<"success">>]
  <2>1. t \in Task /\ t.result = None /\ t.rows = <<"success">> /\ Recheck(o, t)
    BY <1>2, <1>3, <1>5 DEF Task, RowStatus
  <2> HIDE DEF t
  <2>2. Settled(t.rows, t.ok)
    BY <2>1 DEF Settled
  <2> QED BY <2>1, <2>2, RecheckRows
<1>6. CASE \E status \in {"failed", "cancelled"} : Finish(o, Logged(status), status)
  <2>1. PICK status \in {"failed", "cancelled"} : Finish(o, Logged(status), status)
    BY <1>6
  <2>2. /\ Finish(o, [task[o] EXCEPT !.rows = <<status>>], status)
        /\ <<status>> \in {<<>>} \union {<<st>> : st \in RowStatus \ {"started"}}
        /\ status \in Results /\ status \notin {"success", "warning"}
    BY <1>3, <2>1 DEF RowStatus, Results
  <2> QED BY <2>2, OneRowFits
<1>7. CASE Finish(o, task[o], "failed")
  <2>1. EndFit(task[o].kind, task[o].rows, "failed")
    BY <1>2, EndOfOne
  <2> QED BY <1>2, <1>7, <2>1, FinishFits DEF Results
<1> QED BY <1>4, <1>5, <1>6, <1>7 DEF RepairCommand

\* The checks: the call itself, and the silent one after an operation.
LEMMA CheckRows ==
  ASSUME IInv, RowsInv, NEW o \in Ops, StartRecheck(o) \/ CheckEnds(o) \/ RecheckEnds(o)
  PROVE  RowsFit(task'[o])
<1>1. Open(o)
  BY InProgress DEF StartRecheck, CheckEnds, RecheckEnds
<1>2. CASE StartRecheck(o)
  <2>1. Settled(task[o].rows, task[o].ok) /\ task[o] \in Task /\ task[o].result = None
    BY <1>1, <1>2 DEF StartRecheck, Open, OpenFit
  <2> QED BY <1>2, <2>1, RecheckRows DEF StartRecheck
<1>3. CASE CheckEnds(o)
  <2>1. task[o].kind = "check" /\ task[o].rows = <<>> /\ task[o] \in Task
    BY <1>1, <1>3 DEF CheckEnds, Open, OpenFit
  <2>2. CASE \E status \in RowStatus \ {"started"}, res \in Results :
               Finish(o, [task[o] EXCEPT !.rows = <<status>>], res)
    BY <2>1, <2>2, OneRowFits
  <2>3. CASE Finish(o, task[o], "success")
    <3>1. EndFit(task[o].kind, task[o].rows, "success")
      BY <2>1, EndOfOne
    <3> QED BY <2>1, <2>3, <3>1, FinishFits DEF Results
  <2> QED BY <1>3, <2>2, <2>3 DEF CheckEnds, RowStatus, Results
<1>4. CASE RecheckEnds(o)
  <2>1. Settled(task[o].rows, task[o].ok)
    BY <1>1, <1>4 DEF RecheckEnds, Open, OpenFit
  <2> QED BY <1>4, <2>1, SettledFits DEF RecheckEnds, LoopResult, Results
<1> QED BY <1>2, <1>3, <1>4

\* The reconnection leaves the row of its command open until it ends.
LEMMA ReconnectedRows ==
  ASSUME IInv, NEW o \in Ops, OpenLast(task[o].rows, task[o].ok), Reconnected(o)
  PROVE  RowsFit(task'[o])
BY FinishRowFits DEF Reconnected, RowStatus, Results

LEMMA ToConnecting ==
  ASSUME IInv, NEW o \in Ops, Open(o), OpenLast(task[o].rows, task[o].ok), NEW u \in Task,
         SetTask(o, u), u.pc = "connecting", u.phase \in {"resume", "verify"}, u.result = None,
         u.rows = task[o].rows, u.ok = task[o].ok
  PROVE  RowsFit(task'[o])
<1>1. task'[o] = u
  BY TaskSet
<1>2. OpenFit(u.pc, u.kind, u.phase, u.ok, u.rows)
  BY DEF OpenFit
<1> QED BY <1>1, <1>2 DEF RowsFit

LEMMA ReconnectRows ==
  ASSUME IInv, RowsInv, NEW o \in Ops,
         AttemptConnect(o) \/ GiveUp(o) \/ ResumeEnds(o) \/ VerifyEnds(o) \/ RetryVerify(o)
  PROVE  RowsFit(task'[o])
<1>1. Open(o) /\ OpenLast(task[o].rows, task[o].ok)
  BY InProgress DEF AttemptConnect, GiveUp, ResumeEnds, VerifyEnds, RetryVerify, Open, OpenFit
<1>2. task[o] \in Task /\ task[o].result = None /\ TaskOK(task[o])
  BY <1>1 DEF Open
<1>3. CASE Goto(o, "reconnecting") \/ Goto(o, "verifyWait")
  <2>1. \A label \in {"reconnecting", "verifyWait"} :
          OpenFit(label, task[o].kind, task[o].phase, task[o].ok, task[o].rows)
    BY <1>1 DEF OpenFit
  <2> QED BY <1>2, <1>3, <2>1, GotoFits
<1>4. CASE AttemptConnect(o)
  <2> DEFINE u == [task[o] EXCEPT !.pc = "connecting", !.phase = "resume", !.tries = @ + 1]
  <2>1. task[o].tries + 1 \in 0..MaxAttempts
    BY <1>2, <1>4, OperationsAssumption DEF Task, AttemptConnect
  <2>2. /\ u \in Task /\ u.pc = "connecting" /\ u.phase = "resume" /\ u.result = None
        /\ u.rows = task[o].rows /\ u.ok = task[o].ok
    BY <1>2, <2>1 DEF Task, PcStates, Phases
  <2>3. SetTask(o, u)
    BY <1>4 DEF AttemptConnect
  <2> HIDE DEF u
  <2> QED BY <1>1, <2>2, <2>3, ToConnecting
<1>5. CASE FinishRow(o, "failed", "failed")
  BY <1>1, <1>5, FinishRowFits DEF RowStatus, Results
<1>6. CASE Reconnected(o)
  BY <1>1, <1>6, ReconnectedRows
<1>7. CASE SetTask(o, [task[o] EXCEPT !.pc = "connecting", !.phase = "verify", !.checks = 1])
  <2> DEFINE u == [task[o] EXCEPT !.pc = "connecting", !.phase = "verify", !.checks = 1]
  <2>1. 1 \in 0..CheckRetries
    BY OperationsAssumption
  <2>2. /\ u \in Task /\ u.pc = "connecting" /\ u.phase = "verify" /\ u.result = None
        /\ u.rows = task[o].rows /\ u.ok = task[o].ok
    BY <1>2, <2>1 DEF Task, PcStates, Phases
  <2> HIDE DEF u
  <2> QED BY <1>1, <1>7, <2>2, ToConnecting DEF u
<1>8. CASE RetryVerify(o) /\ SetTask(o, [task[o] EXCEPT !.pc = "connecting", !.checks = @ + 1])
  <2> DEFINE u == [task[o] EXCEPT !.pc = "connecting", !.checks = @ + 1]
  <2>1. task[o].checks + 1 \in 0..CheckRetries /\ task[o].phase = "verify"
    BY <1>2, <1>8, OperationsAssumption DEF Task, TaskOK, RetryVerify
  <2>2. /\ u \in Task /\ u.pc = "connecting" /\ u.phase = "verify" /\ u.result = None
        /\ u.rows = task[o].rows /\ u.ok = task[o].ok
    BY <1>2, <2>1 DEF Task, PcStates
  <2>3. SetTask(o, u)
    BY <1>8
  <2> HIDE DEF u
  <2> QED BY <1>1, <2>2, <2>3, ToConnecting
<1> QED BY <1>3, <1>4, <1>5, <1>6, <1>7, <1>8 DEF GiveUp, ResumeEnds, VerifyEnds, RetryVerify

\* A call that asks for the lock has no rows yet.
LEMMA WithLockRows ==
  ASSUME IInv, RowsInv, NEW o \in Ops, NEW k \in Kinds, WithLock(o, k)
  PROVE  RowsFit(task'[o])
<1> DEFINE t == [task[o] EXCEPT !.kind = k]
<1>1. Open(o) /\ task[o].pc \in {"new", "woken"}
  BY InProgress DEF WithLock
<1>2. task[o] \in Task /\ task[o].result = None /\ task[o].rows = <<>> /\ task[o].ok
  BY <1>1 DEF Open, OpenFit
<1>3. t \in Task /\ t.kind = k /\ t.result = None /\ t.rows = <<>> /\ t.ok
  BY <1>2, OperationsAssumption DEF Task
<1>4. CASE SetTask(o, [task[o] EXCEPT !.pc = "blocked", !.kind = k])
  <2>1. task'[o] = [task[o] EXCEPT !.pc = "blocked", !.kind = k]
    BY <1>4, TaskSet
  <2> QED BY <1>2, <2>1 DEF RowsFit, OpenFit, Task
<1>5. CASE EnterSection(o, k)
  <2>1. \/ k = "check" /\ SetTask(o, [t EXCEPT !.pc = "connecting", !.phase = "check"])
        \/ k # "check" /\ SetTask(o, [t EXCEPT !.pc = "starting"])
        \/ SetTask(o, [t EXCEPT !.pc = "releasing", !.result = "failed"])
    BY <1>5 DEF EnterSection
  <2> HIDE DEF t
  <2>2. CASE k = "check" /\ SetTask(o, [t EXCEPT !.pc = "connecting", !.phase = "check"])
    <3>1. task'[o] = [t EXCEPT !.pc = "connecting", !.phase = "check"]
      BY <2>2, TaskSet
    <3> QED BY <1>3, <2>2, <3>1 DEF RowsFit, OpenFit, Task
  <2>3. CASE k # "check" /\ SetTask(o, [t EXCEPT !.pc = "starting"])
    <3>1. task'[o] = [t EXCEPT !.pc = "starting"]
      BY <2>3, TaskSet
    <3> QED BY <1>3, <2>3, <3>1 DEF RowsFit, OpenFit, Task
  <2>4. CASE SetTask(o, [t EXCEPT !.pc = "releasing", !.result = "failed"])
    <3>1. task'[o] = [t EXCEPT !.pc = "releasing", !.result = "failed"]
      BY <2>4, TaskSet
    <3>2. task'[o].kind = k /\ task'[o].rows = <<>> /\ task'[o].result = "failed"
      BY <1>3, <3>1 DEF Task
    <3>3. EndFit(k, <<>>, "failed")
      BY EndOfOne
    <3> QED BY <3>2, <3>3, OperationsAssumption DEF RowsFit, Results
  <2> QED BY <2>1, <2>2, <2>3, <2>4
<1> QED BY <1>4, <1>5 DEF WithLock

\* The other steps of a call, and the calls that do not step.
LEMMA OthersStay ==
  ASSUME IInv, NEW o \in Ops,
         Moves(o) \/ Ends(o) \/ \E k \in Kinds : WithLock(o, k)
  PROVE  \A p \in Ops : p # o => task'[p] = task[p]
<1>1. task \in [Ops -> Task]
  BY DEF IInv, TaskInv
<1>2. \E t : task' = [task EXCEPT ![o] = t]
  BY DEF Moves, Ends, WithLock, EnterSection, SetTask
<1> QED BY <1>1, <1>2

LEMMA ReleaseRows ==
  ASSUME IInv, RowsInv, NEW o \in Ops, ReleaseLock(o)
  PROVE  RowsInv'
<1> SUFFICES ASSUME NEW p \in Ops PROVE RowsFit(task'[p])
  BY DEF RowsInv
<1>1. task[p] \in Task /\ TaskOK(task[p]) /\ RowsFit(task[p])
  BY DEF IInv, TaskInv, RowsInv
<1>2. CASE p = o
  <2>1. task'[p] = [task[p] EXCEPT !.pc = "done"] /\ task[p].result # None
    BY <1>1, <1>2 DEF ReleaseLock, TaskOK
  <2> QED BY <1>1, <2>1 DEF RowsFit, Task
<1>3. CASE p # o /\ task[p].pc = "blocked" /\ Sys(p) = Sys(o)
  <2>1. task'[p] = [task[p] EXCEPT !.pc = "woken"] /\ task[p].result = None
    BY <1>1, <1>3 DEF ReleaseLock, TaskOK
  <2> QED BY <1>1, <1>3, <2>1 DEF RowsFit, OpenFit, Task
<1>4. CASE p # o /\ ~(task[p].pc = "blocked" /\ Sys(p) = Sys(o))
  BY <1>1, <1>4 DEF ReleaseLock
<1> QED BY <1>2, <1>3, <1>4

LEMMA CancelRows ==
  ASSUME IInv, RowsInv, NEW s \in Systems, Cancel(s)
  PROVE  RowsInv'
<1> SUFFICES ASSUME NEW p \in Ops PROVE RowsFit(task'[p])
  BY DEF RowsInv
<1>1. task[p] \in Task /\ RowsFit(task[p]) /\ task \in [Ops -> Task]
  BY DEF IInv, TaskInv, RowsInv
<1>2. /\ task'[p].result = task[p].result /\ task'[p].pc = task[p].pc /\ task'[p].kind = task[p].kind
      /\ task'[p].phase = task[p].phase /\ task'[p].ok = task[p].ok /\ task'[p].rows = task[p].rows
  BY <1>1 DEF Cancel, Task
<1> QED BY <1>1, <1>2 DEF RowsFit

LEMMA RowsInit == Init => RowsInv
BY OperationsAssumption DEF Init, NewTask, RowsInv, RowsFit, OpenFit

LEMMA RowsStep == IInv /\ RowsInv /\ [Next]_vars => RowsInv'
<1> SUFFICES ASSUME IInv, RowsInv, [Next]_vars PROVE RowsInv'
  OBVIOUS
<1>1. ASSUME NEW o \in Ops, Advance(o) PROVE RowsInv'
  <2>1. CASE ReleaseLock(o)
    BY <2>1, ReleaseRows
  <2>2. CASE ~ReleaseLock(o)
    <3>1. RowsFit(task'[o])
      BY <1>1, <2>2, BeginRows, TakePermitRows, DialFailsRows, DialSucceedsRows, LoopStepRows,
         CommandRows, RebootRows, RepairRows, CheckRows, ReconnectRows DEF Advance
    <3>2. Moves(o) \/ Ends(o)
      BY <1>1, <2>2, BeginShape, TakePermitShape, DialFailsShape, DialSucceedsShape, LoopStepShape,
         CommandShape, RebootRepairShape, CheckShape, ReconnectShape, VerifyShape DEF Advance
    <3> QED BY <3>1, <3>2, OthersStay DEF RowsInv
  <2> QED BY <2>1, <2>2
<1>2. ASSUME NEW o \in Ops, NEW k \in Kinds, WithLock(o, k) PROVE RowsInv'
  BY <1>2, WithLockRows, OthersStay DEF RowsInv
<1>3. ASSUME NEW s \in Systems, Cancel(s) PROVE RowsInv'
  BY <1>3, CancelRows
<1>4. CASE UNCHANGED vars
  BY <1>4 DEF vars, RowsInv
<1> QED BY <1>1, <1>2, <1>3, <1>4 DEF Next

-----------------------------------------------------------------------------
(* Launches.  A call at "running" owns a permit, so that a step which gives    *)
(* the permit back, or starts without one, launches nothing.                   *)

LaunchStep(o) ==
  task'[o].pc = "running" /\ (task[o].pc # "running" \/ task'[o].step # task[o].step)

LEMMA LaunchNeedsPermit ==
  ASSUME IInv', NEW o \in Ops, LaunchStep(o)
  PROVE  o \in connected'
BY DEF IInv, PermitInv, Holding, LaunchStep

LEMMA StepLaunches ==
  ASSUME IInv, IInv', NEW o \in Ops, Advance(o), LaunchStep(o)
  PROVE  ~Cancelled(o)
<1>1. o \in connected' /\ task'[o].pc = "running"
  BY LaunchNeedsPermit DEF LaunchStep
<1>2. task[o].pc \notin Holding => o \notin connected
  BY DEF IInv, PermitInv
<1>3. task \in [Ops -> Task] /\ task[o] \in Task
  BY DEF IInv, TaskInv
<1>4. \A t, res : ~Finish(o, t, res)
  BY <1>1 DEF Finish
<1>5. \A status, res : ~FinishRow(o, status, res)
  BY <1>4 DEF FinishRow
<1>6. CASE task[o].pc \notin Holding
  <2>1. TakePermit(o)
    BY <1>1, <1>2, <1>4, <1>5, <1>6
       DEF Advance, NothingToDo, Begin, DialFails, DialSucceeds, LoopStep, CommandEnds,
           CommandCancelled, CommandThrows, MonitoringLost, RebootCommand, RepairCommand,
           StartRecheck, Recheck, CheckEnds, RecheckEnds, AttemptConnect, GiveUp, ResumeEnds,
           VerifyEnds, RetryVerify, ReleaseLock, Holding
  <2>2. task'[o] = [task[o] EXCEPT !.pc = "dialing"]
    BY <1>3, <2>1 DEF TakePermit, Goto, SetTask
  <2> QED BY <1>1, <1>3, <2>2 DEF Task
<1>7. CASE task[o].pc = "dialing"
  <2>1. DialSucceeds(o)
    BY <1>1, <1>4, <1>5, <1>7
       DEF Advance, NothingToDo, Begin, TakePermit, DialFails, LoopStep, CommandEnds,
           CommandCancelled, CommandThrows, MonitoringLost, RebootCommand, RepairCommand,
           StartRecheck, CheckEnds, RecheckEnds, AttemptConnect, GiveUp, ResumeEnds,
           VerifyEnds, RetryVerify, ReleaseLock
  <2>2. Goto(o, "checking") \/ Goto(o, "resuming") \/ ~Cancelled(o)
    BY <1>1, <1>4, <2>1 DEF DialSucceeds
  <2>3. \A label \in {"checking", "resuming"} : Goto(o, label) => task'[o].pc = label
    BY <1>3 DEF Goto, SetTask, Task
  <2> QED BY <1>1, <2>2, <2>3
<1>8. CASE task[o].pc \in {"loop", "resuming", "checking"}
  <2>1. LoopStep(o) /\ task[o].pc = "loop"
    BY <1>1, <1>4, <1>5, <1>8
       DEF Advance, NothingToDo, Begin, TakePermit, DialFails, DialSucceeds, CommandEnds,
           CommandCancelled, CommandThrows, MonitoringLost, RebootCommand, RepairCommand,
           StartRecheck, CheckEnds, RecheckEnds, AttemptConnect, GiveUp, ResumeEnds, LoopStep,
           VerifyEnds, RetryVerify, ReleaseLock, Reconnected
  <2> QED BY <1>1, <1>4, <2>1 DEF LoopStep
<1>9. CASE task[o].pc = "running"
  <2>1. CommandEnds(o) \/ RebootCommand(o) \/ RepairCommand(o)
    BY <1>1, <1>4, <1>5, <1>9
       DEF Advance, NothingToDo, Begin, TakePermit, DialFails, DialSucceeds,
           CommandCancelled, CommandThrows, MonitoringLost, LoopStep,
           StartRecheck, CheckEnds, RecheckEnds, AttemptConnect, GiveUp, ResumeEnds,
           VerifyEnds, RetryVerify, ReleaseLock
  <2>2. CASE CommandEnds(o)
    <3>1. PICK status \in {"success", "failed"} :
            SetTask(o, [task[o] EXCEPT !.pc = "loop", !.step = @ + 1, !.rows = LastRow(o, status),
                                       !.ok = @ /\ status = "success"])
      BY <2>2 DEF CommandEnds
    <3>2. task'[o].pc = "loop"
      BY <1>3, <3>1 DEF SetTask, Task
    <3> QED BY <1>1, <3>2
  <2>3. CASE RebootCommand(o)
    BY <1>4, <1>5, <2>3 DEF RebootCommand
  <2>4. CASE RepairCommand(o)
    <3>1. \A t : Recheck(o, t) => o \notin connected'
      BY <1>4 DEF Recheck
    <3> QED BY <1>1, <1>4, <2>4, <3>1 DEF RepairCommand
  <2> QED BY <2>1, <2>2, <2>3, <2>4
<1> QED BY <1>6, <1>7, <1>8, <1>9 DEF Holding

\* No step of another call, and no cancellation, launches a command of o.
LEMMA OnlyOwnSteps ==
  ASSUME IInv, IInv', Next, NEW o \in Ops, LaunchStep(o)
  PROVE  Advance(o)
<1>1. task \in [Ops -> Task]
  BY DEF IInv, TaskInv
<1>2. ASSUME NEW p \in Ops, Advance(p), p # o PROVE FALSE
  <2>1. Moves(p) \/ Ends(p) \/ ReleaseLock(p)
    BY <1>2, BeginShape, TakePermitShape, DialFailsShape, DialSucceedsShape, LoopStepShape,
       CommandShape, RebootRepairShape, CheckShape, ReconnectShape, VerifyShape DEF Advance
  <2>2. CASE Moves(p) \/ Ends(p)
    BY <1>2, <2>2, OthersStay DEF LaunchStep
  <2>3. CASE ReleaseLock(p)
    <3>1. task'[o] = task[o] \/ task'[o] = [task[o] EXCEPT !.pc = "woken"]
      BY <1>2, <2>3 DEF ReleaseLock
    <3> QED BY <1>1, <3>1 DEF LaunchStep, Task
  <2> QED BY <2>1, <2>2, <2>3
<1>3. ASSUME NEW p \in Ops, NEW k \in Kinds, WithLock(p, k) PROVE FALSE
  <2>1. CASE p = o
    <3>1. task[o].pc \notin Holding /\ connected' = connected
      BY <1>3, <2>1 DEF WithLock, Holding
    <3> QED BY <3>1, LaunchNeedsPermit DEF IInv, PermitInv
  <2>2. CASE p # o
    BY <1>3, <2>2, OthersStay DEF LaunchStep
  <2> QED BY <2>1, <2>2
<1>4. ASSUME NEW s \in Systems, Cancel(s) PROVE FALSE
  <2>1. task'[o].pc = task[o].pc /\ task'[o].step = task[o].step
    BY <1>1, <1>4 DEF Cancel, Task
  <2> QED BY <2>1 DEF LaunchStep
<1> QED BY <1>2, <1>3, <1>4 DEF Next

-----------------------------------------------------------------------------
(* The theorems. *)

LEMMA InitInv == Init => IInv
BY OperationsAssumption DEF Init, NewTask, IInv, TaskInv, LockInv, ActiveInv, CancelInv, PermitInv,
   TaskOK, Task, PcStates, SectionStates, Busy, Holding, Phases, AllKinds, Results, Sys

LEMMA StepInv == IInv /\ [Next]_vars => IInv'
<1> SUFFICES ASSUME IInv, [Next]_vars PROVE IInv'
  OBVIOUS
<1>1. CASE Next
  <2>1. ASSUME NEW o \in Ops, Advance(o) PROVE IInv'
    <3>1. Moves(o) \/ Ends(o) \/ ReleaseLock(o)
      BY <2>1, BeginShape, TakePermitShape, DialFailsShape, DialSucceedsShape, LoopStepShape,
         CommandShape, RebootRepairShape, CheckShape, ReconnectShape, VerifyShape DEF Advance
    <3> QED BY <3>1, MovesPreserves, EndsPreserves, ReleasePreserves
  <2>2. ASSUME NEW o \in Ops, NEW k \in Kinds, WithLock(o, k) PROVE IInv'
    BY <2>2, WithLockPreserves
  <2>3. ASSUME NEW s \in Systems, Cancel(s) PROVE IInv'
    BY <2>3, CancelPreserves
  <2> QED BY <1>1, <2>1, <2>2, <2>3 DEF Next
<1>2. CASE UNCHANGED vars
  BY <1>2 DEF vars, IInv, TaskInv, LockInv, ActiveInv, CancelInv, PermitInv, TaskOK, Cancelled
<1> QED BY <1>1, <1>2

\* The invariant that everything rests on.
THEOREM OperationsInvariant == Spec => []IInv
<1>1. Init => IInv
  BY InitInv
<1>2. IInv /\ [Next]_vars => IInv'
  BY StepInv
<1> QED BY <1>1, <1>2, PTL DEF Spec

\* Type correctness: no step counter, attempt or check exceeds its bound.
THEOREM TypeCorrect == Spec => []TypeOK
<1>1. IInv => TypeOK
  BY DEF IInv, TaskInv, LockInv, ActiveInv, CancelInv, PermitInv, TaskOK, TypeOK
<1> QED BY <1>1, OperationsInvariant, PTL

\* withLock serialises the operations of a system.
THEOREM MutualExclusion == Spec => []OneOperationPerSystem
<1>1. IInv => OneOperationPerSystem
  BY DEF IInv, LockInv, OneOperationPerSystem
<1> QED BY <1>1, OperationsInvariant, PTL

\* The active operation of a system is the operation that runs on it.
THEOREM ActiveCorrect == Spec => []ActiveIsRunning
<1>1. IInv => ActiveIsRunning
  <2> SUFFICES ASSUME IInv, NEW s \in Systems, active[s] # None
               PROVE  /\ lock[s] = active[s]
                      /\ Sys(active[s]) = s
                      /\ task[active[s]].pc \in SectionStates \ {"releasing"}
    BY DEF ActiveIsRunning
  <2>1. active[s] \in Ops /\ Sys(active[s]) = s
    BY DEF IInv, ActiveInv
  <2>2. task[active[s]].pc \in Busy
    BY <2>1 DEF IInv, ActiveInv
  <2>3. lock[s] = active[s]
    BY <2>1, <2>2 DEF IInv, LockInv, Busy
  <2> QED BY <2>1, <2>2, <2>3 DEF Busy
<1> QED BY <1>1, OperationsInvariant, PTL

\* A cancellation reaches the operation it was meant for and no other.
THEOREM CancellationCorrect == Spec => []NoStrayCancellation
<1>1. IInv => NoStrayCancellation
  BY DEF IInv, TaskInv, TaskOK, NoStrayCancellation
<1> QED BY <1>1, OperationsInvariant, PTL

\* An operation owns a permit exactly while it uses a connection.
THEOREM PermitsCorrect == Spec => []PermitHeldWhileConnected
<1>1. IInv => PermitHeldWhileConnected
  BY DEF IInv, PermitInv, Holding, PermitHeldWhileConnected
<1> QED BY <1>1, OperationsInvariant, PTL

\* The rows of every call fit what it does, which gives the next two theorems.
THEOREM RowsInvariant == Spec => [](IInv /\ RowsInv)
<1>1. Init => IInv /\ RowsInv
  BY InitInv, RowsInit
<1>2. IInv /\ RowsInv /\ [Next]_vars => (IInv /\ RowsInv)'
  BY StepInv, RowsStep
<1> QED BY <1>1, <1>2, PTL DEF Spec

\* What an operation tells its caller is what its history rows say.
THEOREM ResultsCorrect == Spec => []ResultMatchesRows
<1>1. IInv /\ RowsInv => ResultMatchesRows
  BY OperationsAssumption DEF IInv, TaskInv, RowsInv, RowsFit, EndFit, ResultMatchesRows, Results
<1> QED BY <1>1, RowsInvariant, PTL

\* A row left "started" by a finished operation is followed by a failed row.
THEOREM RowsExplained == Spec => []UnfinishedRowIsExplained
<1>1. RowsInv => UnfinishedRowIsExplained
  BY DEF RowsInv, RowsFit, EndFit, UnfinishedRowIsExplained
<1> QED BY <1>1, RowsInvariant, PTL

\* No command is launched for a call that was asked to stop.
THEOREM LaunchesCorrect == Spec => LaunchesUncancelled
<1>1. IInv /\ IInv' /\ [Next]_vars => [\A o \in Ops : LaunchStep(o) => ~Cancelled(o)]_vars
  BY StepLaunches, OnlyOwnSteps
<1>2. [\A o \in Ops : LaunchStep(o) => ~Cancelled(o)]_vars
        => [\A o \in Ops :
              (task'[o].pc = "running" /\ (task[o].pc # "running" \/ task'[o].step # task[o].step))
                => ~Cancelled(o)]_vars
  BY DEF LaunchStep
<1> QED BY <1>1, <1>2, OperationsInvariant, PTL DEF Spec, LaunchesUncancelled
=============================================================================
