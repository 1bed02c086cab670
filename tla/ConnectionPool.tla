---------------------------- MODULE ConnectionPool ----------------------------
(***************************************************************************)
(* The permits of SSHConnectionManager (server/ssh/connection.ts): the     *)
(* counter currentConnections, the queue of resolve functions, and the     *)
(* path of a call of connect() from the permit to disconnect().            *)
(*                                                                         *)
(* JavaScript runs one task at a time, so each action below is the code    *)
(* between two awaits.  A client is one caller; it may call connect again  *)
(* after it disconnected or failed, as testConnection followed by the      *)
(* detection of package managers does.                                     *)
(***************************************************************************)
EXTENDS Integers, Sequences, FiniteSets

CONSTANTS
  Clients,      \* the concurrent callers of connect()
  MaxLimit,     \* largest value of the setting concurrent_connections
  Unresolvable  \* the clients whose ProxyJump chain makes resolveChain throw

ASSUME PoolAssumption ==
  /\ IsFiniteSet(Clients)
  /\ MaxLimit \in Nat \ {0}
  /\ Unresolvable \subseteq Clients

VARIABLES
  maxConcurrent,
  currentConnections,
  queue,        \* clients whose promise is in this.queue, oldest first
  pc            \* where each client is in connect()

vars == <<maxConcurrent, currentConnections, queue, pc>>

\* "idle"       no call of connect() in progress
\* "queued"     awaiting a promise of acquireSemaphore
\* "permitted"  the permit is counted, the continuation has not run yet
\* "connecting" awaiting the hops of the chain
\* "connected"  connect() returned a client, disconnect() not called yet
States == {"idle", "queued", "permitted", "connecting", "connected"}

HoldingStates == {"permitted", "connecting", "connected"}

\* The calls that own a permit.
Holders == {c \in Clients : pc[c] \in HoldingStates}

-----------------------------------------------------------------------------
Init ==
  /\ maxConcurrent \in 1..MaxLimit
  /\ currentConnections = 0
  /\ queue = <<>>
  /\ pc = [c \in Clients |-> "idle"]

\* How many promises the loop of drainQueue resolves.
DrainCount(count, limit) ==
  IF count >= limit THEN 0
  ELSE IF limit - count < Len(queue) THEN limit - count ELSE Len(queue)

\* MUTANT of DrainQueue: queue.pop() for queue.shift().
DrainQueueFromBack(count, limit, control) ==
  LET n        == DrainCount(count, limit)
      rest     == Len(queue) - n
      resolved == {queue[i] : i \in (rest + 1)..Len(queue)}
  IN  /\ currentConnections' = count + n
      /\ queue' = SubSeq(queue, 1, rest)
      /\ pc' = [c \in Clients |-> IF c \in resolved THEN "permitted" ELSE control[c]]

\* drainQueue, run with `count` permits taken, a limit of `limit` and the
\* control states `control`.
DrainQueue(count, limit, control) ==
  LET n        == DrainCount(count, limit)
      resolved == {queue[i] : i \in 1..n}
  IN  /\ currentConnections' = count + n
      /\ queue' = SubSeq(queue, n + 1, Len(queue))
      /\ pc' = [c \in Clients |-> IF c \in resolved THEN "permitted" ELSE control[c]]

ReleaseSemaphore(c) ==
  /\ DrainQueue(currentConnections - 1, maxConcurrent, [pc EXCEPT ![c] = "idle"])
  /\ UNCHANGED maxConcurrent

\* connect() starts: the synchronous part of acquireSemaphore.
AcquireSemaphore(c) ==
  /\ pc[c] = "idle"
  /\ \/ /\ currentConnections < maxConcurrent
        /\ currentConnections' = currentConnections + 1
        /\ pc' = [pc EXCEPT ![c] = "permitted"]
        /\ UNCHANGED queue
     \/ /\ currentConnections >= maxConcurrent
        /\ queue' = Append(queue, c)
        /\ pc' = [pc EXCEPT ![c] = "queued"]
        /\ UNCHANGED currentConnections
  /\ UNCHANGED maxConcurrent

\* The continuation after the permit: resolveChain runs before the try block,
\* so an exception leaves connect() without reaching releaseSemaphore.
ResolveChain(c) ==
  /\ pc[c] = "permitted"
  /\ pc' = [pc EXCEPT ![c] = IF c \in Unresolvable THEN "idle" ELSE "connecting"]
  /\ UNCHANGED <<maxConcurrent, currentConnections, queue>>

\* Every hop is connected and no host key is left to approve.
ConnectSucceeds(c) ==
  /\ pc[c] = "connecting"
  /\ pc' = [pc EXCEPT ![c] = "connected"]
  /\ UNCHANGED <<maxConcurrent, currentConnections, queue>>

\* MUTANT of ConnectFails: no releaseSemaphore in the catch block.
ConnectFailsNoRelease(c) ==
  /\ pc[c] = "connecting"
  /\ pc' = [pc EXCEPT ![c] = "idle"]
  /\ UNCHANGED <<maxConcurrent, currentConnections, queue>>

\* A hop fails, times out, or its host key needs approval: the catch block.
ConnectFails(c) ==
  /\ pc[c] = "connecting"
  /\ ReleaseSemaphore(c)

Disconnect(c) ==
  /\ pc[c] = "connected"
  /\ ReleaseSemaphore(c)

\* MUTANT of UpdateRuntimeConfig: the new limit is stored without a drain.
UpdateRuntimeConfigNoDrain(n) ==
  /\ maxConcurrent' = n
  /\ UNCHANGED <<currentConnections, queue, pc>>

\* PUT /settings: reconfigureSSHManager changes the limit while calls run.
UpdateRuntimeConfig(n) ==
  /\ maxConcurrent' = n
  /\ DrainQueue(currentConnections, n, pc)

Next ==
  \/ \E c \in Clients :
       \/ AcquireSemaphore(c)
       \/ ResolveChain(c)
       \/ ConnectSucceeds(c)
       \/ ConnectFails(c)
       \/ Disconnect(c)
  \/ \E n \in 1..MaxLimit : UpdateRuntimeConfig(n)

Spec == Init /\ [][Next]_vars

\* The event loop runs every continuation; connectSingleHop has a timeout
\* (readyTimeout), so an attempt ends; every caller disconnects in a finally
\* block after commands that have a timeout of their own.  Nothing obliges a
\* client to call connect() or an administrator to change the limit.
Fairness ==
  \A c \in Clients :
    /\ WF_vars(ResolveChain(c))
    /\ WF_vars(ConnectSucceeds(c) \/ ConnectFails(c))
    /\ WF_vars(Disconnect(c))

FairSpec == Spec /\ Fairness

-----------------------------------------------------------------------------
TypeOK ==
  /\ maxConcurrent \in 1..MaxLimit
  /\ currentConnections \in Nat
  /\ queue \in Seq(Clients)
  /\ pc \in [Clients -> States]

\* The queue holds exactly the calls that wait, each once.
QueueMatchesWaiters ==
  /\ \A i \in 1..Len(queue) : pc[queue[i]] = "queued"
  /\ \A i, j \in 1..Len(queue) : queue[i] = queue[j] => i = j
  /\ \A c \in Clients : pc[c] = "queued" => \E i \in 1..Len(queue) : queue[i] = c

\* No permit is lost and none is handed out twice: when every chain resolves,
\* the counter is the number of calls that own a permit (acquireSemaphore,
\* releaseSemaphore, drainQueue and the exits of connect()).
PermitsAccounted ==
  Unresolvable = {} => currentConnections = Cardinality(Holders)

\* The counter is the number of simultaneous connections, whatever the chains
\* are.  The README says so of the limit; the code keeps it only when every
\* chain resolves (connection.ts:311 throws outside the try block).
CountsSimultaneousConnections == currentConnections = Cardinality(Holders)

\* No lost wake-up: a call waits only while all permits are taken, also after
\* the limit was raised or lowered while calls waited.
NoIdlePermit == queue # <<>> => currentConnections >= maxConcurrent

\* A permit is granted only under the limit in force, even when the limit was
\* just lowered below the number of open connections.
GrantsRespectLimit ==
  [][currentConnections' > currentConnections
       => currentConnections' <= maxConcurrent']_vars

\* Nobody overtakes: a call that needs not queue finds an empty queue, and a
\* waiting call is served only with all calls that queued before it.
NoOvertaking ==
  [][/\ \A c \in Clients : pc[c] = "idle" /\ pc'[c] = "permitted" => queue = <<>>
     /\ \A i, j \in 1..Len(queue) :
          i < j /\ pc'[queue[j]] = "permitted" => pc'[queue[i]] = "permitted"]_vars

\* A call that queued is eventually served (and then connects or fails).
EveryWaiterServed == \A c \in Clients : pc[c] = "queued" ~> pc[c] = "permitted"

-----------------------------------------------------------------------------
\* The pool implements the abstract semaphore as long as every chain resolves.
Abstract == INSTANCE Semaphore WITH
  limit   <- maxConcurrent,
  waiting <- {c \in Clients : pc[c] = "queued"},
  holding <- Holders

ImplementsSemaphore == Abstract!Spec
=============================================================================
