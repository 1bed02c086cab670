------------------------------ MODULE Semaphore ------------------------------
(***************************************************************************)
(* What the SSH connection pool promises its callers, with its queue,      *)
(* counter and continuations left out: a work-conserving counting          *)
(* semaphore whose limit may be changed while permits are held.            *)
(*                                                                         *)
(*   - a caller that finds a free permit and nobody waiting gets it;       *)
(*   - otherwise it waits;                                                 *)
(*   - whenever permits become free, waiting callers get them at once, as  *)
(*     many as there are permits, so that no permit is idle while somebody *)
(*     waits.                                                              *)
(*                                                                         *)
(* Which of the waiting callers is served first is not part of the         *)
(* promise (ConnectionPool serves them in the order they came).            *)
(***************************************************************************)
EXTENDS Integers, FiniteSets

CONSTANTS
  Clients,     \* the callers of SSHConnectionManager.connect
  MaxLimit     \* bound on the configurable limit (settings allow 1..50)

VARIABLES
  limit,       \* permits that may be held
  waiting,     \* callers waiting for a permit
  holding      \* callers that own a permit

semaphoreVars == <<limit, waiting, holding>>

Init ==
  /\ limit \in 1..MaxLimit
  /\ waiting = {}
  /\ holding = {}

\* With holders H and limit n, the callers A move from waiting to holding:
\* as many as there are free permits, or all of them.
Admit(A, H, n) ==
  /\ A \subseteq waiting
  /\ \/ Cardinality(H) + Cardinality(A) = n
     \/ Cardinality(H) + Cardinality(A) < n /\ A = waiting
     \/ Cardinality(H) >= n /\ A = {}
  /\ waiting' = waiting \ A
  /\ holding' = H \union A
  /\ limit' = n

Enter(c) ==
  /\ c \notin waiting \union holding
  /\ Cardinality(holding) < limit
  /\ waiting = {}
  /\ holding' = holding \union {c}
  /\ UNCHANGED <<limit, waiting>>

Wait(c) ==
  /\ c \notin waiting \union holding
  /\ Cardinality(holding) >= limit
  /\ waiting' = waiting \union {c}
  /\ UNCHANGED <<limit, holding>>

Leave(c) ==
  /\ c \in holding
  /\ \E A \in SUBSET waiting : Admit(A, holding \ {c}, limit)

SetLimit(n) == \E A \in SUBSET waiting : Admit(A, holding, n)

Next ==
  \/ \E c \in Clients : Enter(c) \/ Wait(c) \/ Leave(c)
  \/ \E n \in 1..MaxLimit : SetLimit(n)

Spec == Init /\ [][Next]_semaphoreVars
=============================================================================
