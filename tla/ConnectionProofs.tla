---------------------------- MODULE ConnectionProofs ---------------------------
(***************************************************************************)
(* Proofs about what the dashboard does over SSH, for every value of the   *)
(* constants: the pool of connections (ConnectionPool) and the commands    *)
(* that outlive a connection (PersistentCommand).                          *)
(*                                                                         *)
(* The inductive invariant of the pool is PoolInv: the type invariant, the *)
(* agreement of queue and control states, the two bounds that tie the      *)
(* counter to the callers that own a permit, and NoIdlePermit.  drainQueue *)
(* is the only loop, and DrainPreserves is what one execution of it        *)
(* guarantees; every action that drains cites it.  That of a command is    *)
(* Inv: what the script wrote is in its files as long as nobody removed    *)
(* them, and what the dashboard holds as a code was in the file.           *)
(***************************************************************************)
EXTENDS ConnectionPool, PersistentCommand, FiniteSetTheorems, SequenceTheorems, TLAPS

\* The callers that own a permit when the control states are `control`.
HoldersIn(control) == {c \in Clients : control[c] \in HoldingStates}

\* The queue holds exactly the callers that `control` says wait, each once.
QueueMatches(q, control) ==
  /\ \A i \in 1..Len(q) : control[q[i]] = "queued"
  /\ \A i, j \in 1..Len(q) : q[i] = q[j] => i = j
  /\ \A c \in Clients : control[c] = "queued" => \E i \in 1..Len(q) : q[i] = c

\* `count` covers the callers that own a permit, exactly so without leaks.
Covers(count, control) ==
  /\ count >= Cardinality(HoldersIn(control))
  /\ Unresolvable = {} => count = Cardinality(HoldersIn(control))

PoolInv ==
  /\ TypeOK
  /\ QueueMatchesWaiters
  /\ Covers(currentConnections, pc)
  /\ NoIdlePermit

-----------------------------------------------------------------------------
(* Callers that own a permit form a finite set. *)
LEMMA HoldersFinite ==
  ASSUME NEW control
  PROVE  /\ IsFiniteSet(HoldersIn(control))
         /\ Cardinality(HoldersIn(control)) \in Nat
<1>1. HoldersIn(control) \in SUBSET Clients
  BY DEF HoldersIn
<1> QED BY <1>1, PoolAssumption, FS_Subset, FS_CardinalityType

(* A caller that takes a permit is one more, a caller that drops it one less. *)
LEMMA HoldersOfExcept ==
  ASSUME NEW control \in [Clients -> States], NEW c \in Clients, NEW s \in States
  PROVE  LET after == [control EXCEPT ![c] = s]
         IN  Cardinality(HoldersIn(after)) =
               IF s \in HoldingStates /\ control[c] \notin HoldingStates
               THEN Cardinality(HoldersIn(control)) + 1
               ELSE IF s \notin HoldingStates /\ control[c] \in HoldingStates
               THEN Cardinality(HoldersIn(control)) - 1
               ELSE Cardinality(HoldersIn(control))
<1> DEFINE after == [control EXCEPT ![c] = s]
           H == HoldersIn(control)
<1>1. IsFiniteSet(H)
  BY HoldersFinite
<1>2. CASE s \in HoldingStates /\ control[c] \notin HoldingStates
  <2>1. HoldersIn(after) = H \union {c} /\ c \notin H
    BY <1>2 DEF HoldersIn
  <2> QED BY <1>1, <1>2, <2>1, FS_AddElement
<1>3. CASE s \notin HoldingStates /\ control[c] \in HoldingStates
  <2>1. HoldersIn(after) = H \ {c} /\ c \in H
    BY <1>3 DEF HoldersIn
  <2> QED BY <1>1, <1>3, <2>1, FS_RemoveElement
<1>4. CASE (s \in HoldingStates) = (control[c] \in HoldingStates)
  <2>1. HoldersIn(after) = H
    BY <1>4 DEF HoldersIn
  <2> QED BY <1>4, <2>1
<1> QED BY <1>2, <1>3, <1>4

(* The loop of drainQueue resolves between none and all of the promises, *)
(* and stops early only when the limit is reached.                        *)
LEMMA DrainCountBounds ==
  ASSUME queue \in Seq(Clients), NEW count \in Nat, NEW limit \in Nat
  PROVE  /\ DrainCount(count, limit) \in 0..Len(queue)
         /\ DrainCount(count, limit) > 0 => count + DrainCount(count, limit) <= limit
         /\ DrainCount(count, limit) < Len(queue)
              => count + DrainCount(count, limit) >= limit
<1>1. Len(queue) \in Nat
  BY LenProperties
<1> QED BY <1>1 DEF DrainCount

(* The first n entries of a queue without repetitions are n callers. *)
LEMMA PrefixCardinality ==
  ASSUME queue \in Seq(Clients), NEW n \in 0..Len(queue),
         \A i, j \in 1..Len(queue) : queue[i] = queue[j] => i = j
  PROVE  LET P == {queue[i] : i \in 1..n}
         IN  IsFiniteSet(P) /\ Cardinality(P) = n
<1> DEFINE P == {queue[i] : i \in 1..n}
           f == [i \in 1..n |-> queue[i]]
<1>1. Len(queue) \in Nat /\ n \in Nat /\ \A i \in 1..n : i \in 1..Len(queue)
  BY LenProperties
<1>2. IsFiniteSet(1..n) /\ Cardinality(1..n) = n
  BY <1>1, FS_Interval
<1>3. f \in Surjection(1..n, P)
  BY DEF Surjection
<1>4. f \in Injection(1..n, P)
  BY <1>1 DEF Injection, IsInjective
<1> QED BY <1>2, <1>3, <1>4, FS_Surjection

(* One execution of drainQueue: whoever calls it with a counter that covers *)
(* the owners of permits finds the counter covering the owners afterwards,  *)
(* the queue in step with the control states, and no permit idle.           *)
LEMMA DrainPreserves ==
  ASSUME TypeOK,
         NEW count \in Nat, NEW limit \in Nat,
         NEW control \in [Clients -> States],
         QueueMatches(queue, control), Covers(count, control),
         DrainQueue(count, limit, control)
  PROVE  /\ currentConnections' \in Nat
         /\ queue' \in Seq(Clients)
         /\ pc' \in [Clients -> States]
         /\ QueueMatches(queue', pc')
         /\ Covers(currentConnections', pc')
         /\ queue' # <<>> => currentConnections' >= limit
         /\ currentConnections' > count => currentConnections' <= limit
<1> DEFINE n == DrainCount(count, limit)
           resolved == {queue[i] : i \in 1..n}
<1> USE DEF TypeOK
<1>1. Len(queue) \in Nat /\ queue \in Seq(Clients) /\ \A i \in 1..Len(queue) : queue[i] \in Clients
  BY LenProperties, ElementOfSeq
<1>2. /\ n \in 0..Len(queue) /\ n \in Nat
      /\ n > 0 => count + n <= limit
      /\ n < Len(queue) => count + n >= limit
  BY <1>1, DrainCountBounds
<1> HIDE DEF n
<1>3. /\ currentConnections' = count + n
      /\ queue' = SubSeq(queue, n + 1, Len(queue))
      /\ pc' = [c \in Clients |-> IF c \in resolved THEN "permitted" ELSE control[c]]
  BY DEF DrainQueue, n
<1>4. /\ queue' \in Seq(Clients)
      /\ Len(queue') = Len(queue) - n
      /\ \A i \in 1..(Len(queue) - n) : queue'[i] = queue[n + i]
  <2>1. \A i \in (n + 1)..Len(queue) : queue[i] \in Clients
    BY <1>1, <1>2
  <2>2. /\ SubSeq(queue, n + 1, Len(queue)) \in Seq(Clients)
        /\ Len(SubSeq(queue, n + 1, Len(queue)))
             = IF n + 1 <= Len(queue) THEN Len(queue) - (n + 1) + 1 ELSE 0
        /\ \A i \in 1..(Len(queue) - (n + 1) + 1) :
             SubSeq(queue, n + 1, Len(queue))[i] = queue[n + 1 + i - 1]
    BY <2>1, <1>1, <1>2, SubSeqProperties
  <2> QED BY <2>2, <1>1, <1>2, <1>3
<1>5. pc' \in [Clients -> States]
  BY <1>3 DEF States
<1>6. \A i \in 1..Len(queue) : control[queue[i]] = "queued"
  BY DEF QueueMatches
<1>7. \A i, j \in 1..Len(queue) : queue[i] = queue[j] => i = j
  BY DEF QueueMatches
<1>8. QueueMatches(queue', pc')
  <2>1. ASSUME NEW i \in 1..Len(queue')
        PROVE  pc'[queue'[i]] = "queued"
    <3>1. n + i \in 1..Len(queue) /\ queue'[i] = queue[n + i]
      BY <1>1, <1>2, <1>4
    <3>2. queue[n + i] \notin resolved
      BY <3>1, <1>1, <1>2, <1>7
    <3> QED BY <3>1, <3>2, <1>1, <1>3, <1>6
  <2>2. ASSUME NEW i \in 1..Len(queue'), NEW j \in 1..Len(queue'), queue'[i] = queue'[j]
        PROVE  i = j
    <3>1. /\ n + i \in 1..Len(queue) /\ queue'[i] = queue[n + i]
          /\ n + j \in 1..Len(queue) /\ queue'[j] = queue[n + j]
      BY <1>1, <1>2, <1>4
    <3>2. n + i = n + j
      BY <3>1, <2>2, <1>7
    <3> QED BY <3>2, <1>2, <1>4
  <2>3. ASSUME NEW c \in Clients, pc'[c] = "queued"
        PROVE  \E i \in 1..Len(queue') : queue'[i] = c
    <3>1. c \notin resolved /\ control[c] = "queued"
      BY <2>3, <1>3
    <3>2. PICK i \in 1..Len(queue) : queue[i] = c
      BY <3>1 DEF QueueMatches
    <3>3. i > n
      BY <3>1, <3>2, <1>2
    <3>4. i - n \in 1..Len(queue') /\ queue'[i - n] = queue[n + (i - n)]
      BY <3>3, <1>1, <1>2, <1>4
    <3>5. n + (i - n) = i
      BY <1>2
    <3> QED BY <3>2, <3>4, <3>5
  <2> QED BY <2>1, <2>2, <2>3 DEF QueueMatches
<1>9. Cardinality(HoldersIn(pc')) = Cardinality(HoldersIn(control)) + n
  <2>1. IsFiniteSet(resolved) /\ Cardinality(resolved) = n
    BY <1>1, <1>2, <1>7, PrefixCardinality
  <2>2. resolved \subseteq Clients /\ \A c \in resolved : control[c] = "queued"
    BY <1>1, <1>2, <1>6
  <2>3. HoldersIn(pc') = HoldersIn(control) \union resolved
    BY <2>2, <1>3 DEF HoldersIn, HoldingStates
  <2>4. HoldersIn(control) \cap resolved = {}
    BY <2>2 DEF HoldersIn, HoldingStates
  <2>5. IsFiniteSet(HoldersIn(control)) /\ Cardinality(HoldersIn(control)) \in Nat
    BY HoldersFinite
  <2>6. Cardinality(HoldersIn(control) \cap resolved) = 0
    BY <2>4, FS_EmptySet
  <2>7. Cardinality(HoldersIn(control) \union resolved)
          = Cardinality(HoldersIn(control)) + Cardinality(resolved)
              - Cardinality(HoldersIn(control) \cap resolved)
    <3> HIDE DEF resolved
    <3> QED BY <2>1, <2>5, FS_Union
  <2> QED BY <2>1, <2>3, <2>5, <2>6, <2>7, <1>2
<1>10. Covers(currentConnections', pc')
  <2>1. Cardinality(HoldersIn(control)) \in Nat
    BY HoldersFinite
  <2>2. /\ count >= Cardinality(HoldersIn(control))
        /\ Unresolvable = {} => count = Cardinality(HoldersIn(control))
    BY DEF Covers
  <2>3. currentConnections' >= Cardinality(HoldersIn(pc'))
    <3> HIDE DEF resolved
    <3> QED BY <2>1, <2>2, <1>2, <1>3, <1>9
  <2>4. Unresolvable = {} => currentConnections' = Cardinality(HoldersIn(pc'))
    <3> HIDE DEF resolved
    <3> QED BY <2>1, <2>2, <1>2, <1>3, <1>9
  <2> QED BY <2>3, <2>4 DEF Covers
<1>11. queue' # <<>> => currentConnections' >= limit
  <2> SUFFICES ASSUME queue' # <<>> PROVE currentConnections' >= limit
    OBVIOUS
  <2>1. Len(queue') > 0
    BY <1>4, EmptySeq
  <2> QED BY <2>1, <1>1, <1>2, <1>3, <1>4
<1> QED BY <1>2, <1>3, <1>4, <1>5, <1>8, <1>10, <1>11

-----------------------------------------------------------------------------
(* A call that owns a permit gives it back (catch block or disconnect). *)
LEMMA ReleasePreserves ==
  ASSUME PoolInv, NEW c \in Clients, pc[c] \in HoldingStates, ReleaseSemaphore(c)
  PROVE  PoolInv' /\ (currentConnections' > currentConnections
                        => currentConnections' <= maxConcurrent')
<1> DEFINE control == [pc EXCEPT ![c] = "idle"]
           count == currentConnections - 1
<1>1. TypeOK /\ control \in [Clients -> States] /\ maxConcurrent \in Nat
  BY PoolAssumption DEF PoolInv, TypeOK, States
<1>2. QueueMatches(queue, control)
  <2>1. \A i \in 1..Len(queue) : queue[i] \in Clients
    BY <1>1, ElementOfSeq DEF TypeOK
  <2>2. pc[c] # "queued"
    BY DEF HoldingStates
  <2> QED BY <1>1, <2>1, <2>2 DEF PoolInv, QueueMatchesWaiters, QueueMatches, TypeOK
<1>3. Cardinality(HoldersIn(control)) = Cardinality(HoldersIn(pc)) - 1
  BY <1>1, HoldersOfExcept DEF TypeOK, States, HoldingStates
<1>4. /\ Cardinality(HoldersIn(control)) \in Nat
      /\ Cardinality(HoldersIn(pc)) \in Nat
  BY HoldersFinite
<1>5. /\ currentConnections \in Nat
      /\ currentConnections >= Cardinality(HoldersIn(pc))
      /\ Unresolvable = {} => currentConnections = Cardinality(HoldersIn(pc))
  BY DEF PoolInv, Covers, TypeOK
<1>6. count \in Nat /\ Covers(count, control)
  <2> HIDE DEF control
  <2> QED BY <1>3, <1>4, <1>5 DEF Covers
<1>7. DrainQueue(count, maxConcurrent, control) /\ maxConcurrent' = maxConcurrent
  BY DEF ReleaseSemaphore
<1>8. /\ currentConnections' \in Nat
      /\ queue' \in Seq(Clients)
      /\ pc' \in [Clients -> States]
      /\ QueueMatches(queue', pc')
      /\ Covers(currentConnections', pc')
      /\ queue' # <<>> => currentConnections' >= maxConcurrent
      /\ currentConnections' > count => currentConnections' <= maxConcurrent
  <2> HIDE DEF control, count
  <2> QED BY <1>1, <1>2, <1>6, <1>7, DrainPreserves
<1>9. currentConnections' > currentConnections => currentConnections' > count
  BY <1>5, <1>8
<1> QED
  BY <1>1, <1>7, <1>8, <1>9
     DEF PoolInv, TypeOK, QueueMatches, QueueMatchesWaiters, NoIdlePermit

(* Every step keeps PoolInv, and grants permits only under the limit. *)
LEMMA StepPreserves ==
  ASSUME PoolInv, [Next]_vars
  PROVE  PoolInv' /\ (currentConnections' > currentConnections
                        => currentConnections' <= maxConcurrent')
<1>1. /\ currentConnections \in Nat /\ maxConcurrent \in Nat
      /\ queue \in Seq(Clients) /\ pc \in [Clients -> States]
  BY PoolAssumption DEF PoolInv, TypeOK
<1>2. \A i \in 1..Len(queue) : queue[i] \in Clients
  BY <1>1, ElementOfSeq
<1>3. ASSUME NEW c \in Clients, AcquireSemaphore(c),
             currentConnections < maxConcurrent
      PROVE  PoolInv' /\ currentConnections' <= maxConcurrent'
  <2>1. /\ currentConnections' = currentConnections + 1
        /\ pc' = [pc EXCEPT ![c] = "permitted"] /\ pc[c] = "idle"
        /\ queue' = queue /\ maxConcurrent' = maxConcurrent
    BY <1>1, <1>3 DEF AcquireSemaphore
  <2>2. Cardinality(HoldersIn(pc')) = Cardinality(HoldersIn(pc)) + 1
    BY <1>1, <2>1, HoldersOfExcept DEF States, HoldingStates
  <2>3. Covers(currentConnections', pc')
    <3>1. Cardinality(HoldersIn(pc)) \in Nat
      BY HoldersFinite
    <3> QED BY <1>1, <2>1, <2>2, <3>1 DEF PoolInv, Covers
  <2>4. TypeOK'
    BY <1>1, <2>1 DEF PoolInv, TypeOK, States
  <2>5. QueueMatchesWaiters'
    BY <1>1, <1>2, <2>1 DEF PoolInv, QueueMatchesWaiters
  <2>6. NoIdlePermit'
    BY <1>1, <1>3, <2>1 DEF PoolInv, NoIdlePermit
  <2> QED BY <1>1, <1>3, <2>1, <2>3, <2>4, <2>5, <2>6 DEF PoolInv
<1>4. ASSUME NEW c \in Clients, AcquireSemaphore(c),
             currentConnections >= maxConcurrent
      PROVE  PoolInv' /\ currentConnections' = currentConnections
  <2>1. /\ currentConnections' = currentConnections
        /\ pc' = [pc EXCEPT ![c] = "queued"] /\ pc[c] = "idle"
        /\ queue' = Append(queue, c) /\ maxConcurrent' = maxConcurrent
    BY <1>1, <1>4 DEF AcquireSemaphore
  <2>2. Covers(currentConnections', pc')
    <3>1. Cardinality(HoldersIn(pc')) = Cardinality(HoldersIn(pc))
      BY <1>1, <2>1, HoldersOfExcept DEF States, HoldingStates
    <3> QED BY <2>1, <3>1 DEF PoolInv, Covers
  <2>3. /\ Append(queue, c) \in Seq(Clients)
        /\ Len(queue') = Len(queue) + 1 /\ Len(queue) \in Nat
        /\ \A i \in 1..Len(queue) : queue'[i] = queue[i]
        /\ queue'[Len(queue) + 1] = c
    BY <1>1, <2>1, AppendProperties, LenProperties
  <2>4. TypeOK'
    BY <1>1, <2>1, <2>3 DEF PoolInv, TypeOK, States
  <2>5. QueueMatchesWaiters'
    <3>1. \A i \in 1..Len(queue) : pc[queue[i]] = "queued" /\ queue[i] # c
      BY <2>1 DEF PoolInv, QueueMatchesWaiters
    <3>2. \A i \in 1..Len(queue') : i \in 1..Len(queue) \/ i = Len(queue) + 1
      BY <2>3
    <3>3. \A i \in 1..Len(queue') : pc'[queue'[i]] = "queued"
      BY <1>1, <1>2, <2>1, <2>3, <3>1, <3>2
    <3>4. \A i, j \in 1..Len(queue') : queue'[i] = queue'[j] => i = j
      <4>1. \A i, j \in 1..Len(queue) : queue[i] = queue[j] => i = j
        BY DEF PoolInv, QueueMatchesWaiters
      <4> QED BY <2>3, <3>1, <3>2, <4>1
    <3>5. ASSUME NEW d \in Clients, pc'[d] = "queued"
          PROVE  \E i \in 1..Len(queue') : queue'[i] = d
      <4>1. CASE d = c
        BY <2>3, <4>1
      <4>2. CASE d # c
        <5>1. PICK i \in 1..Len(queue) : queue[i] = d
          BY <1>1, <2>1, <3>5, <4>2 DEF PoolInv, QueueMatchesWaiters
        <5>2. i \in 1..Len(queue') /\ queue'[i] = d
          BY <2>3, <5>1
        <5> QED BY <5>2
      <4> QED BY <4>1, <4>2
    <3> QED BY <3>3, <3>4, <3>5 DEF QueueMatchesWaiters
  <2>6. NoIdlePermit'
    BY <1>1, <1>4, <2>1 DEF NoIdlePermit
  <2> QED BY <2>1, <2>2, <2>4, <2>5, <2>6 DEF PoolInv
<1>5. ASSUME NEW c \in Clients, ResolveChain(c) \/ ConnectSucceeds(c)
      PROVE  PoolInv' /\ currentConnections' = currentConnections
  <2>1. PICK s \in {"idle", "connecting", "connected"} :
          /\ pc' = [pc EXCEPT ![c] = s]
          /\ s = "idle" => c \in Unresolvable
    BY <1>5 DEF ResolveChain, ConnectSucceeds
  <2>2. /\ currentConnections' = currentConnections
        /\ queue' = queue /\ maxConcurrent' = maxConcurrent
        /\ pc[c] \in {"permitted", "connecting"}
    BY <1>5 DEF ResolveChain, ConnectSucceeds
  <2>3. Covers(currentConnections', pc')
    <3>1. /\ Cardinality(HoldersIn(pc)) \in Nat
          /\ Cardinality(HoldersIn(pc')) =
               IF s = "idle" THEN Cardinality(HoldersIn(pc)) - 1
                             ELSE Cardinality(HoldersIn(pc))
      <4>1. s \in States /\ (s \in HoldingStates <=> s # "idle")
        BY <2>1 DEF States, HoldingStates
      <4>2. pc[c] \in HoldingStates
        BY <2>2 DEF HoldingStates
      <4> QED BY <1>1, <2>1, <4>1, <4>2, HoldersFinite, HoldersOfExcept
    <3>2. Unresolvable = {} => s # "idle"
      BY <2>1
    <3>3. /\ currentConnections >= Cardinality(HoldersIn(pc))
          /\ Unresolvable = {} => currentConnections = Cardinality(HoldersIn(pc))
      BY DEF PoolInv, Covers
    <3>4. /\ currentConnections >= Cardinality(HoldersIn(pc'))
          /\ Unresolvable = {} => currentConnections = Cardinality(HoldersIn(pc'))
      BY <1>1, <3>1, <3>2, <3>3
    <3> QED BY <2>2, <3>4 DEF Covers
  <2>4. TypeOK'
    BY <1>1, <2>1, <2>2 DEF PoolInv, TypeOK, States
  <2>5. QueueMatchesWaiters'
    BY <1>1, <1>2, <2>1, <2>2 DEF PoolInv, QueueMatchesWaiters
  <2>6. NoIdlePermit'
    BY <2>2 DEF PoolInv, NoIdlePermit
  <2> QED BY <2>2, <2>3, <2>4, <2>5, <2>6 DEF PoolInv
<1>6. ASSUME NEW c \in Clients, ConnectFails(c) \/ Disconnect(c)
      PROVE  PoolInv' /\ (currentConnections' > currentConnections
                            => currentConnections' <= maxConcurrent')
  <2>1. pc[c] \in HoldingStates /\ ReleaseSemaphore(c)
    BY <1>6 DEF ConnectFails, Disconnect, HoldingStates
  <2> QED BY <2>1, ReleasePreserves
<1>7. ASSUME NEW n \in 1..MaxLimit, UpdateRuntimeConfig(n)
      PROVE  PoolInv' /\ (currentConnections' > currentConnections
                            => currentConnections' <= maxConcurrent')
  <2>1. /\ n \in Nat /\ maxConcurrent' = n
        /\ DrainQueue(currentConnections, n, pc)
    BY <1>7, PoolAssumption DEF UpdateRuntimeConfig
  <2>2. TypeOK /\ QueueMatches(queue, pc) /\ Covers(currentConnections, pc)
    BY DEF PoolInv, QueueMatches, QueueMatchesWaiters
  <2>3. /\ currentConnections' \in Nat
        /\ queue' \in Seq(Clients)
        /\ pc' \in [Clients -> States]
        /\ QueueMatches(queue', pc')
        /\ Covers(currentConnections', pc')
        /\ queue' # <<>> => currentConnections' >= n
        /\ currentConnections' > currentConnections => currentConnections' <= n
    BY <1>1, <2>1, <2>2, DrainPreserves
  <2> QED
    BY <1>7, <2>1, <2>3
       DEF PoolInv, TypeOK, QueueMatches, QueueMatchesWaiters, NoIdlePermit
<1>8. ASSUME UNCHANGED vars
      PROVE  PoolInv' /\ currentConnections' = currentConnections
  BY <1>8 DEF vars, PoolInv, TypeOK, QueueMatchesWaiters, Covers, HoldersIn,
              NoIdlePermit
<1>9. ASSUME NEW c \in Clients, AcquireSemaphore(c)
      PROVE  PoolInv' /\ (currentConnections' > currentConnections
                            => currentConnections' <= maxConcurrent')
  BY <1>1, <1>3, <1>4, <1>9
<1> QED BY <1>1, <1>5, <1>6, <1>7, <1>8, <1>9 DEF Next

LEMMA InitPoolInv == Init => PoolInv
<1> SUFFICES ASSUME Init PROVE PoolInv
  OBVIOUS
<1>1. TypeOK
  BY PoolAssumption, EmptySeq DEF Init, TypeOK, States
<1>2. QueueMatchesWaiters /\ NoIdlePermit
  BY EmptySeq DEF Init, QueueMatchesWaiters, NoIdlePermit
<1>3. HoldersIn(pc) = {}
  BY DEF Init, HoldersIn, HoldingStates
<1>4. Covers(currentConnections, pc)
  <2>1. Cardinality(HoldersIn(pc)) = 0
    BY <1>3, FS_EmptySet
  <2> QED BY <2>1 DEF Init, Covers
<1> QED BY <1>1, <1>2, <1>4 DEF PoolInv

(* PoolInv is an inductive invariant of the pool. *)
THEOREM PoolInvariant == Spec => []PoolInv
<1>1. Init => PoolInv
  BY InitPoolInv
<1>2. PoolInv /\ [Next]_vars => PoolInv'
  BY StepPreserves
<1> QED BY <1>1, <1>2, PTL DEF Spec

(* The state keeps its types: in particular the counter of the pool never *)
(* goes below zero, whichever exits of connect() and disconnect() run.    *)
THEOREM TypeCorrect == Spec => []TypeOK
<1>1. PoolInv => TypeOK
  BY DEF PoolInv
<1> QED BY <1>1, PoolInvariant, PTL

(* The queue holds exactly the callers that wait, each once. *)
THEOREM QueueCorrect == Spec => []QueueMatchesWaiters
<1>1. PoolInv => QueueMatchesWaiters
  BY DEF PoolInv
<1> QED BY <1>1, PoolInvariant, PTL

(* acquireSemaphore, drainQueue and releaseSemaphore neither lose nor       *)
(* duplicate a permit as long as every ProxyJump chain resolves.            *)
THEOREM PermitsCorrect == Spec => []PermitsAccounted
<1>1. PoolInv => PermitsAccounted
  BY DEF PoolInv, Covers, PermitsAccounted, Holders, HoldersIn
<1> QED BY <1>1, PoolInvariant, PTL

(* No lost wake-up: a caller waits only while no permit is free, even when *)
(* chains do not resolve and their permits leak.                           *)
THEOREM NoLostWakeUp == Spec => []NoIdlePermit
<1>1. PoolInv => NoIdlePermit
  BY DEF PoolInv
<1> QED BY <1>1, PoolInvariant, PTL

(* A permit is granted only under the limit in force after the step. *)
THEOREM GrantsUnderLimit == Spec => GrantsRespectLimit
<1>1. PoolInv /\ [Next]_vars
        => [currentConnections' > currentConnections
              => currentConnections' <= maxConcurrent']_vars
  BY StepPreserves
<1> QED BY <1>1, PoolInvariant, PTL DEF Spec, GrantsRespectLimit

-----------------------------------------------------------------------------
(* The promises drainQueue resolves are the oldest ones of the queue, and   *)
(* the callers it wakes were waiting.                                       *)
LEMMA DrainServesOldest ==
  ASSUME TypeOK, NEW count \in Nat, NEW limit \in Nat,
         NEW control \in [Clients -> States],
         QueueMatches(queue, control), DrainQueue(count, limit, control)
  PROVE  /\ \A i, j \in 1..Len(queue) :
              i < j /\ pc'[queue[j]] = "permitted" => pc'[queue[i]] = "permitted"
         /\ \A c \in Clients :
              control[c] = "idle" => pc'[c] = "idle"
<1> DEFINE n == DrainCount(count, limit)
           resolved == {queue[i] : i \in 1..n}
<1>1. /\ n \in Nat /\ n <= Len(queue) /\ Len(queue) \in Nat
      /\ \A i \in 1..Len(queue) : queue[i] \in Clients
  BY DrainCountBounds, LenProperties, ElementOfSeq DEF TypeOK
<1> HIDE DEF n
<1>2. pc' = [c \in Clients |-> IF c \in resolved THEN "permitted" ELSE control[c]]
  BY DEF DrainQueue, n
<1>3. /\ \A i \in 1..Len(queue) : control[queue[i]] = "queued"
      /\ \A i, j \in 1..Len(queue) : queue[i] = queue[j] => i = j
  BY DEF QueueMatches
<1>4. \A i \in 1..Len(queue) : pc'[queue[i]] = "permitted" <=> i <= n
  <2>1. ASSUME NEW i \in 1..Len(queue), i <= n
        PROVE  pc'[queue[i]] = "permitted"
    BY <1>1, <1>2, <2>1
  <2>2. ASSUME NEW i \in 1..Len(queue), ~(i <= n)
        PROVE  pc'[queue[i]] # "permitted"
    <3>1. queue[i] \notin resolved
      BY <1>1, <1>3, <2>2
    <3> QED BY <1>1, <1>2, <1>3, <3>1
  <2> QED BY <2>1, <2>2
<1>5. ASSUME NEW c \in Clients, control[c] = "idle"
      PROVE  pc'[c] = "idle"
  <2>1. c \notin resolved
    BY <1>1, <1>3, <1>5
  <2> QED BY <1>2, <1>5, <2>1
<1> QED BY <1>1, <1>4, <1>5

(* Callers are served in the order they came: a call takes the fast path    *)
(* only when nobody waits, and no waiter is served before an older one.     *)
THEOREM ServedInOrder == Spec => NoOvertaking
<1> DEFINE InOrder ==
      /\ \A c \in Clients : pc[c] = "idle" /\ pc'[c] = "permitted" => queue = <<>>
      /\ \A i, j \in 1..Len(queue) :
           i < j /\ pc'[queue[j]] = "permitted" => pc'[queue[i]] = "permitted"
<1>1. ASSUME PoolInv, [Next]_vars
      PROVE  InOrder
  <2>1. /\ currentConnections \in Nat /\ maxConcurrent \in Nat
        /\ pc \in [Clients -> States]
        /\ \A i \in 1..Len(queue) : queue[i] \in Clients /\ pc[queue[i]] = "queued"
        /\ QueueMatches(queue, pc) /\ TypeOK
    BY <1>1, PoolAssumption, ElementOfSeq
       DEF PoolInv, TypeOK, QueueMatches, QueueMatchesWaiters
  <2>2. ASSUME NEW c \in Clients, AcquireSemaphore(c)
        PROVE  InOrder
    <3>1. \/ pc' = [pc EXCEPT ![c] = "permitted"] /\ currentConnections < maxConcurrent
          \/ pc' = [pc EXCEPT ![c] = "queued"]
      BY <2>2 DEF AcquireSemaphore
    <3>2. pc[c] = "idle"
      BY <2>2 DEF AcquireSemaphore
    <3>3. currentConnections < maxConcurrent => queue = <<>>
      BY <1>1, <2>1 DEF PoolInv, NoIdlePermit
    <3> QED BY <2>1, <3>1, <3>2, <3>3
  <2>3. ASSUME NEW c \in Clients, ResolveChain(c) \/ ConnectSucceeds(c)
        PROVE  InOrder
    <3>1. PICK s \in {"idle", "connecting", "connected"} :
            pc' = [pc EXCEPT ![c] = s]
      BY <2>3 DEF ResolveChain, ConnectSucceeds
    <3> QED BY <2>1, <3>1
  <2>4. ASSUME NEW c \in Clients, ConnectFails(c) \/ Disconnect(c)
        PROVE  InOrder
    <3> DEFINE control == [pc EXCEPT ![c] = "idle"]
    <3>1. /\ DrainQueue(currentConnections - 1, maxConcurrent, control)
          /\ pc[c] \in HoldingStates
      BY <2>4 DEF ConnectFails, Disconnect, ReleaseSemaphore, HoldingStates
    <3>2. currentConnections - 1 \in Nat
      <4>1. Cardinality(HoldersIn(control)) = Cardinality(HoldersIn(pc)) - 1
        BY <2>1, <3>1, HoldersOfExcept DEF States, HoldingStates
      <4>2. /\ Cardinality(HoldersIn(control)) \in Nat
            /\ Cardinality(HoldersIn(pc)) \in Nat
        BY HoldersFinite
      <4>3. currentConnections >= Cardinality(HoldersIn(pc))
        BY <1>1 DEF PoolInv, Covers
      <4> HIDE DEF control
      <4> QED BY <2>1, <4>1, <4>2, <4>3
    <3>3. control \in [Clients -> States] /\ QueueMatches(queue, control)
      BY <2>1, <3>1 DEF States, HoldingStates, QueueMatches
    <3>4. \A d \in Clients : pc[d] = "idle" => control[d] = "idle"
      BY <2>1
    <3> HIDE DEF control
    <3>5. /\ \A i, j \in 1..Len(queue) :
               i < j /\ pc'[queue[j]] = "permitted" => pc'[queue[i]] = "permitted"
          /\ \A d \in Clients : control[d] = "idle" => pc'[d] = "idle"
      BY <2>1, <3>1, <3>2, <3>3, DrainServesOldest
    <3> QED BY <3>4, <3>5
  <2>5. ASSUME NEW m \in 1..MaxLimit, UpdateRuntimeConfig(m)
        PROVE  InOrder
    <3>1. m \in Nat /\ DrainQueue(currentConnections, m, pc)
      BY <2>5, PoolAssumption DEF UpdateRuntimeConfig
    <3>2. /\ \A i, j \in 1..Len(queue) :
               i < j /\ pc'[queue[j]] = "permitted" => pc'[queue[i]] = "permitted"
          /\ \A d \in Clients : pc[d] = "idle" => pc'[d] = "idle"
      BY <2>1, <3>1, DrainServesOldest
    <3> QED BY <3>2
  <2>6. CASE UNCHANGED vars
    BY <2>1, <2>6 DEF vars
  <2> QED BY <1>1, <2>2, <2>3, <2>4, <2>5, <2>6 DEF Next
<1>2. PoolInv /\ [Next]_vars => [InOrder]_vars
  BY <1>1
<1> QED BY <1>2, PoolInvariant, PTL DEF Spec, NoOvertaking

-----------------------------------------------------------------------------
(* The semaphore's Cardinality is that of FiniteSets. *)
LEMMA SameCardinality ==
  ASSUME NEW S
  PROVE  Abstract!Cardinality(S) = Cardinality(S)
BY Zenon DEF Abstract!Cardinality, Cardinality

(* When every chain resolves, one execution of drainQueue is an Admit step  *)
(* of the abstract semaphore.                                               *)
LEMMA DrainAdmits ==
  ASSUME TypeOK, NEW count \in Nat, NEW limit \in Nat,
         NEW control \in [Clients -> States],
         QueueMatches(queue, control),
         NEW H, H = HoldersIn(control), count = Cardinality(H),
         \A c \in Clients : control[c] = "queued" <=> pc[c] = "queued",
         maxConcurrent' = limit,
         DrainQueue(count, limit, control)
  PROVE  \E A \in SUBSET {c \in Clients : pc[c] = "queued"} :
           Abstract!Admit(A, H, limit)
<1> DEFINE n == DrainCount(count, limit)
           resolved == {queue[i] : i \in 1..n}
           W == {c \in Clients : pc[c] = "queued"}
<1>1. /\ n \in 0..Len(queue) /\ Len(queue) \in Nat
      /\ \A i \in 1..Len(queue) : queue[i] \in Clients
  BY DrainCountBounds, LenProperties, ElementOfSeq DEF TypeOK
<1>2. /\ \A i \in 1..Len(queue) : control[queue[i]] = "queued"
      /\ \A i, j \in 1..Len(queue) : queue[i] = queue[j] => i = j
      /\ \A c \in Clients : control[c] = "queued"
            => \E i \in 1..Len(queue) : queue[i] = c
  BY DEF QueueMatches
<1>3. \/ count + n = limit
      \/ count + n < limit /\ n = Len(queue)
      \/ count >= limit /\ n = 0
  BY <1>1 DEF DrainCount
<1>4. pc' = [c \in Clients |-> IF c \in resolved THEN "permitted" ELSE control[c]]
  BY DEF DrainQueue
<1> HIDE DEF n
<1>5. IsFiniteSet(resolved) /\ Cardinality(resolved) = n
  BY <1>1, <1>2, PrefixCardinality DEF TypeOK
<1>6. resolved \in SUBSET W
  BY <1>1, <1>2
<1>7. n = Len(queue) => resolved = W
  BY <1>1, <1>2
<1>8. n = 0 => resolved = {}
  BY <1>1
<1>9. {c \in Clients : pc'[c] = "queued"} = W \ resolved
  BY <1>4, <1>6
<1>10. Holders' = H \union resolved
  <2>1. resolved \subseteq Clients
    BY <1>6
  <2> QED BY <2>1, <1>4 DEF Holders, HoldersIn, HoldingStates
<1>11. \/ Cardinality(H) + Cardinality(resolved) = limit
       \/ Cardinality(H) + Cardinality(resolved) < limit /\ resolved = W
       \/ Cardinality(H) >= limit /\ resolved = {}
  <2> HIDE DEF resolved, W
  <2> QED BY <1>3, <1>5, <1>7, <1>8
<1>12. Abstract!Admit(resolved, H, limit)
  <2> HIDE DEF resolved
  <2>1. /\ Abstract!Cardinality(H) = Cardinality(H)
        /\ Abstract!Cardinality(resolved) = Cardinality(resolved)
    BY SameCardinality
  <2> QED BY <1>6, <1>9, <1>10, <1>11, <2>1 DEF Abstract!Admit
<1> QED BY <1>6, <1>12

(* A step of the pool is a step of the abstract semaphore, or stutters. *)
LEMMA StepImplements ==
  ASSUME Unresolvable = {}, PoolInv, [Next]_vars
  PROVE  [Abstract!Next]_(Abstract!semaphoreVars)
<1> DEFINE W == {c \in Clients : pc[c] = "queued"}
<1>1. /\ currentConnections \in Nat /\ maxConcurrent \in Nat
      /\ pc \in [Clients -> States] /\ queue \in Seq(Clients)
      /\ QueueMatches(queue, pc) /\ TypeOK
      /\ currentConnections = Cardinality(Holders)
      /\ Holders = HoldersIn(pc)
  BY PoolAssumption
     DEF PoolInv, TypeOK, Covers, Holders, HoldersIn, QueueMatches, QueueMatchesWaiters
<1>2. ASSUME NEW c \in Clients, AcquireSemaphore(c)
      PROVE  Abstract!Next
  <2>1. pc[c] = "idle" /\ maxConcurrent' = maxConcurrent
    BY <1>2 DEF AcquireSemaphore
  <2>2. c \notin W \union Holders
    BY <2>1 DEF Holders, HoldingStates
  <2>3. CASE currentConnections < maxConcurrent
    <3>1. pc' = [pc EXCEPT ![c] = "permitted"]
      BY <1>1, <1>2, <2>3 DEF AcquireSemaphore
    <3>2. W = {}
      <4>1. queue = <<>>
        BY <1>1, <2>3 DEF PoolInv, NoIdlePermit
      <4> QED BY <1>1, <4>1, EmptySeq DEF QueueMatches
    <3>3. Holders' = Holders \union {c}
      BY <1>1, <3>1 DEF Holders, HoldingStates
    <3>4. W' = W
      BY <1>1, <2>1, <3>1
    <3>5. Abstract!Enter(c)
      BY <1>1, <2>1, <2>2, <2>3, <3>2, <3>3, <3>4, SameCardinality DEF Abstract!Enter
    <3> QED BY <3>5 DEF Abstract!Next
  <2>4. CASE currentConnections >= maxConcurrent
    <3>1. pc' = [pc EXCEPT ![c] = "queued"]
      BY <1>1, <1>2, <2>4 DEF AcquireSemaphore
    <3>2. W' = W \union {c}
      BY <1>1, <3>1
    <3>3. Holders' = Holders
      BY <1>1, <2>1, <3>1 DEF Holders, HoldingStates
    <3>4. Abstract!Wait(c)
      BY <1>1, <2>1, <2>2, <2>4, <3>2, <3>3, SameCardinality DEF Abstract!Wait
    <3> QED BY <3>4 DEF Abstract!Next
  <2> QED BY <1>1, <2>3, <2>4
<1>3. ASSUME NEW c \in Clients, ResolveChain(c) \/ ConnectSucceeds(c)
      PROVE  UNCHANGED Abstract!semaphoreVars
  <2>1. PICK s \in {"connecting", "connected"} : pc' = [pc EXCEPT ![c] = s]
    BY <1>3 DEF ResolveChain, ConnectSucceeds
  <2>2. pc[c] \in {"permitted", "connecting"} /\ maxConcurrent' = maxConcurrent
    BY <1>3 DEF ResolveChain, ConnectSucceeds
  <2>3. Holders' = Holders
    BY <1>1, <2>1, <2>2 DEF Holders, HoldingStates
  <2>4. W' = W
    BY <1>1, <2>1, <2>2
  <2> QED BY <2>2, <2>3, <2>4 DEF Abstract!semaphoreVars
<1>4. ASSUME NEW c \in Clients, ConnectFails(c) \/ Disconnect(c)
      PROVE  Abstract!Next
  <2> DEFINE control == [pc EXCEPT ![c] = "idle"]
             count == currentConnections - 1
  <2>1. /\ DrainQueue(count, maxConcurrent, control)
        /\ pc[c] \in HoldingStates /\ maxConcurrent' = maxConcurrent
    BY <1>4 DEF ConnectFails, Disconnect, ReleaseSemaphore, HoldingStates
  <2>2. control \in [Clients -> States] /\ QueueMatches(queue, control)
    <3>1. \A i \in 1..Len(queue) : queue[i] \in Clients
      BY <1>1, ElementOfSeq
    <3> QED BY <1>1, <2>1, <3>1 DEF States, HoldingStates, QueueMatches
  <2>3. /\ HoldersIn(control) = Holders \ {c} /\ c \in Holders
    BY <1>1, <2>1 DEF HoldersIn, Holders, HoldingStates
  <2>4. count \in Nat /\ count = Cardinality(HoldersIn(control))
    <3>1. IsFiniteSet(Holders)
      BY <1>1, HoldersFinite
    <3>2. /\ Cardinality(Holders \ {c}) = Cardinality(Holders) - 1
          /\ IsFiniteSet(Holders \ {c})
      BY <2>3, <3>1, FS_RemoveElement
    <3>3. Cardinality(Holders \ {c}) \in Nat
      BY <3>2, FS_CardinalityType
    <3> QED BY <1>1, <2>3, <3>2, <3>3
  <2>5. \E A \in SUBSET W : Abstract!Admit(A, Holders \ {c}, maxConcurrent)
    <3>1. \A d \in Clients : control[d] = "queued" <=> pc[d] = "queued"
      BY <2>1, <1>1 DEF HoldingStates
    <3>2. /\ TypeOK /\ maxConcurrent \in Nat
          /\ Holders \ {c} = HoldersIn(control)
          /\ count = Cardinality(Holders \ {c})
      BY <1>1, <2>3, <2>4
    <3> HIDE DEF control, count
    <3>3. PICK m \in Nat : m = maxConcurrent
      BY <3>2
    <3>4. maxConcurrent' = m /\ DrainQueue(count, m, control)
      BY <2>1, <3>3 DEF DrainQueue, DrainCount
    <3>5. \E A \in SUBSET W : Abstract!Admit(A, Holders \ {c}, m)
      BY <2>2, <2>4, <3>1, <3>2, <3>4, DrainAdmits
    <3> QED BY <3>3, <3>5 DEF Abstract!Admit
  <2>6. Abstract!Leave(c)
    BY <2>3, <2>5 DEF Abstract!Leave
  <2> QED BY <2>6 DEF Abstract!Next
<1>5. ASSUME NEW m \in 1..MaxLimit, UpdateRuntimeConfig(m)
      PROVE  Abstract!Next
  <2>1. m \in Nat /\ maxConcurrent' = m /\ DrainQueue(currentConnections, m, pc)
    BY <1>5, PoolAssumption DEF UpdateRuntimeConfig
  <2>2. \E A \in SUBSET W : Abstract!Admit(A, Holders, m)
    BY <1>1, <2>1, DrainAdmits
  <2>3. Abstract!SetLimit(m)
    BY <2>2 DEF Abstract!SetLimit
  <2> QED BY <2>3 DEF Abstract!Next
<1>6. CASE UNCHANGED vars
  BY <1>6 DEF vars, Abstract!semaphoreVars, Holders
<1> QED BY <1>2, <1>3, <1>4, <1>5, <1>6 DEF Next

(* As long as every ProxyJump chain resolves, the pool implements the        *)
(* abstract semaphore: work-conserving, and never above its limit on entry. *)
THEOREM PoolImplementsSemaphore == Unresolvable = {} => (Spec => ImplementsSemaphore)
<1> SUFFICES ASSUME Unresolvable = {} PROVE Spec => ImplementsSemaphore
  OBVIOUS
<1>1. Init => Abstract!Init
  BY DEF Init, Abstract!Init, Holders, HoldingStates
<1>2. PoolInv /\ [Next]_vars => [Abstract!Next]_(Abstract!semaphoreVars)
  BY StepImplements
<1> QED BY <1>1, <1>2, PoolInvariant, PTL DEF Spec, ImplementsSemaphore, Abstract!Spec

--------------------------------------------------------------------------------
(* Commands that outlive a connection. *)
Looking == {"reconnecting", "checkLog", "checkExit", "catExit", "catLog", "checkPid",
            "launched", "tailing", "readExit", "tailAgain", "readAgain"}

\* The script wrote its code once it got that far, and the file is there as long as
\* nobody removed it; what the dashboard holds as a code was in the file.
Facts ==
  /\ Values
  /\ place = "setup" => proc = "none"
  /\ place \notin {"setup", "over"} => proc # "none"
  /\ proc \in {"none", "running"} => outcome = "none" /\ exit = "none"
  /\ proc \in {"writing", "written", "ended"} => outcome \in Codes
  /\ exit \in Codes => exit = outcome
  /\ code \in Codes => code = outcome
  /\ result = "read" => code \in Codes
  /\ place \in Looking /\ proc \in {"written", "ended"} /\ ~cleared => exit = outcome

Inv == Flags /\ Facts

LEMMA InitInv == CommandInit => Inv
<1>1. CommandInit => Flags
  BY DEF CommandInit, Flags
<1>2. CommandInit => Values
  BY AttemptsAssumption DEF CommandInit, Values, Codes, Alive, Places, Results
<1>3. CommandInit => Facts
  BY <1>2 DEF CommandInit, Facts, Codes, Looking
<1> QED
  BY <1>1, <1>3 DEF Inv

USE DEF host, dash, Go, End

\* The flags stay Boolean.
LEMMA NextFlags == Flags /\ [CommandNext]_commandVars => Flags'
<1> SUFFICES ASSUME Flags, [CommandNext]_commandVars PROVE Flags'
  OBVIOUS
<1> USE DEF Flags
<1>1. CASE CommandEnds
  BY <1>1 DEF CommandEnds
<1>2. CASE WriteCode
  BY <1>2 DEF WriteCode
<1>3. CASE ScriptExits
  BY <1>3 DEF ScriptExits
<1>4. CASE Reboot
  BY <1>4 DEF Reboot
<1>5. CASE Drop
  BY <1>5 DEF Drop
<1>6. CASE Cancel
  BY <1>6 DEF Cancel
<1>7. CASE Launch
  BY <1>7 DEF Launch
<1>8. CASE SetupAnswers
  BY <1>8 DEF SetupAnswers, Answered
<1>9. CASE SetupFails \/ SetupCancelled
  BY <1>9 DEF SetupFails, SetupCancelled, Lost
<1>10. CASE TailEnds \/ TailLost \/ TailCancelled \/ Abandon
  BY <1>10 DEF TailEnds, TailLost, TailCancelled, Abandon, Answered, Lost
<1>11. CASE Kill
  BY <1>11 DEF Kill, Lost
<1>12. CASE KillAnswers
  BY <1>12 DEF KillAnswers
<1>13. CASE ReadExit \/ CatExit \/ ReadAgain
  BY <1>13 DEF ReadExit, CatExit, ReadAgain, Answered, Lost
<1>14. CASE ReadDone
  BY <1>14 DEF ReadDone, EndRead, RemoveFiles
<1>15. CASE Throws
  BY <1>15 DEF Throws
<1>16. CASE Reconnect
  BY <1>16 DEF Reconnect
<1>17. CASE GiveUp
  BY <1>17 DEF GiveUp
<1>18. CASE CheckLog \/ CheckExit
  BY <1>18 DEF CheckLog, CheckExit, Answered, Lost
<1>19. CASE CatLog
  BY <1>19 DEF CatLog, Lost
<1>20. CASE CheckPid
  BY <1>20 DEF CheckPid, RemoveFiles, Answered, Lost
<1>21. CASE TailAgain
  BY <1>21 DEF TailAgain, Answered, Lost
<1>22. CASE AttemptThrows
  BY <1>22 DEF AttemptThrows
<1>23. CASE Infer
  BY <1>23 DEF Infer
<1>24. CASE UNCHANGED commandVars
  BY <1>24 DEF commandVars
<1> QED
  BY <1>1, <1>2, <1>3, <1>4, <1>5, <1>6, <1>7, <1>8, <1>9, <1>10, <1>11, <1>12, <1>13,
     <1>14, <1>15, <1>16, <1>17, <1>18, <1>19, <1>20, <1>21, <1>22, <1>23, <1>24
  DEF CommandNext, Step


USE DEF Codes, Alive, Places, Results, Looking

\* Every step keeps the invariant: those of the host, and those of the dashboard.
LEMMA NextFacts == Inv /\ [CommandNext]_commandVars => Facts'
<1> SUFFICES ASSUME Flags, Facts, [CommandNext]_commandVars PROVE Facts'
  BY DEF Inv
<1> USE AttemptsAssumption DEF Flags, Facts, Values
<1>1. CASE CommandEnds
  BY <1>1 DEF CommandEnds
<1>2. CASE WriteCode
  BY <1>2 DEF WriteCode
<1>3. CASE ScriptExits
  BY <1>3 DEF ScriptExits
<1>4. CASE Reboot
  BY <1>4 DEF Reboot
<1>5. CASE Drop
  BY <1>5 DEF Drop
<1>6. CASE Cancel
  BY <1>6 DEF Cancel
<1>7. CASE Launch
  BY <1>7 DEF Launch
<1>8. CASE SetupAnswers
  BY <1>8 DEF SetupAnswers, Answered
<1>9. CASE SetupFails \/ SetupCancelled
  BY <1>9 DEF SetupFails, SetupCancelled, Lost
<1>10. CASE TailEnds \/ TailLost \/ TailCancelled \/ Abandon
  BY <1>10 DEF TailEnds, TailLost, TailCancelled, Abandon, Answered, Lost
<1>11. CASE Kill
  BY <1>11 DEF Kill, Lost
<1>12. CASE KillAnswers
  BY <1>12 DEF KillAnswers
<1>13. CASE ReadExit \/ CatExit \/ ReadAgain
  BY <1>13 DEF ReadExit, CatExit, ReadAgain, Answered, Lost
<1>14. CASE ReadDone
  BY <1>14 DEF ReadDone, EndRead, RemoveFiles
<1>15. CASE Throws
  BY <1>15 DEF Throws
<1>16. CASE Reconnect
  BY <1>16 DEF Reconnect
<1>17. CASE GiveUp
  BY <1>17 DEF GiveUp
<1>18. CASE CheckLog \/ CheckExit
  BY <1>18 DEF CheckLog, CheckExit, Answered, Lost
<1>19. CASE CatLog
  BY <1>19 DEF CatLog, Lost
<1>20. CASE CheckPid
  BY <1>20 DEF CheckPid, RemoveFiles, Answered, Lost
<1>21. CASE TailAgain
  BY <1>21 DEF TailAgain, Answered, Lost
<1>22. CASE AttemptThrows
  BY <1>22 DEF AttemptThrows
<1>23. CASE Infer
  BY <1>23 DEF Infer
<1>24. CASE UNCHANGED commandVars
  BY <1>24 DEF commandVars
<1> QED
  BY <1>1, <1>2, <1>3, <1>4, <1>5, <1>6, <1>7, <1>8, <1>9, <1>10, <1>11, <1>12, <1>13,
     <1>14, <1>15, <1>16, <1>17, <1>18, <1>19, <1>20, <1>21, <1>22, <1>23, <1>24
  DEF CommandNext, Step

\* The invariant holds in every behaviour.
THEOREM Invariant == CommandSpec => []Inv
<1>1. Inv /\ [CommandNext]_commandVars => Inv'
  BY NextFlags, NextFacts DEF Inv
<1> QED
  BY InitInv, <1>1, PTL DEF CommandSpec

\* Types, the bound of the attempts, and a result exactly at the end.
THEOREM CommandTypeCorrect == CommandSpec => []CommandTypeOK
<1>1. Inv => CommandTypeOK
  BY DEF Inv, Facts, CommandTypeOK
<1> QED
  BY Invariant, <1>1, PTL

\* An exit code the operation reports is the one the command ended with.
THEOREM CodeIsReal == CommandSpec => []ReadCodeIsReal
<1>1. Inv => ReadCodeIsReal
  BY DEF Inv, Facts, ReadCodeIsReal
<1> QED
  BY Invariant, <1>1, PTL

\* A failed attempt to find the result leaves it for the next one.
THEOREM RetryFindsCode == CommandSpec => []RetryKeepsCode
<1>1. Inv => RetryKeepsCode
  BY DEF Inv, Facts, RetryKeepsCode
<1> QED
  BY Invariant, <1>1, PTL

\* The command and the report of the abstract specification, by cases.
LEMMA CommandCases ==
  ASSUME Inv
  PROVE  /\ outcome \in Codes => CommandState = outcome
         /\ outcome = "none" /\ proc = "none" => CommandState = "none"
         /\ outcome = "none" /\ proc = "running" => CommandState = "running"
         /\ outcome = "none" /\ proc = "killed" => CommandState = "killed"
         /\ outcome = "none" => proc \in {"none", "running", "killed"}
         /\ proc = "none" => outcome = "none"
  BY DEF Inv, Facts, Values, CommandState

LEMMA ReportCases ==
  ASSUME Inv
  PROVE  /\ result = "none" => Report = "none"
         /\ result = "read" => Report = outcome /\ outcome \in Codes
         /\ result \notin {"none", "read"} => Report \in {"unknown", "cancelled"}
  BY DEF Inv, Facts, Values, Report

\* The three ways a step can look from outside: nothing changes; the operation
\* gets its result; the command moves.
Quiet ==
  /\ UNCHANGED <<proc, outcome, result>>
  /\ result = "none" \/ UNCHANGED code

Reports ==
  /\ UNCHANGED <<proc, outcome, code>>
  /\ result = "none" /\ result' # "none"

CommandMoves ==
  /\ UNCHANGED <<result, code>>
  /\ \/ proc = "none" /\ proc' = "running" /\ UNCHANGED outcome /\ result = "none"
     \/ proc = "running" /\ outcome' \in Codes
     \/ UNCHANGED outcome /\ proc # "none" /\ proc' # "none" /\ (proc' = "running" => proc = "running")

LEMMA StepKinds ==
  ASSUME Inv, [CommandNext]_commandVars
  PROVE Quiet \/ Reports \/ CommandMoves
<1> USE DEF Inv, Facts, Values
<1>1. CASE CommandEnds
  BY <1>1 DEF CommandEnds, CommandMoves
<1>2. CASE WriteCode \/ ScriptExits
  BY <1>2 DEF WriteCode, ScriptExits, CommandMoves
<1>3. CASE Reboot
  BY <1>3 DEF Reboot, CommandMoves
<1>4. CASE Drop \/ Cancel
  BY <1>4 DEF Drop, Cancel, Quiet
<1>5. CASE Launch
  BY <1>5 DEF Launch, CommandMoves
<1>6. CASE SetupAnswers \/ TailEnds \/ TailLost \/ TailCancelled
  BY <1>6 DEF SetupAnswers, TailEnds, TailLost, TailCancelled, Quiet
<1>7. CASE SetupFails \/ SetupCancelled \/ Abandon \/ KillAnswers \/ Throws \/ GiveUp \/ Infer
  BY <1>7 DEF SetupFails, SetupCancelled, Abandon, KillAnswers, Throws, GiveUp, Infer, Reports
<1>8. CASE Kill
  BY <1>8 DEF Kill, CommandMoves
<1>9. CASE ReadExit \/ CatExit \/ ReadAgain \/ CatLog
  BY <1>9 DEF ReadExit, CatExit, ReadAgain, CatLog, Quiet
<1>10. CASE ReadDone
  BY <1>10 DEF ReadDone, Reports, EndRead
<1>11. CASE Reconnect \/ CheckLog \/ CheckExit \/ CheckPid \/ AttemptThrows
  BY <1>11 DEF Reconnect, CheckLog, CheckExit, CheckPid, AttemptThrows, Quiet
<1>12. CASE TailAgain
  BY <1>12 DEF TailAgain, Reports, Quiet
<1>13. CASE UNCHANGED commandVars
  BY <1>13 DEF commandVars, Quiet
<1> QED
  BY <1>1, <1>2, <1>3, <1>4, <1>5, <1>6, <1>7, <1>8, <1>9, <1>10, <1>11, <1>12, <1>13 DEF CommandNext, Step

\* No step breaks what the abstract specification allows.
LEMMA StepKept ==
  ASSUME Inv, Inv', [CommandNext]_commandVars
  PROVE [Promise!Next]_<<CommandState, Report>>
<1>1. CASE Quiet
  <2>1. CommandState' = CommandState
    BY <1>1 DEF Quiet, CommandState
  <2>2. Report' = Report
    BY <1>1, ReportCases DEF Quiet, Report
  <2> QED
    BY <2>1, <2>2
<1>2. CASE Reports
  <2>1. CommandState' = CommandState
    BY <1>2 DEF Reports, CommandState
  <2>2. Report = "none"
    BY <1>2, ReportCases DEF Reports
  <2>3. Report' \in (Codes \intersect {CommandState}) \union {"unknown", "cancelled"}
    <3>1. CASE result' = "read"
      <4>1. Report' = code'
        BY <3>1 DEF Report
      <4>2. code' \in Codes /\ outcome' = code'
        BY <3>1 DEF Inv, Facts
      <4>3. CommandState = outcome
        BY <4>2, <1>2, CommandCases DEF Reports
      <4> QED
        BY <4>1, <4>2, <4>3, <1>2 DEF Reports
    <3>2. CASE result' # "read"
      BY <3>2, <1>2 DEF Reports, Report
    <3> QED
      BY <3>1, <3>2
  <2> QED
    BY <2>1, <2>2, <2>3 DEF Promise!Next, Promise!Report, Promise!Codes
<1>3. CASE CommandMoves
  <2>1. Report' = Report
    BY <1>3 DEF CommandMoves, Report
  <2>2. CASE proc = "none" /\ proc' = "running" /\ UNCHANGED outcome /\ result = "none"
    <3>1. CommandState = "none" /\ Report = "none"
      BY <2>2, CommandCases, ReportCases
    <3>2. CommandState' = "running"
      BY <2>2, CommandCases DEF CommandState
    <3> QED
      BY <2>1, <3>1, <3>2 DEF Promise!Next, Promise!Start
  <2>3. CASE proc = "running" /\ outcome' \in Codes
    <3>1. CommandState = "running"
      BY <2>3, CommandCases DEF Inv, Facts
    <3>2. CommandState' \in Codes
      <4>1. proc' # "none" /\ outcome' # "none"
        BY <2>3 DEF Inv, Facts
      <4> QED
        BY <2>3, <4>1 DEF CommandState
    <3> QED
      BY <2>1, <3>1, <3>2 DEF Promise!Next, Promise!End, Promise!Codes
  <2>4. CASE UNCHANGED outcome /\ proc # "none" /\ proc' # "none" /\ (proc' = "running" => proc = "running")
    <3>1. CASE outcome \in Codes
      <4>1. outcome # "none"
        BY <3>1
      <4>2. CommandState' = outcome'
        BY <2>4, <3>1, <4>1 DEF CommandState
      <4> QED
        BY <2>1, <2>4, <3>1, <4>2, CommandCases
    <3>2. CASE outcome = "none"
      <4>1. proc \in {"running", "killed"} /\ proc' \in {"running", "killed"}
        BY <2>4, <3>2 DEF Inv, Facts, Values
      <4>2. CommandState = proc
        BY <3>2, <4>1, CommandCases
      <4>3. CommandState' = proc'
        <5>1. proc' # "none" /\ outcome' = "none" /\ outcome' \notin Codes
          BY <2>4, <3>2
        <5> QED
          BY <4>1, <5>1 DEF CommandState
      <4> QED
        BY <2>1, <2>4, <4>1, <4>2, <4>3 DEF Promise!Next, Promise!End, Promise!Codes
    <3> QED
      BY <3>1, <3>2 DEF Inv, Facts, Values
  <2> QED
    BY <1>3, <2>2, <2>3, <2>4 DEF CommandMoves
<1> QED
  BY <1>1, <1>2, <1>3, StepKinds

\* Launched at most once, and reported as what it was: for any number of attempts.
THEOREM PromiseKept == CommandSpec => Promise!Init /\ [][Promise!Next]_<<CommandState, Report>>
<1>1. CommandInit => Promise!Init
  BY DEF CommandInit, Promise!Init, CommandState, Report
<1>2. Inv /\ Inv' /\ [CommandNext]_commandVars => [Promise!Next]_<<CommandState, Report>>
  BY StepKept
<1> QED
  BY <1>1, <1>2, Invariant, PTL DEF CommandSpec
================================================================================
