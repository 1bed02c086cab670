----------------------------- MODULE UpgradeGroups -----------------------------
(***************************************************************************)
(* The groups an Upgrade All works through one after the other, and the    *)
(* position of the systems that are in none (services/system-service.ts).  *)
(* A batch copies the positions when it is created: two groups at one      *)
(* position would be upgraded at the same time.                            *)
(***************************************************************************)
EXTENDS Integers, FiniteSets

CONSTANTS Systems, Groups,
          Ungrouped,    \* the implicit group, and the value null of a system
          None,         \* no such group, no position stored yet
          Default,      \* DEFAULT_UNGROUPED_UPGRADE_SORT_ORDER
          MinPosition   \* bound: creations and deletions move the first position down

\* What the proofs need of the constants.
GroupsAssumption ==
  /\ Ungrouped \notin Groups
  /\ Default \in Int /\ MinPosition \in Int
  /\ None \notin Int

VARIABLES position,     \* sort_order of a group's row, or of the setting for Ungrouped
          group         \* upgrade_group_id of a system

vars == <<position, group>>

Places == Groups \cup {Ungrouped}

TypeOK == /\ position \in [Places -> Int \cup {None}]
          /\ group \in [Systems -> Places]

Real == {g \in Groups : position[g] # None}

\* The implicit group is at its default position until an order is saved.
PositionOf(g) ==
  IF g = Ungrouped /\ position[Ungrouped] = None THEN Default ELSE position[g]

Init == /\ position = [g \in Places |-> None]
        /\ group = [s \in Systems |-> Ungrouped]

\* Mutant: only the real groups are looked at for the first position.
CreateGroupAmongReal ==
  \E g \in Groups \ Real :
    \E first \in {PositionOf(h) : h \in Real} \cup {Default} :
      /\ first > MinPosition
      /\ \A h \in Real : first <= PositionOf(h)
      /\ position' = [position EXCEPT ![g] = first - 1]
      /\ UNCHANGED group

(* A new group comes before every other one, the implicit one included.    *)
CreateGroup ==
  \E g \in Groups \ Real :
    \E first \in {PositionOf(h) : h \in Real \cup {Ungrouped}} :
      /\ first > MinPosition
      /\ \A h \in Real \cup {Ungrouped} : first <= PositionOf(h)
      /\ position' = [position EXCEPT ![g] = first - 1]
      /\ UNCHANGED group

(* The systems of a deleted group fall back to the implicit one first.     *)
DeleteGroup ==
  \E g \in Real :
    /\ group' = [s \in Systems |-> IF group[s] = g THEN Ungrouped ELSE group[s]]
    /\ position' = [position EXCEPT ![g] = None]

(* The order has to name Ungrouped and every saved group exactly once.     *)
ReorderGroups ==
  \E order \in [Real \cup {Ungrouped} -> 0 .. Cardinality(Real)] :
    /\ \A g, h \in Real \cup {Ungrouped} : g # h => order[g] # order[h]
    /\ position' = [g \in Places |-> IF g \in Real \cup {Ungrouped} THEN order[g]
                                     ELSE position[g]]
    /\ UNCHANGED group

(* Systems are moved by one request, each to a group that exists.          *)
MoveSystems ==
  \E moved \in (SUBSET Systems) \ {{}} :
    \E target \in [moved -> Real \cup {Ungrouped}] :
      /\ group' = [s \in Systems |-> IF s \in moved THEN target[s] ELSE group[s]]
      /\ UNCHANGED position

Next == CreateGroup \/ DeleteGroup \/ ReorderGroups \/ MoveSystems

Spec == Init /\ [][Next]_vars

(* A system is in the implicit group or in one that exists, and no two     *)
(* groups share a position, however creations, deletions and reorderings   *)
(* alternate.                                                              *)
MembersHaveGroups == \A s \in Systems : group[s] \in Real \cup {Ungrouped}

PositionsDistinct ==
  \A g, h \in Real \cup {Ungrouped} : g # h => PositionOf(g) # PositionOf(h)

GroupsSound == MembersHaveGroups /\ PositionsDistinct
===============================================================================
