--------------------------- MODULE SystemPartsProofs ---------------------------
(***************************************************************************)
(* What the dashboard keeps of the systems, proved for every number of     *)
(* them: upgrade groups, host keys, facts of a host, cached and hidden     *)
(* updates, history, jobs, and the pages and reports of their operations.  *)
(* Each component is named by an instance, with variables of its own.      *)
(***************************************************************************)
EXTENDS Integers, FiniteSets, FiniteSetTheorems, Sequences, SequenceTheorems,
        WellFoundedInduction, TLAPS

CONSTANTS Systems, None,
          Groups, Ungrouped, Default, MinPosition,                  \* UpgradeGroups
          Path, Addresses, KeysOf, Dials, MaxTrustEdits, MaxRekeys, MaxTokens, \* HostTrust
          MaxBoots,                                                 \* SystemFacts
          Managers, ManagerOf, Held,                                \* UpdateCache
          Limits, MaxRows,                                          \* History
          Calls, Bot, SystemOf, KindOf, Awaited, Results, MaxRestarts, \* Jobs
          Packages, Versions, FullUpgrade, PageSessions, MaxForeign, MaxWire,  \* SystemPage
          Routes, MaxMoves,                                         \* SystemForm
          ReportSteps                                               \* OperationReports

VARIABLES position, group,
          row, hostKey, challenges, validated, connect, edits, rekeys,
          host, fact, issue, reading,
          offered, cache, hidden, disabled, autoHide, installed, wish, check,
          rows, limit, running, queued, clock, checked,
          jobs, given, call, ended, latest, marks, answer, restarts,
          now, wire, fetch, data, phase, mark, selected, menu, dialog, requests, foreign,
          fresh, session,
          kind, live, initial, form, shown, token, review, test, revoking, warning, saved,
          moves,
          run, pc, cancelled, told, outcome

(* one.                                                                    *)
LEMMA HasLeast ==
  ASSUME NEW S, S \subseteq Nat, S # {} PROVE \E x \in S : \A y \in S : x <= y
<1> DEFINE R == OpToRel(<, Nat)
<1>1. IsWellFoundedOn(R, Nat)
  BY NatLessThanWellFounded
<1>2. \A y, x \in Nat : y < x => <<y, x>> \in R
  BY Zenon DEF OpToRel
<1> HIDE DEF R
<1>3. PICK x \in S : \A y \in S : ~ (<<y, x>> \in R)
  BY <1>1, WFMin
<1>4. \A y \in S : ~ (y < x)
  BY <1>2, <1>3
<1>5. \A y \in S : x <= y
  BY <1>4
<1> QED
  BY <1>5

LEMMA HasGreatest ==
  ASSUME NEW n \in Nat, NEW S, S \subseteq 1 .. n, S # {} PROVE \E z \in S : \A y \in S : z >= y
<1> DEFINE T == {n - y : y \in S}
<1>1. \A y \in S : y \in 1 .. n /\ n - y \in Nat /\ n - y \in T
  OBVIOUS
<1>2. T \subseteq Nat /\ T # {}
  BY <1>1
<1>3. PICK x \in T : \A y \in T : x <= y
  BY <1>2, HasLeast
<1>4. PICK z \in S : x = n - z
  BY <1>3
<1> HIDE DEF T
<1>5. \A y \in S : z >= y
  BY <1>1, <1>3, <1>4
<1> QED
  BY <1>5

--------------------------------------------------------------------------------
Ordering == INSTANCE UpgradeGroups

LEMMA GroupCreated ==
  ASSUME Ordering!GroupsAssumption, Ordering!TypeOK, Ordering!GroupsSound, Ordering!CreateGroup
         PROVE Ordering!TypeOK' /\ Ordering!GroupsSound'
<1>1. PICK g \in Groups \ Ordering!Real,
        first \in {Ordering!PositionOf(h) : h \in Ordering!Real \cup {Ungrouped}} :
        /\ \A h \in Ordering!Real \cup {Ungrouped} : first <= Ordering!PositionOf(h)
        /\ position' = [position EXCEPT ![g] = first - 1]
        /\ group' = group
  BY DEF Ordering!CreateGroup
<1>2. \A h \in Ordering!Real \cup {Ungrouped} : Ordering!PositionOf(h) \in Int
  BY DEF Ordering!GroupsAssumption, Ordering!TypeOK, Ordering!Real, Ordering!PositionOf,
     Ordering!Places
<1>3. first \in Int
  BY <1>1, <1>2
<1>4. position'[g] = first - 1 /\ \A h \in Ordering!Places \ {g} : position'[h] = position[h]
  BY <1>1 DEF Ordering!TypeOK, Ordering!Places
<1>5. Ordering!Real' = Ordering!Real \cup {g}
  BY <1>1, <1>3, <1>4 DEF Ordering!Real, Ordering!Places, Ordering!GroupsAssumption
<1>6. Ordering!PositionOf(g)' = first - 1
        /\ \A h \in Ordering!Real \cup {Ungrouped} : Ordering!PositionOf(h)' = Ordering!PositionOf(h)
  BY <1>1, <1>4 DEF Ordering!PositionOf, Ordering!Real, Ordering!Places, Ordering!GroupsAssumption
<1>7. Ordering!TypeOK'
  BY <1>1, <1>3 DEF Ordering!TypeOK, Ordering!Places
<1>8. Ordering!MembersHaveGroups'
  BY <1>1, <1>5 DEF Ordering!GroupsSound, Ordering!MembersHaveGroups
<1>9. \A h \in Ordering!Real \cup {Ungrouped} : Ordering!PositionOf(g)' # Ordering!PositionOf(h)'
  BY <1>1, <1>2, <1>3, <1>6
<1>10. Ordering!PositionsDistinct'
  BY <1>5, <1>6, <1>9 DEF Ordering!GroupsSound, Ordering!PositionsDistinct
<1> QED
  BY <1>7, <1>8, <1>10 DEF Ordering!GroupsSound

(* The members of a deleted group are in the implicit one.                 *)
LEMMA GroupDeleted ==
  ASSUME Ordering!GroupsAssumption, Ordering!TypeOK, Ordering!GroupsSound, Ordering!DeleteGroup
         PROVE Ordering!TypeOK' /\ Ordering!GroupsSound'
<1>1. PICK g \in Ordering!Real :
        /\ group' = [s \in Systems |-> IF group[s] = g THEN Ungrouped ELSE group[s]]
        /\ position' = [position EXCEPT ![g] = None]
  BY DEF Ordering!DeleteGroup
<1>2. \A h \in Ordering!Places \ {g} : position'[h] = position[h]
  BY <1>1 DEF Ordering!TypeOK, Ordering!Places
<1>3. Ordering!Real' = Ordering!Real \ {g}
  BY <1>1, <1>2 DEF Ordering!Real, Ordering!Places, Ordering!TypeOK
<1>4. \A h \in (Ordering!Real \ {g}) \cup {Ungrouped} : Ordering!PositionOf(h)' = Ordering!PositionOf(h)
  BY <1>1, <1>2 DEF Ordering!PositionOf, Ordering!Real, Ordering!Places, Ordering!GroupsAssumption
<1>5. Ordering!TypeOK'
  BY <1>1 DEF Ordering!TypeOK, Ordering!Places
<1>6. Ordering!MembersHaveGroups'
  BY <1>1, <1>3 DEF Ordering!GroupsSound, Ordering!MembersHaveGroups
<1>7. Ordering!PositionsDistinct'
  BY <1>3, <1>4 DEF Ordering!GroupsSound, Ordering!PositionsDistinct
<1> QED
  BY <1>5, <1>6, <1>7 DEF Ordering!GroupsSound

(* An order that is saved gives every group a position of its own.         *)
LEMMA GroupsReordered ==
  ASSUME Ordering!GroupsAssumption, Ordering!TypeOK, Ordering!GroupsSound, Ordering!ReorderGroups
         PROVE Ordering!TypeOK' /\ Ordering!GroupsSound'
<1>1. PICK order \in [Ordering!Real \cup {Ungrouped} -> 0 .. Ordering!Cardinality(Ordering!Real)] :
        /\ \A g, h \in Ordering!Real \cup {Ungrouped} : g # h => order[g] # order[h]
        /\ position' = [g \in Ordering!Places |-> IF g \in Ordering!Real \cup {Ungrouped} THEN order[g]
                                                  ELSE position[g]]
        /\ group' = group
  BY DEF Ordering!ReorderGroups
<1>2. \A g \in Ordering!Real \cup {Ungrouped} : position'[g] = order[g] /\ order[g] \in Int
  <2>1. Ordering!Real \cup {Ungrouped} \subseteq Ordering!Places
    BY DEF Ordering!Real, Ordering!Places
  <2>2. \A g \in Ordering!Real \cup {Ungrouped} : position'[g] = order[g]
    BY <1>1, <2>1
  <2>3. \A g \in Ordering!Real \cup {Ungrouped} : order[g] \in 0 .. Ordering!Cardinality(Ordering!Real)
    BY <1>1
  <2> QED
    BY <2>2, <2>3
<1>3. Ordering!Real' = Ordering!Real
  <2>1. \A g \in Ordering!Real : position'[g] # None
    BY <1>2 DEF Ordering!GroupsAssumption
  <2>2. \A g \in Groups \ Ordering!Real : position'[g] = None
    <3>1. \A g \in Groups \ Ordering!Real : g \in Ordering!Places
            /\ g \notin Ordering!Real \cup {Ungrouped}
      BY DEF Ordering!Places, Ordering!GroupsAssumption
    <3>2. \A g \in Groups \ Ordering!Real : position'[g] = position[g]
      BY <1>1, <3>1
    <3> QED
      BY <3>2 DEF Ordering!Real
  <2> QED
    BY <2>1, <2>2 DEF Ordering!Real
<1>4. \A g \in Ordering!Real \cup {Ungrouped} : Ordering!PositionOf(g)' = order[g]
  BY <1>2 DEF Ordering!PositionOf, Ordering!GroupsAssumption
<1>5. Ordering!TypeOK'
  BY <1>1, <1>2 DEF Ordering!TypeOK, Ordering!Places
<1>6. Ordering!MembersHaveGroups'
  BY <1>1, <1>3 DEF Ordering!GroupsSound, Ordering!MembersHaveGroups
<1>7. Ordering!PositionsDistinct'
  BY <1>1, <1>3, <1>4 DEF Ordering!PositionsDistinct
<1> QED
  BY <1>5, <1>6, <1>7 DEF Ordering!GroupsSound

LEMMA GroupsStep ==
  ASSUME Ordering!GroupsAssumption, Ordering!TypeOK, Ordering!GroupsSound,
         [Ordering!Next]_Ordering!vars PROVE Ordering!TypeOK' /\ Ordering!GroupsSound'
<1>1. CASE Ordering!MoveSystems
  <2>1. PICK moved \in (SUBSET Systems) \ {{}} :
          \E target \in [moved -> Ordering!Real \cup {Ungrouped}] :
            /\ group' = [s \in Systems |-> IF s \in moved THEN target[s] ELSE group[s]]
            /\ position' = position
    BY <1>1 DEF Ordering!MoveSystems
  <2>2. Ordering!Real' = Ordering!Real
          /\ \A g \in Ordering!Places : Ordering!PositionOf(g)' = Ordering!PositionOf(g)
    BY <2>1 DEF Ordering!Real, Ordering!PositionOf
  <2>3. Ordering!MembersHaveGroups'
    BY <2>1, <2>2 DEF Ordering!GroupsSound, Ordering!MembersHaveGroups
  <2>4. Ordering!TypeOK'
    BY <2>1 DEF Ordering!TypeOK, Ordering!Places, Ordering!Real
  <2>5. Ordering!PositionsDistinct'
    BY <2>2 DEF Ordering!GroupsSound, Ordering!PositionsDistinct, Ordering!Real, Ordering!Places
  <2> QED
    BY <2>3, <2>4, <2>5 DEF Ordering!GroupsSound
<1>2. CASE UNCHANGED Ordering!vars
  BY <1>2 DEF Ordering!vars, Ordering!TypeOK, Ordering!GroupsSound, Ordering!MembersHaveGroups,
     Ordering!PositionsDistinct, Ordering!Real, Ordering!PositionOf
<1> QED
  BY <1>1, <1>2, GroupCreated, GroupDeleted, GroupsReordered DEF Ordering!Next

LEMMA GroupsInit == ASSUME Ordering!GroupsAssumption PROVE Ordering!Init => Ordering!TypeOK
      /\ Ordering!GroupsSound
BY DEF Ordering!GroupsAssumption, Ordering!Init, Ordering!TypeOK, Ordering!GroupsSound,
       Ordering!MembersHaveGroups, Ordering!PositionsDistinct,
       Ordering!Real, Ordering!Places

(* Every system's group exists and no two groups share a position, however *)
(* creations, deletions, reorderings and moves alternate.                  *)
THEOREM GroupsCorrect == ASSUME Ordering!GroupsAssumption PROVE Ordering!Spec
        => [](Ordering!TypeOK /\ Ordering!GroupsSound)
<1>1. Ordering!Init => Ordering!TypeOK /\ Ordering!GroupsSound
  BY GroupsInit
<1>2. Ordering!TypeOK /\ Ordering!GroupsSound /\ [Ordering!Next]_Ordering!vars
        => (Ordering!TypeOK /\ Ordering!GroupsSound)'
  BY GroupsStep
<1> QED
  BY <1>1, <1>2, PTL DEF Ordering!Spec

--------------------------------------------------------------------------------
Facts == INSTANCE SystemFacts WITH row <- fact, check <- reading

LEMMA FactsTypeInit == ASSUME Facts!BootsAssumption PROVE Facts!Init => Facts!TypeOK
BY DEF Facts!BootsAssumption, Facts!Init, Facts!TypeOK, Facts!Boots

LEMMA FactsTypeStep == ASSUME Facts!BootsAssumption, Facts!TypeOK, [Facts!Next]_Facts!vars
      PROVE Facts!TypeOK'
<1> USE DEF Facts!TypeOK, Facts!Boots
<1>1. CASE Facts!BeginInfo
  BY <1>1 DEF Facts!BeginInfo
<1>2. CASE Facts!StoreInfo
  BY <1>2 DEF Facts!StoreInfo, Facts!RebootRequired, Facts!Expired
<1>3. CASE Facts!CheckManager
  BY <1>3 DEF Facts!CheckManager
<1>4. CASE Facts!CheckFails
  BY <1>4 DEF Facts!CheckFails
<1>5. CASE Facts!DismissReboot
  BY <1>5 DEF Facts!DismissReboot
<1>6. CASE Facts!DismissIssue
  BY <1>6 DEF Facts!DismissIssue
<1>7. CASE Facts!ListIssues
  BY <1>7 DEF Facts!ListIssues
<1>8. CASE Facts!Reboot
  <2>1. host.boot + 1 \in 1 .. MaxBoots
    BY <1>8 DEF Facts!Reboot, Facts!BootsAssumption
  <2>2. PICK left \in {"none", "file"} :
          host' = [host EXCEPT !.boot = @ + 1,
                     !.reason = IF left = "file" /\ host.reason = "file" THEN "file" ELSE "none"]
    BY <1>8, Zenon DEF Facts!Reboot
  <2>3. host' \in [boot : Facts!Boots, reason : {"none", "kernel", "file"}, broken : BOOLEAN]
    BY <2>1, <2>2
  <2>4. UNCHANGED <<fact, issue, reading>>
    BY <1>8 DEF Facts!Reboot
  <2> QED
    BY <2>3, <2>4
<1>9. CASE Facts!HostChanges
  <2>1. PICK reason \in {"none", "kernel", "file"}, broken \in BOOLEAN :
          host' = [host EXCEPT !.reason = reason, !.broken = broken]
    BY <1>9, Zenon DEF Facts!HostChanges
  <2>2. host' \in [boot : Facts!Boots, reason : {"none", "kernel", "file"}, broken : BOOLEAN]
    BY <2>1
  <2>3. UNCHANGED <<fact, issue, reading>>
    BY <1>9 DEF Facts!HostChanges
  <2> QED
    BY <2>2, <2>3
<1>10. CASE UNCHANGED Facts!vars
  BY <1>10 DEF Facts!vars
<1> HIDE DEF Facts!TypeOK, Facts!Boots
<1> QED
  BY <1>1, <1>2, <1>3, <1>4, <1>5, <1>6, <1>7, <1>8, <1>9, <1>10 DEF Facts!Next

(* Every value the model's variables take has the type the columns have.   *)
THEOREM FactsTyped == ASSUME Facts!BootsAssumption PROVE Facts!Spec => []Facts!TypeOK
<1>1. Facts!Init => Facts!TypeOK
  BY FactsTypeInit
<1>2. Facts!TypeOK /\ [Facts!Next]_Facts!vars => Facts!TypeOK'
  BY FactsTypeStep
<1> QED
  BY <1>1, <1>2, PTL DEF Facts!Spec

(* The row a check began with may be old when it is written back, so that  *)
(* the dismissal it carries must be judged by the boot the host is in now: *)
(* StoreInfo keeps it for that boot only, and writes that boot.            *)
LEMMA DismissalStep ==
  ASSUME Facts!TypeOK, Facts!DismissalOfThisBoot, [Facts!Next]_Facts!vars
         PROVE Facts!DismissalOfThisBoot'
<1> USE DEF Facts!DismissalOfThisBoot
<1>1. CASE Facts!StoreInfo
  <2>1. fact' = [boot |-> host.boot,
                 needsReboot |-> Facts!RebootRequired /\ (reading.dismissed = 0 \/ Facts!Expired),
                 dismissed |-> IF Facts!Expired THEN 0 ELSE reading.dismissed]
    BY <1>1 DEF Facts!StoreInfo
  <2>2. CASE Facts!Expired
    BY <2>1, <2>2
  <2>3. CASE ~Facts!Expired /\ reading.dismissed = 0
    BY <2>1, <2>3
  <2>4. CASE ~Facts!Expired /\ reading.dismissed = host.boot
    <3>1. reading.dismissed # 0
      BY <2>4 DEF Facts!TypeOK, Facts!Boots
    <3> QED
      BY <2>1, <2>4, <3>1
  <2> QED
    BY <2>2, <2>3, <2>4 DEF Facts!Expired
<1>2. CASE Facts!DismissReboot
  <2>1. fact' = [fact EXCEPT !.needsReboot = FALSE, !.dismissed = fact.boot]
    BY <1>2 DEF Facts!DismissReboot
  <2> QED
    BY <2>1 DEF Facts!TypeOK
<1>3. CASE UNCHANGED fact
  BY <1>3
<1>4. Facts!BeginInfo \/ Facts!CheckManager \/ Facts!CheckFails \/ Facts!DismissIssue
      \/ Facts!ListIssues \/ Facts!Reboot
      \/ Facts!HostChanges \/ UNCHANGED Facts!vars => UNCHANGED fact
  BY DEF Facts!BeginInfo, Facts!CheckManager, Facts!CheckFails, Facts!DismissIssue,
         Facts!ListIssues, Facts!Reboot,
         Facts!HostChanges, Facts!vars
<1> QED
  BY <1>1, <1>2, <1>3, <1>4 DEF Facts!Next

LEMMA DismissalInit == Facts!Init => Facts!DismissalOfThisBoot
BY DEF Facts!Init, Facts!DismissalOfThisBoot

(* However checks, dismissals and reboots interleave, the dismissal in the *)
(* row is of the boot the row is about, and silences the warning.          *)
THEOREM DismissalsCorrect == ASSUME Facts!BootsAssumption PROVE Facts!Spec
        => []Facts!DismissalOfThisBoot
<1>1. Facts!Init => Facts!DismissalOfThisBoot
  BY DismissalInit
<1>2. Facts!TypeOK /\ Facts!DismissalOfThisBoot /\ [Facts!Next]_Facts!vars
        => Facts!DismissalOfThisBoot'
  BY DismissalStep
<1> QED
  BY <1>1, <1>2, FactsTyped, PTL DEF Facts!Spec

--------------------------------------------------------------------------------
Updating == INSTANCE UpdateCache

-------------------------------------------------------------------------------
HiddenRow == {Updating!NoRow} \cup [reason : {"manual", "kept_back"},
                                    state : {"active", "inactive", "old"}]

\* What a check found it found at a manager whose check worked.
CheckOK ==
  [phase : {"managers"}, managers : SUBSET Managers, left : SUBSET Managers,
   ok : SUBSET Managers, found : [Updating!Updates -> {"no", "plain", "kept"}]]

CheckSound ==
  \/ check = Updating!Idle
  \/ /\ check \in CheckOK
     /\ \A u \in Updating!Updates : check.found[u] # "no" => ManagerOf[u] \in check.ok

RowsTyped ==
  /\ offered \in [Updating!Updates -> {"no", "plain", "kept"}]
  /\ cache \in [Updating!Updates -> {"no", "plain", "kept"}]
  /\ hidden \in [Updating!Updates -> HiddenRow]
  /\ wish \in [Updating!Updates -> {"none", "hide", "show"}]
  /\ autoHide \in BOOLEAN
  /\ disabled \subseteq Managers

\* A wish to hide is a row of its own, whatever becomes of the update meanwhile.
WishesStored == \A u \in Updating!Updates : wish[u] = "hide" => hidden[u].reason = "manual"

UpdatesInv == CheckSound /\ RowsTyped /\ WishesStored /\ Updating!HiddenSound

LEMMA UpdatesInit == Updating!Init => UpdatesInv
<1> SUFFICES ASSUME Updating!Init PROVE UpdatesInv
  OBVIOUS
<1>1. RowsTyped
  BY DEF Updating!Init, RowsTyped, Updating!Offers, Updating!Nothing, HiddenRow
<1>2. Updating!HiddenSound
  BY DEF Updating!Init, Updating!HiddenSound, Updating!ManualHidesApply,
         Updating!KeptBackFollowsSetting, Updating!Visible, Updating!Nothing,
         Updating!NoRow, Updating!Active
<1> QED
  BY <1>1, <1>2 DEF Updating!Init, UpdatesInv, CheckSound, WishesStored

\* The rows and wishes are as they were: only what a check knows has changed.
LEMMA OnlyCheck ==
  ASSUME UpdatesInv, CheckSound', offered' \in [Updating!Updates -> {"no", "plain", "kept"}],
         UNCHANGED <<cache, hidden, disabled, autoHide, wish>>
  PROVE  UpdatesInv'
BY DEF UpdatesInv, RowsTyped, WishesStored, Updating!HiddenSound, Updating!ManualHidesApply,
       Updating!KeptBackFollowsSetting, Updating!Visible

LEMMA StepChecking ==
  ASSUME UpdatesInv, \/ Updating!BeginCheck \/ Updating!CheckWithoutManagers
                         \/ Updating!CheckManager \/ Updating!CheckAbandoned
                     \/ Updating!HostChanges \/ UNCHANGED Updating!vars
  PROVE  UpdatesInv'
<1>1. CASE Updating!BeginCheck
  <2>1. check' = [phase |-> "managers", managers |-> Managers \ disabled,
                  left |-> Managers \ disabled, ok |-> {}, found |-> Updating!Nothing]
    BY <1>1 DEF Updating!BeginCheck
  <2>2. CheckSound'
    BY <2>1 DEF CheckSound, CheckOK, Updating!Nothing
  <2> QED
    BY <1>1, <2>2, OnlyCheck DEF Updating!BeginCheck, UpdatesInv, RowsTyped
<1>2. CASE Updating!CheckManager
  <2>1. PICK m \in check.left, works \in BOOLEAN :
          check' = [check EXCEPT
            !.left = @ \ {m},
            !.ok = IF works THEN @ \cup {m} ELSE @,
            !.found = [u \in Updating!Updates |-> IF works /\ ManagerOf[u] = m THEN offered[u] ELSE @[u]]]
    BY <1>2 DEF Updating!CheckManager
  <2>2. check \in CheckOK /\ \A u \in Updating!Updates : check.found[u] # "no"
          => ManagerOf[u] \in check.ok
    <3>1. check.phase = "managers"
      BY <1>2, Zenon DEF Updating!CheckManager
    <3>2. check # Updating!Idle
      BY <3>1 DEF Updating!Idle
    <3> QED
      BY <3>2 DEF UpdatesInv, CheckSound
  <2>3. offered \in [Updating!Updates -> {"no", "plain", "kept"}]
    BY DEF UpdatesInv, RowsTyped
  <2>4. check' \in CheckOK
    BY <2>1, <2>2, <2>3 DEF CheckOK
  <2>5. \A u \in Updating!Updates : check'.found[u] # "no" => ManagerOf[u] \in check'.ok
    BY <2>1, <2>2 DEF CheckOK
  <2>6. CheckSound'
    BY <2>4, <2>5 DEF CheckSound
  <2> QED
    BY <1>2, <2>6, OnlyCheck DEF Updating!CheckManager, UpdatesInv, RowsTyped
<1>3. CASE Updating!CheckAbandoned
  BY <1>3, OnlyCheck DEF Updating!CheckAbandoned, UpdatesInv, RowsTyped, CheckSound
<1>4. CASE Updating!HostChanges
  BY <1>4, OnlyCheck DEF Updating!HostChanges, UpdatesInv, RowsTyped, CheckSound
<1>5. CASE Updating!CheckWithoutManagers \/ UNCHANGED Updating!vars
  BY <1>5, OnlyCheck DEF Updating!CheckWithoutManagers, Updating!vars, UpdatesInv, RowsTyped,
     CheckSound
<1> QED
  BY <1>1, <1>2, <1>3, <1>4, <1>5

\* What hiding makes of one row.
LEMMA Hidden ==
  ASSUME NEW these, NEW u \in Updating!Updates, these \in [Updating!Updates -> HiddenRow],
         NEW reason \in {"manual", "kept_back"}
  PROVE  /\ Updating!Hide(these, u, reason) \in [Updating!Updates -> HiddenRow]
         /\ Updating!Hide(these, u, reason)[u].state = "active"
         /\ Updating!Hide(these, u, reason)[u].reason = IF these[u].reason = "manual" THEN "manual"
            ELSE reason
         /\ \A v \in Updating!Updates \ {u} : Updating!Hide(these, u, reason)[v] = these[v]
BY DEF Updating!Hide, Updating!Active, HiddenRow

\* What a check that found the update, or not, makes of its row.
LEMMA Synced ==
  ASSUME UpdatesInv, check # Updating!Idle, NEW u \in Updating!Updates
  PROVE  /\ Updating!SyncedRow(u) \in HiddenRow
         /\ Updating!SyncedRow(u) # Updating!NoRow
            => Updating!SyncedRow(u).reason = hidden[u].reason
         /\ check.found[u] # "no" /\ hidden[u].reason = "manual"
            => Updating!SyncedRow(u) = Updating!Active("manual")
         /\ ~autoHide => Updating!SyncedRow(u) # Updating!Active("kept_back")
<1>1. hidden[u] \in HiddenRow
  BY DEF UpdatesInv, RowsTyped
<1>2. check.found[u] # "no" => ManagerOf[u] \in check.ok
  BY DEF UpdatesInv, CheckSound
<1>3. ~autoHide => hidden[u] # Updating!Active("kept_back")
  BY DEF UpdatesInv, Updating!HiddenSound, Updating!KeptBackFollowsSetting
<1>4. hidden[u].reason = "manual" => hidden[u] # Updating!NoRow
  BY DEF Updating!NoRow
<1> QED
  BY <1>1, <1>2, <1>3, <1>4 DEF Updating!SyncedRow, HiddenRow, Updating!NoRow, Updating!Active

LEMMA StepEndCheck == ASSUME UpdatesInv, Updating!EndCheck PROVE UpdatesInv'
<1>1. check \in CheckOK /\ check # Updating!Idle
      /\ \A u \in Updating!Updates : check.found[u] # "no" => ManagerOf[u] \in check.ok
  BY DEF Updating!EndCheck, UpdatesInv, CheckSound, Updating!Idle
<1>2. cache' = check.found /\ cache' \in [Updating!Updates -> {"no", "plain", "kept"}]
  BY <1>1 DEF Updating!EndCheck, CheckOK
<1>3. UNCHANGED <<offered, disabled, autoHide>> /\ check' = Updating!Idle
  BY DEF Updating!EndCheck
<1>4. wish' = [u \in Updating!Updates |->
                 IF ManagerOf[u] \in check.ok
                     /\ (wish[u] = "show" \/ Updating!SyncedRow(u) = Updating!NoRow)
                 THEN "none" ELSE wish[u]]
  BY DEF Updating!EndCheck
<1> DEFINE synced == [u \in Updating!Updates |-> Updating!SyncedRow(u)]
<1>5. synced \in [Updating!Updates -> HiddenRow]
  BY <1>1, Synced
<1>6. ASSUME NEW u \in Updating!Updates, check.ok # {}
      PROVE  /\ hidden'[u] \in HiddenRow
             /\ autoHide /\ check.found[u] = "kept" =>
                  /\ hidden'[u].state = "active"
                  /\ Updating!SyncedRow(u).reason = "manual" => hidden'[u].reason = "manual"
             /\ ~(autoHide /\ check.found[u] = "kept") => hidden'[u] = Updating!SyncedRow(u)
  <2>1. hidden'[u] = IF autoHide
                     /\ check.found[u] = "kept" THEN Updating!Hide(synced, u, "kept_back")[u]
                     ELSE synced[u]
    BY <1>6 DEF Updating!EndCheck, Updating!AutoHidden
  <2>2. synced[u] = Updating!SyncedRow(u)
    OBVIOUS
  <2> HIDE DEF synced
  <2> QED
    BY <1>5, <2>1, <2>2, Hidden
<1>7. hidden' \in [Updating!Updates -> HiddenRow]
  <2>1. CASE check.ok = {}
    BY <2>1 DEF Updating!EndCheck, UpdatesInv, RowsTyped
  <2>2. CASE check.ok # {}
    BY <1>6, <2>2 DEF Updating!EndCheck, Updating!AutoHidden
  <2> QED
    BY <2>1, <2>2
<1>8. RowsTyped'
  BY <1>2, <1>3, <1>4, <1>7 DEF UpdatesInv, RowsTyped
<1>9. ASSUME NEW u \in Updating!Updates, wish'[u] = "hide"
      PROVE  hidden'[u].reason = "manual" /\ (cache'[u] # "no" => hidden'[u].state = "active")
  <2>1. wish[u] = "hide" /\ hidden[u].reason = "manual"
    BY <1>4, <1>9 DEF UpdatesInv, WishesStored
  <2>2. CASE check.ok = {}
    BY <1>1, <1>2, <2>1, <2>2 DEF Updating!EndCheck
  <2>3. CASE check.ok # {} /\ ManagerOf[u] \in check.ok
    <3>1. Updating!SyncedRow(u) # Updating!NoRow /\ Updating!SyncedRow(u).reason = "manual"
      BY <1>1, <1>4, <1>9, <2>1, <2>3, Synced
    <3>2. check.found[u] # "no" => Updating!SyncedRow(u) = Updating!Active("manual")
      BY <1>1, <2>1, Synced
    <3> QED
      BY <1>2, <1>6, <2>3, <3>1, <3>2 DEF Updating!Active
  <2>4. CASE check.ok # {} /\ ManagerOf[u] \notin check.ok
    <3>1. Updating!SyncedRow(u) = hidden[u] /\ check.found[u] = "no"
      BY <1>1, <2>4 DEF Updating!SyncedRow
    <3> QED
      BY <1>2, <1>6, <2>1, <2>4, <3>1
  <2> QED
    BY <2>2, <2>3, <2>4
<1>10. ASSUME NEW u \in Updating!Updates, autoHide, check.found[u] = "kept"
              PROVE hidden'[u].state = "active"
  BY <1>1, <1>6, <1>10
<1>11. ASSUME NEW u \in Updating!Updates, ~autoHide PROVE hidden'[u] # Updating!Active("kept_back")
  <2>1. CASE check.ok = {}
    BY <1>11, <2>1 DEF Updating!EndCheck, UpdatesInv, Updating!HiddenSound,
       Updating!KeptBackFollowsSetting
  <2>2. CASE check.ok # {}
    BY <1>1, <1>6, <1>11, <2>2, Synced
  <2> QED
    BY <2>1, <2>2
<1>12. Updating!HiddenSound'
  BY <1>2, <1>3, <1>9, <1>10, <1>11 DEF Updating!HiddenSound, Updating!ManualHidesApply,
     Updating!KeptBackFollowsSetting,
     Updating!Visible, Updating!Active
<1> QED
  BY <1>3, <1>8, <1>9, <1>12 DEF UpdatesInv, CheckSound, WishesStored

LEMMA StepHide == ASSUME UpdatesInv, Updating!HideUpdate \/ Updating!UnhideUpdate
      \/ Updating!RetentionPasses PROVE UpdatesInv'
<1> USE DEF UpdatesInv
<1>1. CASE Updating!HideUpdate
  <2>1. PICK u \in Updating!Updates : /\ hidden' = Updating!Hide(hidden, u, "manual")
                                      /\ wish' = [wish EXCEPT ![u] = "hide"]
    BY <1>1 DEF Updating!HideUpdate
  <2>2. hidden' \in [Updating!Updates -> HiddenRow] /\ hidden'[u].state = "active"
        /\ hidden'[u].reason = "manual" /\ \A v \in Updating!Updates \ {u} : hidden'[v] = hidden[v]
    BY <2>1, Hidden DEF RowsTyped
  <2>3. UNCHANGED <<offered, cache, disabled, autoHide, check>>
    BY <1>1 DEF Updating!HideUpdate
  <2>4. RowsTyped' /\ WishesStored' /\ CheckSound'
    BY <2>1, <2>2, <2>3 DEF RowsTyped, WishesStored, CheckSound
  <2>5. Updating!HiddenSound'
    BY <2>1, <2>2, <2>3 DEF RowsTyped, Updating!HiddenSound, Updating!ManualHidesApply,
       Updating!KeptBackFollowsSetting,
       Updating!Visible, Updating!Active
  <2> QED
    BY <2>4, <2>5
<1>2. CASE Updating!UnhideUpdate
  <2>1. PICK u \in Updating!Updates : /\ hidden' = [hidden EXCEPT ![u] = Updating!NoRow]
                                      /\ wish' = [wish EXCEPT ![u] = "show"]
    BY <1>2 DEF Updating!UnhideUpdate
  <2>2. UNCHANGED <<offered, cache, disabled, autoHide, check>>
    BY <1>2 DEF Updating!UnhideUpdate
  <2>3. RowsTyped' /\ WishesStored' /\ CheckSound'
    BY <2>1, <2>2 DEF RowsTyped, WishesStored, CheckSound, HiddenRow
  <2>4. Updating!HiddenSound'
    BY <2>1, <2>2 DEF RowsTyped, Updating!HiddenSound, Updating!ManualHidesApply,
       Updating!KeptBackFollowsSetting,
       Updating!Visible, Updating!Active, Updating!NoRow
  <2> QED
    BY <2>3, <2>4
<1>3. CASE Updating!RetentionPasses
  <2>1. PICK u \in Updating!Updates : /\ hidden[u].state = "inactive"
                                      /\ hidden' = [hidden EXCEPT ![u].state = "old"]
    BY <1>3 DEF Updating!RetentionPasses
  <2>2. hidden' = [hidden EXCEPT ![u] = [hidden[u] EXCEPT !.state = "old"]]
    BY <2>1
  <2>3. hidden[u] \in [reason : {"manual", "kept_back"}, state : {"active", "inactive", "old"}]
    BY <2>1 DEF RowsTyped, HiddenRow, Updating!NoRow
  <2>4. UNCHANGED <<offered, cache, disabled, autoHide, check, wish>>
    BY <1>3 DEF Updating!RetentionPasses
  <2>5. hidden'[u].state = "old" /\ hidden'[u].reason = hidden[u].reason /\ hidden'[u] \in HiddenRow
        /\ \A v \in Updating!Updates \ {u} : hidden'[v] = hidden[v]
    BY <2>2, <2>3 DEF RowsTyped, HiddenRow
  <2>6. RowsTyped' /\ WishesStored' /\ CheckSound'
    BY <2>1, <2>4, <2>5 DEF RowsTyped, WishesStored, CheckSound
  <2>7. Updating!HiddenSound'
    BY <2>1, <2>4, <2>5 DEF RowsTyped, Updating!HiddenSound, Updating!ManualHidesApply,
       Updating!KeptBackFollowsSetting,
       Updating!Visible, Updating!Active
  <2> QED
    BY <2>6, <2>7
<1> QED
  BY <1>1, <1>2, <1>3

LEMMA StepStored == ASSUME UpdatesInv, Updating!SaveSystem \/ Updating!InvalidateCache
      PROVE UpdatesInv'
<1> USE DEF UpdatesInv
<1>1. CASE Updating!InvalidateCache
  BY <1>1 DEF Updating!InvalidateCache, Updating!Nothing, RowsTyped, WishesStored, CheckSound,
     Updating!HiddenSound,
     Updating!ManualHidesApply, Updating!KeptBackFollowsSetting, Updating!Visible
<1>2. CASE Updating!SaveSystem
  <2>1. PICK off \in SUBSET Managers, hide \in BOOLEAN :
          /\ disabled' = off /\ autoHide' = hide
          /\ cache' = IF off # disabled THEN Updating!Nothing ELSE cache
          /\ hidden' = Updating!Reconciled(hide, cache')
          /\ wish' = [u \in Updating!Updates |->
                        IF hide /\ wish[u] = "show" /\ cache'[u] = "kept" THEN "none" ELSE wish[u]]
          /\ UNCHANGED <<offered, installed, check>>
    BY <1>2 DEF Updating!SaveSystem
  <2>2. cache' \in [Updating!Updates -> {"no", "plain", "kept"}]
        /\ \A u \in Updating!Updates : cache'[u] # "no" => cache'[u] = cache[u]
    BY <2>1 DEF RowsTyped, Updating!Nothing
  <2>3. ASSUME NEW u \in Updating!Updates
        PROVE  /\ hidden'[u] \in HiddenRow
               /\ hidden[u].reason = "manual" => hidden'[u].reason = "manual"
               /\ hidden[u].reason = "manual" /\ hidden[u].state = "active" =>
                    hidden'[u].state = "active"
               /\ hide /\ cache'[u] = "kept" => hidden'[u].state = "active"
               /\ ~hide => hidden'[u] # Updating!Active("kept_back")
    <3>1. hidden'[u] = IF hide THEN IF cache'[u] = "kept" THEN Updating!Hide(hidden, u,
                                                                             "kept_back")[u]
                                    ELSE hidden[u]
                       ELSE IF hidden[u] = Updating!Active("kept_back")
                            THEN [hidden[u] EXCEPT !.state = "inactive"]
                       ELSE hidden[u]
      BY <2>1 DEF Updating!Reconciled
    <3>2. hidden[u] \in HiddenRow /\ hidden \in [Updating!Updates -> HiddenRow]
      BY DEF RowsTyped
    <3>3. CASE hide /\ cache'[u] = "kept"
      BY <3>1, <3>2, <3>3, Hidden
    <3>4. CASE ~(hide /\ cache'[u] = "kept")
      BY <3>1, <3>2, <3>4 DEF HiddenRow, Updating!Active, Updating!NoRow
    <3> QED
      BY <3>3, <3>4
  <2>4. hidden' \in [Updating!Updates -> HiddenRow]
    BY <2>1, <2>3 DEF Updating!Reconciled
  <2>5. RowsTyped'
    BY <2>1, <2>2, <2>4 DEF RowsTyped
  <2>6. WishesStored' /\ CheckSound'
    BY <2>1, <2>3 DEF WishesStored, CheckSound
  <2>7. Updating!HiddenSound'
    BY <2>1, <2>2, <2>3 DEF Updating!HiddenSound, Updating!ManualHidesApply,
       Updating!KeptBackFollowsSetting, Updating!Visible,
       WishesStored, Updating!Active
  <2> QED
    BY <2>5, <2>6, <2>7
<1> QED
  BY <1>1, <1>2

LEMMA UpdatesStep == ASSUME UpdatesInv, [Updating!Next]_Updating!vars PROVE UpdatesInv'
BY StepChecking, StepEndCheck, StepHide, StepStored DEF Updating!Next

LEMMA UpdatesHold == UpdatesInv => Updating!HiddenSound
BY DEF UpdatesInv

(* What an operator hid stays out of the counts, and updates kept back are *)
(* hidden as the setting says, however checks, edits and hides interleave. *)
THEOREM UpdatesCorrect == Updating!Spec => []Updating!HiddenSound
<1>1. Updating!Init => UpdatesInv
  BY UpdatesInit
<1>2. UpdatesInv /\ [Updating!Next]_Updating!vars => UpdatesInv'
  BY UpdatesStep
<1>3. UpdatesInv => Updating!HiddenSound
  BY UpdatesHold
<1> QED
  BY <1>1, <1>2, <1>3, PTL DEF Updating!Spec

--------------------------------------------------------------------------------
Keeping == INSTANCE History

--------------------------------------------------------------------------------
(***************************************************************************)
(* History.  The last check that was over has started after every other    *)
(* one, and retention keeps the latest of those.  The rows of operations   *)
(* are told from it by their ids.                                          *)
(***************************************************************************)
RowsKnown(table, hour) == \A r \in table : r.id \in 1 .. hour /\ r.start \in 1 .. hour

\* The check with this id is there, and the latest of those that are over.
HasLatest(table, id) ==
  \E r \in Keeping!OverChecks(table) : r.id = id
      /\ \A x \in Keeping!OverChecks(table) : x.start <= r.start

HistoryInv ==
  /\ clock \in Nat /\ running \in 0 .. clock /\ queued \in 0 .. clock /\ checked \in 0 .. clock
  /\ rows \subseteq Keeping!Row /\ RowsKnown(rows, clock)
  /\ checked # 0 => HasLatest(rows, checked)
  /\ checked = 0 => Keeping!OverChecks(rows) = {}
  /\ \A r \in rows : r.id \in {running, queued} => r.action = "upgrade"

LEMMA PruneRemoves ==
  ASSUME NEW table, NEW n PROVE Keeping!Prune(table, n) \subseteq table
BY DEF Keeping!Prune, Keeping!Newest, Keeping!OverChecks

\* What retention leaves of the checks still has the latest.
LEMMA PruneKeepsLatest ==
  ASSUME NEW table, NEW n, NEW id, HasLatest(table, id) PROVE HasLatest(Keeping!Prune(table, n), id)
<1>1. PICK r \in Keeping!OverChecks(table) : r.id = id
        /\ \A x \in Keeping!OverChecks(table) : x.start <= r.start
  BY DEF HasLatest
<1>2. r \in Keeping!Prune(table, n)
  BY <1>1 DEF Keeping!Prune
<1>3. r \in Keeping!OverChecks(Keeping!Prune(table, n))
  BY <1>2 DEF Keeping!OverChecks
<1>4. Keeping!OverChecks(Keeping!Prune(table, n)) \subseteq Keeping!OverChecks(table)
  BY PruneRemoves DEF Keeping!OverChecks
<1> QED
  BY <1>1, <1>3, <1>4 DEF HasLatest

\* A row that is added is not one of an operation.
LEMMA RowAdded ==
  ASSUME HistoryInv, NEW new \in Keeping!Row, new.id = clock + 1, new.start = clock + 1,
         clock' = clock + 1, rows' = Keeping!Prune(rows \cup {new}, limit)
  PROVE  /\ clock' \in Nat /\ clock' > clock
         /\ rows' \subseteq Keeping!Row /\ RowsKnown(rows', clock')
            /\ rows' \subseteq rows \cup {new}
         /\ \A r \in rows : r.id # clock + 1
<1>1. clock \in Nat /\ rows \subseteq Keeping!Row /\ RowsKnown(rows, clock)
  BY DEF HistoryInv
<1>2. clock + 1 \in Nat /\ clock + 1 > clock
  BY <1>1
<1>3. rows' \subseteq rows \cup {new}
  BY PruneRemoves
<1>4. \A r \in rows : r.id \in 1 .. clock + 1 /\ r.start \in 1 .. clock + 1 /\ r.id # clock + 1
  BY <1>1 DEF RowsKnown
<1>5. new.id \in 1 .. clock + 1 /\ new.start \in 1 .. clock + 1
  BY <1>1
<1> QED
  BY <1>1, <1>2, <1>3, <1>4, <1>5 DEF RowsKnown

LEMMA StepLogCheck == ASSUME HistoryInv, Keeping!LogCheck PROVE HistoryInv'
<1>1. PICK status \in Keeping!Over : Keeping!Add("check", status)
  BY DEF Keeping!LogCheck
<1> DEFINE new == [id |-> clock + 1, start |-> clock + 1, action |-> "check", status |-> status]
<1>2. rows' = Keeping!Prune(rows \cup {new}, limit) /\ clock' = clock + 1
  BY <1>1 DEF Keeping!Add
<1>3. UNCHANGED <<running, queued>> /\ checked' = clock + 1
  BY DEF Keeping!LogCheck
<1>4. clock \in Nat /\ running \in 0 .. clock /\ queued \in 0 .. clock /\ rows \subseteq Keeping!Row
      /\ RowsKnown(rows, clock) /\ \A r \in rows : r.id \in {running, queued}
         => r.action = "upgrade"
  BY DEF HistoryInv
<1>5. /\ new \in Keeping!Row /\ new.id = clock + 1 /\ new.start = clock + 1 /\ new.action = "check"
      /\ new.status \in Keeping!Over
  BY <1>4 DEF Keeping!Row
<1> HIDE DEF new
<1>6. /\ clock' \in Nat /\ clock' > clock
      /\ rows' \subseteq Keeping!Row /\ RowsKnown(rows', clock') /\ rows' \subseteq rows \cup {new}
  BY <1>2, <1>5, RowAdded
<1>7. HasLatest(rows \cup {new}, clock + 1)
  <2>1. new \in Keeping!OverChecks(rows \cup {new})
    BY <1>5 DEF Keeping!OverChecks
  <2>2. \A x \in rows \cup {new} : x.start <= new.start
    BY <1>4, <1>5 DEF RowsKnown
  <2> QED
    BY <1>5, <2>1, <2>2 DEF HasLatest, Keeping!OverChecks
<1>8. HasLatest(rows', checked')
  BY <1>2, <1>3, <1>7, PruneKeepsLatest
<1>9. clock + 1 # running /\ clock + 1 # queued
  BY <1>4
<1>10. \A r \in rows' : r.id \in {running', queued'} => r.action = "upgrade"
  BY <1>3, <1>4, <1>5, <1>6, <1>9
<1>11. /\ clock' \in Nat /\ running' \in 0 .. clock' /\ queued' \in 0 .. clock'
       /\ checked' \in 0 .. clock' /\ checked' # 0
  BY <1>2, <1>3, <1>4
<1> QED
  BY <1>6, <1>8, <1>10, <1>11 DEF HistoryInv

\* The row of an operation is added: retention may remove what is not the latest check.
LEMMA OperationAdded ==
  ASSUME HistoryInv, NEW status \in {"queued", "started"}, Keeping!Add("upgrade", status),
         UNCHANGED checked
  PROVE  /\ clock' \in Nat /\ clock' = clock + 1 /\ checked' \in 0 .. clock'
         /\ rows' \subseteq Keeping!Row /\ RowsKnown(rows', clock')
         /\ checked' # 0 => HasLatest(rows', checked')
         /\ checked' = 0 => Keeping!OverChecks(rows') = {}
         /\ \A r \in rows' : r.id \in {running, queued, clock + 1} => r.action = "upgrade"
<1> DEFINE new == [id |-> clock + 1, start |-> clock + 1, action |-> "upgrade", status |-> status]
<1>1. rows' = Keeping!Prune(rows \cup {new}, limit) /\ clock' = clock + 1
  BY DEF Keeping!Add
<1>2. /\ clock \in Nat /\ checked \in 0 .. clock
      /\ \A r \in rows : r.id \in {running, queued} => r.action = "upgrade"
  BY DEF HistoryInv
<1>3. new \in Keeping!Row /\ new.id = clock + 1 /\ new.start = clock + 1 /\ new.action = "upgrade"
  BY <1>2 DEF Keeping!Row
<1> HIDE DEF new
<1>4. /\ clock' \in Nat
      /\ rows' \subseteq Keeping!Row /\ RowsKnown(rows', clock') /\ rows' \subseteq rows \cup {new}
      /\ \A r \in rows : r.id # clock + 1
  BY <1>1, <1>3, RowAdded
<1>5. Keeping!OverChecks(rows \cup {new}) = Keeping!OverChecks(rows)
  BY <1>3 DEF Keeping!OverChecks
<1>6. checked # 0 => HasLatest(rows \cup {new}, checked)
  BY <1>5 DEF HistoryInv, HasLatest
<1>7. checked = 0 => Keeping!OverChecks(rows \cup {new}) = {}
  BY <1>5 DEF HistoryInv
<1>8. Keeping!OverChecks(rows') \subseteq Keeping!OverChecks(rows \cup {new})
  BY <1>4 DEF Keeping!OverChecks
<1>9. checked # 0 => HasLatest(rows', checked)
  BY <1>1, <1>6, PruneKeepsLatest
<1>10. checked \in 0 .. clock + 1
  BY <1>2
<1>11. \A r \in rows' : r.id \in {running, queued, clock + 1} => r.action = "upgrade"
  BY <1>2, <1>3, <1>4
<1> QED
  BY <1>1, <1>4, <1>7, <1>8, <1>9, <1>10, <1>11

LEMMA StepStartOperation == ASSUME HistoryInv, Keeping!StartOperation PROVE HistoryInv'
<1>1. Keeping!Add("upgrade", "started") /\ running' = clock + 1 /\ UNCHANGED <<queued, checked>>
  BY DEF Keeping!StartOperation
<1>2. clock \in Nat /\ queued \in 0 .. clock
  BY DEF HistoryInv
<1>3. running' \in 0 .. clock + 1 /\ queued' \in 0 .. clock + 1
  BY <1>1, <1>2
<1> QED
  BY <1>1, <1>3, OperationAdded DEF HistoryInv

LEMMA StepQueueItem == ASSUME HistoryInv, Keeping!QueueItem PROVE HistoryInv'
<1>1. Keeping!Add("upgrade", "queued") /\ queued' = clock + 1 /\ UNCHANGED <<running, checked>>
  BY DEF Keeping!QueueItem
<1>2. clock \in Nat /\ running \in 0 .. clock
  BY DEF HistoryInv
<1>3. running' \in 0 .. clock + 1 /\ queued' \in 0 .. clock + 1
  BY <1>1, <1>2
<1> QED
  BY <1>1, <1>3, OperationAdded DEF HistoryInv

\* The row of an operation changes, no check does.
LEMMA OperationChanged ==
  ASSUME HistoryInv, NEW id, \A r \in rows : r.id = id => r.action = "upgrade",
         \A r \in rows : r.id # id => r \in rows',
         \A x \in rows' : x \in rows \/ (/\ x \in Keeping!Row /\ x.id = id /\ id \in 1 .. clock
                                     /\ x.action = "upgrade" /\ x.start \in 1 .. clock'),
         clock' = clock \/ clock' = clock + 1, UNCHANGED checked
  PROVE  /\ checked' \in 0 .. clock' /\ rows' \subseteq Keeping!Row /\ RowsKnown(rows', clock')
         /\ checked' # 0 => HasLatest(rows', checked')
         /\ checked' = 0 => Keeping!OverChecks(rows') = {}
<1>1. clock \in Nat /\ rows \subseteq Keeping!Row /\ RowsKnown(rows, clock)
        /\ checked \in 0 .. clock
  BY DEF HistoryInv
<1>2. \A n \in 1 .. clock : n \in 1 .. clock'
  BY <1>1
<1>3. checked' \in 0 .. clock'
  BY <1>1
<1>4. \A x \in rows' : x \in Keeping!Row /\ x.id \in 1 .. clock' /\ x.start \in 1 .. clock'
  BY <1>1, <1>2 DEF RowsKnown
<1>5. Keeping!OverChecks(rows') = Keeping!OverChecks(rows)
  BY DEF Keeping!OverChecks
<1> QED
  BY <1>3, <1>4, <1>5 DEF RowsKnown, HistoryInv, HasLatest

LEMMA StepStartItem == ASSUME HistoryInv, Keeping!StartItem PROVE HistoryInv'
<1>1. /\ rows' = {IF r.id = queued THEN [r EXCEPT !.status = "started", !.start = clock + 1]
                                 ELSE r : r \in rows}
      /\ clock' = clock + 1 /\ running' = queued /\ queued' = 0 /\ UNCHANGED checked
  BY DEF Keeping!StartItem
<1>2. /\ clock \in Nat /\ queued \in 0 .. clock /\ rows \subseteq Keeping!Row
      /\ \A r \in rows : (r.id \in {running, queued} => r.action = "upgrade") /\ r.id \in 1 .. clock
  BY DEF HistoryInv, RowsKnown
<1>3. ASSUME NEW r \in rows, r.id = queued, NEW x,
             x = [r EXCEPT !.status = "started", !.start = clock + 1]
      PROVE  x \in Keeping!Row /\ x.id = queued /\ queued \in 1 .. clock /\ x.action = "upgrade"
             /\ x.start \in 1 .. clock'
  <2>1. r \in Keeping!Row /\ r.action = "upgrade" /\ clock + 1 \in Nat
          /\ clock + 1 \in 1 .. clock + 1
    BY <1>2, <1>3
  <2> DEFINE s == [r EXCEPT !.status = "started"]
  <2>2. s \in Keeping!Row /\ s.id = r.id /\ s.action = r.action
    BY <2>1 DEF Keeping!Row
  <2>3. x = [s EXCEPT !.start = clock + 1]
    BY <1>3, <2>1 DEF Keeping!Row
  <2> HIDE DEF s
  <2>4. x \in Keeping!Row /\ x.id = s.id /\ x.action = s.action /\ x.start = clock + 1
    BY <2>1, <2>2, <2>3 DEF Keeping!Row
  <2>5. x.start \in 1 .. clock'
    BY <1>1, <2>1, <2>4
  <2> QED
    BY <1>2, <1>3, <2>1, <2>2, <2>4, <2>5
<1>4. /\ \A r \in rows : r.id # queued => r \in rows'
      /\ \A x \in rows' : x \in rows \/ (/\ x \in Keeping!Row /\ x.id = queued /\ queued \in 1 .. clock
                                     /\ x.action = "upgrade" /\ x.start \in 1 .. clock')
  BY <1>1, <1>3
<1>5. /\ checked' \in 0 .. clock' /\ rows' \subseteq Keeping!Row /\ RowsKnown(rows', clock')
      /\ checked' # 0 => HasLatest(rows', checked')
      /\ checked' = 0 => Keeping!OverChecks(rows') = {}
  <2>1. UNCHANGED checked /\ clock' = clock + 1 /\ \A r \in rows : r.id = queued
          => r.action = "upgrade"
    BY <1>1, <1>2
  <2> QED
    BY <1>4, <2>1, OperationChanged
<1>6. clock' \in Nat /\ running' \in 0 .. clock' /\ queued' \in 0 .. clock'
  <2>1. clock + 1 \in Nat /\ queued \in 0 .. clock + 1 /\ 0 \in 0 .. clock + 1
    BY <1>2
  <2> QED
    BY <1>1, <2>1
<1>7. \A x \in rows' : x.id \in {running', queued'} => x.action = "upgrade"
  <2>1. running' = queued /\ queued' = 0
    BY <1>1
  <2>2. \A x \in rows : x.id # 0
    BY <1>2
  <2>3. \A x \in rows' : x.id # 0
    BY <1>2, <1>4, <2>2
  <2> QED
    BY <1>2, <1>4, <2>1, <2>3
<1> QED
  BY <1>5, <1>6, <1>7 DEF HistoryInv

LEMMA StepFinish == ASSUME HistoryInv, Keeping!Finish PROVE HistoryInv'
<1>1. PICK status \in Keeping!Over :
        rows' = {IF r.id = running THEN [r EXCEPT !.status = status] ELSE r : r \in rows}
  BY DEF Keeping!Finish
<1>2. running' = 0 /\ UNCHANGED <<queued, clock, checked>>
  BY DEF Keeping!Finish
<1>3. /\ clock \in Nat /\ queued \in 0 .. clock /\ rows \subseteq Keeping!Row
      /\ \A r \in rows : (r.id \in {running, queued} => r.action = "upgrade")
                         /\ r.id \in 1 .. clock /\ r.start \in 1 .. clock
  BY DEF HistoryInv, RowsKnown
<1>4. ASSUME NEW r \in rows, r.id = running, NEW x, x = [r EXCEPT !.status = status]
      PROVE  x \in Keeping!Row /\ x.id = running /\ running \in 1 .. clock /\ x.action = "upgrade"
             /\ x.start \in 1 .. clock'
  <2>1. r \in Keeping!Row /\ r.action = "upgrade"
    BY <1>3, <1>4
  <2>2. x \in Keeping!Row /\ x.id = r.id /\ x.action = r.action /\ x.start = r.start
    BY <1>4, <2>1 DEF Keeping!Row
  <2> QED
    BY <1>2, <1>3, <1>4, <2>1, <2>2
<1>5. /\ \A r \in rows : r.id # running => r \in rows'
      /\ \A x \in rows' : x \in rows \/ (/\ x \in Keeping!Row /\ x.id = running /\ running \in 1 .. clock
                                     /\ x.action = "upgrade" /\ x.start \in 1 .. clock')
  BY <1>1, <1>4
<1>6. /\ checked' \in 0 .. clock' /\ rows' \subseteq Keeping!Row /\ RowsKnown(rows', clock')
      /\ checked' # 0 => HasLatest(rows', checked')
      /\ checked' = 0 => Keeping!OverChecks(rows') = {}
  <2>1. \A r \in rows : r.id = running => r.action = "upgrade"
    BY <1>3
  <2> QED
    BY <1>2, <1>5, <2>1, OperationChanged
<1>7. clock' \in Nat /\ running' \in 0 .. clock' /\ queued' \in 0 .. clock'
  BY <1>2, <1>3
<1>8. \A x \in rows' : x.id \in {running', queued'} => x.action = "upgrade"
  <2>1. \A x \in rows' : x.id # 0 \/ x \in rows
    BY <1>3, <1>5
  <2>2. \A x \in rows : x.id # 0
    BY <1>3
  <2> QED
    BY <1>2, <1>3, <1>5, <2>1, <2>2
<1> QED
  BY <1>6, <1>7, <1>8 DEF HistoryInv

LEMMA StepSetLimit == ASSUME HistoryInv, Keeping!SetLimit PROVE HistoryInv'
<1>1. rows' = Keeping!Prune(rows, limit') /\ UNCHANGED <<running, queued, clock, checked>>
  BY DEF Keeping!SetLimit
<1>2. rows' \subseteq rows
  BY <1>1, PruneRemoves
<1>3. checked # 0 => HasLatest(rows', checked)
  BY <1>1, PruneKeepsLatest DEF HistoryInv
<1>4. checked = 0 => Keeping!OverChecks(rows') = {}
  BY <1>2 DEF HistoryInv, Keeping!OverChecks
<1> QED
  BY <1>1, <1>2, <1>3, <1>4 DEF HistoryInv, RowsKnown

LEMMA HistoryInit == Keeping!Init => HistoryInv
BY DEF Keeping!Init, HistoryInv, RowsKnown, Keeping!OverChecks

LEMMA HistoryStep == HistoryInv /\ [Keeping!Next]_Keeping!vars => HistoryInv'
<1> SUFFICES ASSUME HistoryInv, [Keeping!Next]_Keeping!vars PROVE HistoryInv'
  OBVIOUS
<1>1. CASE UNCHANGED Keeping!vars
  BY <1>1 DEF Keeping!vars, HistoryInv, RowsKnown, HasLatest, Keeping!OverChecks
<1> QED
  BY <1>1, StepLogCheck, StepStartOperation, StepQueueItem, StepStartItem, StepFinish, StepSetLimit
     DEF Keeping!Next

LEMMA HistoryKeeps == HistoryInv => Keeping!LatestCheckKept
BY DEF HistoryInv, HasLatest, Keeping!LatestCheckKept

(* The last check that was over stays, whatever is added, starts late or   *)
(* ends after it, and however the limit is set.                            *)
THEOREM HistoryCorrect == Keeping!Spec => []Keeping!LatestCheckKept
<1>1. Keeping!Init => HistoryInv
  BY HistoryInit
<1>2. HistoryInv /\ [Keeping!Next]_Keeping!vars => HistoryInv'
  BY HistoryStep
<1>3. HistoryInv => Keeping!LatestCheckKept
  BY HistoryKeeps
<1> QED
  BY <1>1, <1>2, <1>3, PTL DEF Keeping!Spec

--------------------------------------------------------------------------------
Polling == INSTANCE Jobs

-------------------------------------------------------------------------------
(***************************************************************************)
(* Jobs.  An id is given once, so that a job and its call know each other  *)
(* for as long as the job is kept: the proof keeps that a call's id finds  *)
(* its own job or none, that a job that is over ended as it says, and that *)
(* a call was told a result only after that.                               *)
(***************************************************************************)
Posted == {c \in Calls : call[c] # None /\ call[c].job # None}

JobsTyped ==
  /\ jobs \in [Polling!Ids -> Polling!JobRow \cup {None}]
  /\ call \in [Calls -> Polling!CallRow \cup {None}]
  /\ ended \in [Calls -> Polling!Over \cup {None}]

\* Ids were given one by one.
IdsGiven ==
  /\ given \in Nat /\ given = Polling!Cardinality(Posted)
  /\ \A c \in Posted : call[c].job <= given

KnowEachOther ==
  /\ \A i \in Polling!Ids : jobs[i] # None => call[jobs[i].call] # None
     /\ call[jobs[i].call].job = i
  /\ \A c \in Posted : jobs[call[c].job] # None => jobs[call[c].job].call = c
  /\ \A c \in Calls : Polling!At(c, "posting") => call[c].job = None
  /\ \A c \in Calls : Polling!At(c, "starting") \/ Polling!At(c, "polling") => call[c].job # None

ResultsTrue ==
  /\ \A i \in Polling!Ids : jobs[i] # None /\ jobs[i].state \in Polling!Over
     => ended[jobs[i].call] = jobs[i].state
  /\ \A c \in Calls : call[c] # None /\ call[c].told \in Results =>
       /\ c \in Posted /\ ended[c] = call[c].told
       /\ jobs[call[c].job] # None => jobs[call[c].job].state \in Polling!Over

JobsInv == JobsTyped /\ IdsGiven /\ KnowEachOther /\ ResultsTrue

LEMMA JobsCount == \A S : Polling!Cardinality(S) = Cardinality(S)
      /\ Polling!IsFiniteSet(S) = IsFiniteSet(S)
BY DEF Polling!Cardinality, Cardinality, Polling!IsFiniteSet, IsFiniteSet

LEMMA JobIdsAreOwn == ASSUME Polling!JobsAssumption PROVE Polling!Ids \subseteq Nat
      /\ None \notin Polling!Ids
BY DEF Polling!Ids, Polling!JobsAssumption

\* There is an id for one more call.
LEMMA NextIdThere ==
  ASSUME Polling!JobsAssumption, JobsInv, NEW c \in Calls, c \notin Posted
  PROVE  /\ given + 1 \in Polling!Ids
         /\ Polling!Cardinality(Posted \cup {c}) = given + 1
<1>1. IsFiniteSet(Calls) /\ Posted \subseteq Calls
  BY JobsCount DEF Polling!JobsAssumption, Posted
<1>2. IsFiniteSet(Posted)
  BY <1>1, FS_Subset
<1>3. Cardinality(Posted \cup {c}) = Cardinality(Posted) + 1
  BY <1>2, FS_AddElement
<1>4. Posted \cup {c} \subseteq Calls
  BY <1>1
<1>5. Cardinality(Posted \cup {c}) <= Cardinality(Calls)
  BY <1>1, <1>4, FS_Subset
<1>6. Cardinality(Calls) \in Nat
  BY <1>1, FS_CardinalityType
<1> QED
  BY <1>3, <1>5, <1>6, JobsCount DEF JobsInv, IdsGiven, Polling!Ids

LEMMA JobsInit == ASSUME Polling!JobsAssumption PROVE Polling!Init => JobsInv
<1> SUFFICES ASSUME Polling!Init PROVE JobsInv
  OBVIOUS
<1>1. Posted = {}
  BY DEF Polling!Init, Posted
<1>2. Cardinality(Posted) = 0
  BY <1>1, FS_EmptySet
<1>3. given \in Nat /\ given = Polling!Cardinality(Posted)
  BY <1>2, JobsCount DEF Polling!Init
<1> QED
  BY <1>1, <1>3 DEF Polling!Init, JobsInv, JobsTyped, IdsGiven, KnowEachOther, ResultsTrue,
     Polling!At

(***************************************************************************)
(* Steps of callers.                                                       *)
(***************************************************************************)
\* One call changes, and neither its id nor what it was told becomes a result.
LEMMA CallKeeps ==
  ASSUME Polling!JobsAssumption, JobsInv, NEW c \in Calls, NEW new \in Polling!CallRow,
         call' = [call EXCEPT ![c] = new],
         new.job = IF call[c] = None THEN None ELSE call[c].job,
         new.pc = "posting" => call[c] = None,
         new.pc \in {"starting", "polling"} => new.job # None,
         new.told \in Results =>
           /\ new.job # None /\ ended[c] = new.told
           /\ jobs[new.job] # None => jobs[new.job].state \in Polling!Over,
         UNCHANGED <<jobs, given, ended>>
  PROVE  JobsInv'
<1>0. new # None
  BY DEF Polling!JobsAssumption
<1>1. \A d \in Calls : call'[d] = IF d = c THEN new ELSE call[d]
  BY DEF JobsInv, JobsTyped
<1>3. JobsTyped'
  BY DEF JobsInv, JobsTyped
<1>4. Posted' = Posted
  BY <1>0, <1>1 DEF Posted
<1>5. IdsGiven'
  BY <1>1, <1>4 DEF JobsInv, IdsGiven, Posted
<1>6. KnowEachOther'
  <2>1. \A i \in Polling!Ids : jobs[i] # None => jobs[i].call \in Calls
    BY DEF JobsInv, JobsTyped, Polling!JobRow
  <2>2. \A i \in Polling!Ids : jobs'[i] # None => call'[jobs'[i].call] # None
          /\ call'[jobs'[i].call].job = i
    BY <1>0, <1>1, <2>1 DEF JobsInv, KnowEachOther
  <2>3. \A d \in Posted' : jobs'[call'[d].job] # None => jobs'[call'[d].job].call = d
    BY <1>0, <1>1, <1>4 DEF JobsInv, KnowEachOther, Posted
  <2>4. \A d \in Calls : Polling!At(d, "posting")' => call'[d].job = None
    BY <1>1 DEF JobsInv, KnowEachOther, Polling!At
  <2>5. \A d \in Calls : Polling!At(d, "starting")' \/ Polling!At(d, "polling")'
          => call'[d].job # None
    BY <1>1 DEF JobsInv, KnowEachOther, Polling!At
  <2> QED
    BY <2>2, <2>3, <2>4, <2>5 DEF KnowEachOther
<1>7. ResultsTrue'
  <2> SUFFICES ASSUME NEW d \in Calls, call'[d] # None, call'[d].told \in Results
               PROVE  /\ d \in Posted' /\ ended'[d] = call'[d].told
                      /\ jobs'[call'[d].job] # None => jobs'[call'[d].job].state \in Polling!Over
    BY DEF JobsInv, ResultsTrue
  <2>1. CASE d = c
    BY <1>0, <1>1, <1>4, <2>1 DEF Posted
  <2>2. CASE d # c
    BY <1>1, <1>4, <2>2 DEF JobsInv, ResultsTrue
  <2> QED
    BY <2>1, <2>2
<1> QED
  BY <1>3, <1>5, <1>6, <1>7 DEF JobsInv

\* A call moves on.
LEMMA MoveKeeps ==
  ASSUME Polling!JobsAssumption, JobsInv, NEW c \in Calls, call[c] # None,
         NEW stage \in {"starting", "polling", "told", "done"},
         NEW news \in Polling!Over \cup {"unknown", None},
         call' = [call EXCEPT ![c] = [[@ EXCEPT !.pc = stage] EXCEPT !.told = news]],
         stage \in {"starting", "polling"} => call[c].job # None,
         news \in Results =>
           /\ call[c].job # None /\ ended[c] = news
           /\ jobs[call[c].job] # None => jobs[call[c].job].state \in Polling!Over,
         UNCHANGED <<jobs, given, ended>>
  PROVE  JobsInv'
<1> DEFINE new == [[call[c] EXCEPT !.pc = stage] EXCEPT !.told = news]
<1>1. call[c] \in Polling!CallRow
  BY DEF JobsInv, JobsTyped
<1>2. new \in Polling!CallRow /\ new.job = call[c].job /\ new.pc = stage /\ new.told = news
  BY <1>1 DEF Polling!CallRow
<1>3. call' = [call EXCEPT ![c] = new]
  OBVIOUS
<1> HIDE DEF new
<1>4. new.pc # "posting" /\ new.job = IF call[c] = None THEN None ELSE call[c].job
  BY <1>2
<1>5. new.pc \in {"starting", "polling"} => new.job # None
  BY <1>2
<1>6. new.told \in Results =>
         /\ new.job # None /\ ended[c] = new.told
         /\ jobs[new.job] # None => jobs[new.job].state \in Polling!Over
  BY <1>2
<1>7. new \in Polling!CallRow
  BY <1>2
<1> QED
  BY <1>3, <1>4, <1>5, <1>6, <1>7, CallKeeps

LEMMA StepAsk == ASSUME Polling!JobsAssumption, JobsInv, NEW c \in Calls, Polling!Ask(c)
      PROVE JobsInv'
<1> DEFINE new == [job |-> None, pc |-> "posting", told |-> None]
<1>1. new \in Polling!CallRow /\ new.job = None /\ new.pc = "posting" /\ new.told = None
  BY DEF Polling!CallRow
<1>2. call[c] = None /\ call' = [call EXCEPT ![c] = new] /\ UNCHANGED <<jobs, given, ended>>
  BY DEF Polling!Ask
<1>3. None \notin Results
  BY DEF Polling!JobsAssumption, Polling!Over
<1> HIDE DEF new
<1> QED
  BY <1>1, <1>2, <1>3, CallKeeps

\* A call is told an error, or what is no result of its operation.
LEMMA ToldKeeps ==
  ASSUME Polling!JobsAssumption, JobsInv, NEW c \in Calls,
         NEW news \in Polling!Over \cup {"unknown"},
         call[c] # None, Polling!Tell(c, news),
         news \in Results =>
           /\ call[c].job # None /\ ended[c] = news
           /\ jobs[call[c].job] # None => jobs[call[c].job].state \in Polling!Over,
         UNCHANGED <<jobs, given, ended>>
  PROVE  JobsInv'
<1>1. call' = [call EXCEPT ![c] = [[@ EXCEPT !.pc = "told"] EXCEPT !.told = news]]
  BY DEF Polling!Tell, JobsInv, JobsTyped
<1> QED
  BY <1>1, MoveKeeps

LEMMA ErrorKeeps ==
  ASSUME Polling!JobsAssumption, JobsInv, NEW c \in Calls, call[c] # None,
         Polling!Tell(c, "error") \/ Polling!Tell(c, "unknown"), UNCHANGED <<jobs, given, ended>>
  PROVE  JobsInv'
<1>1. "error" \notin Results /\ "unknown" \notin Results /\ "error" \in Polling!Over
  BY DEF Polling!JobsAssumption, Polling!Over
<1> QED
  BY <1>1, ToldKeeps

LEMMA StepStarted == ASSUME Polling!JobsAssumption, JobsInv, NEW c \in Calls, Polling!Started(c)
      PROVE JobsInv'
<1>1. call[c] # None /\ call[c].pc = "starting" /\ UNCHANGED <<jobs, given, ended>>
  BY DEF Polling!Started, Polling!At
<1>2. CASE call' = [call EXCEPT ![c].pc = "polling"]
  <2>1. call[c].job # None
    BY <1>1 DEF JobsInv, KnowEachOther, Polling!At
  <2>2. call[c] \in Polling!CallRow
    BY <1>1 DEF JobsInv, JobsTyped
  <2>3. /\ call[c].told \in Polling!Over \cup {"unknown", None}
        /\ [call[c] EXCEPT !.pc = "polling"]
             = [[call[c] EXCEPT !.pc = "polling"] EXCEPT !.told = call[c].told]
    BY <2>2 DEF Polling!CallRow
  <2>4. call' = [call EXCEPT ![c] = [[call[c] EXCEPT !.pc = "polling"] EXCEPT !.told = call[c].told]]
    BY <1>2, <2>3 DEF JobsInv, JobsTyped
  <2>5. call[c].told \in Results =>
           /\ ended[c] = call[c].told
           /\ jobs[call[c].job] # None => jobs[call[c].job].state \in Polling!Over
    BY <1>1 DEF JobsInv, ResultsTrue
  <2> QED
    BY <1>1, <2>1, <2>3, <2>4, <2>5, MoveKeeps
<1> QED
  BY <1>1, <1>2, ErrorKeeps DEF Polling!Started

LEMMA StepPoll ==
  ASSUME Polling!JobsAssumption, JobsInv, NEW c \in Calls, Polling!Poll(c) \/ Polling!GiveUp(c)
         PROVE JobsInv'
<1>1. call[c] # None /\ call[c].pc = "polling" /\ UNCHANGED <<jobs, given, ended>>
  BY DEF Polling!Poll, Polling!GiveUp, Polling!At
<1>2. CASE \E news \in {"error", "unknown"} : Polling!Tell(c, news)
  BY <1>1, <1>2, ErrorKeeps
<1>3. CASE /\ jobs[call[c].job] # None /\ jobs[call[c].job].state \in Polling!Over
           /\ Polling!Tell(c, jobs[call[c].job].state)
  <2>1. c \in Posted /\ call[c].job \in Polling!Ids
    BY <1>1 DEF JobsInv, KnowEachOther, JobsTyped, Polling!CallRow, Posted, Polling!At
  <2>2. jobs[call[c].job].call = c
    BY <1>3, <2>1 DEF JobsInv, KnowEachOther
  <2>3. ended[c] = jobs[call[c].job].state
    BY <1>3, <2>1, <2>2 DEF JobsInv, ResultsTrue
  <2>4. call[c].job # None
    BY <2>1 DEF Posted
  <2> DEFINE news == jobs[call[c].job].state
  <2>5. news \in Polling!Over /\ ended[c] = news /\ Polling!Tell(c, news)
    BY <1>3, <2>3
  <2>6. jobs[call[c].job].state \in Polling!Over
    BY <1>3
  <2> HIDE DEF news
  <2> QED
    BY <1>1, <2>4, <2>5, <2>6, ToldKeeps
<1> QED
  BY <1>2, <1>3 DEF Polling!Poll, Polling!GiveUp

LEMMA StepCallback == ASSUME Polling!JobsAssumption, JobsInv, NEW c \in Calls, Polling!Callback(c)
      PROVE JobsInv'
<1>1. call[c] # None /\ UNCHANGED <<jobs, given, ended>> /\ call' = [call EXCEPT ![c].pc = "done"]
  BY DEF Polling!Callback, Polling!At
<1>2. call[c] \in Polling!CallRow
  BY <1>1 DEF JobsInv, JobsTyped
<1>3. /\ call[c].told \in Polling!Over \cup {"unknown", None}
      /\ [call[c] EXCEPT !.pc = "done"]
           = [[call[c] EXCEPT !.pc = "done"] EXCEPT !.told = call[c].told]
  BY <1>2 DEF Polling!CallRow
<1>4. call' = [call EXCEPT ![c] = [[call[c] EXCEPT !.pc = "done"] EXCEPT !.told = call[c].told]]
  BY <1>1, <1>3 DEF JobsInv, JobsTyped
<1>5. call[c].told \in Results =>
         /\ call[c].job # None /\ ended[c] = call[c].told
         /\ jobs[call[c].job] # None => jobs[call[c].job].state \in Polling!Over
  BY <1>1 DEF JobsInv, ResultsTrue, Posted
<1> QED
  BY <1>1, <1>3, <1>4, <1>5, MoveKeeps

LEMMA PostedKeeps ==
  ASSUME Polling!JobsAssumption, JobsInv, NEW c \in Calls, Polling!At(c, "posting"),
         NEW new \in Polling!CallRow, NEW job \in Polling!JobRow,
         new.job = given + 1, new.pc = "starting", new.told = call[c].told,
         job.call = c, job.state = "waiting",
         call' = [call EXCEPT ![c] = new], jobs' = [jobs EXCEPT ![given + 1] = job],
         given' = given + 1, ended' = ended
  PROVE  JobsInv'
<1>1. call[c] # None /\ call[c] \in Polling!CallRow /\ call[c].job = None
  BY DEF JobsInv, JobsTyped, KnowEachOther, Polling!At
<1>2. c \notin Posted
  BY <1>1 DEF Posted
<1>3. given + 1 \in Polling!Ids /\ Polling!Cardinality(Posted \cup {c}) = given + 1
  BY <1>2, NextIdThere
<1>8. \A d \in Calls : call'[d] = IF d = c THEN new ELSE call[d]
  BY DEF JobsInv, JobsTyped
<1>9. \A i \in Polling!Ids : jobs'[i] = IF i = given + 1 THEN job ELSE jobs[i]
  BY DEF JobsInv, JobsTyped
<1>10. new # None /\ job # None /\ given + 1 # None
  BY <1>3 DEF Polling!JobsAssumption
<1>11. JobsTyped'
  BY DEF JobsInv, JobsTyped
<1>12. Posted' = Posted \cup {c}
  BY <1>8, <1>10 DEF Posted
<1>13. given \in Nat /\ \A d \in Posted : call[d].job \in Polling!Ids /\ call[d].job <= given
  BY DEF JobsInv, IdsGiven, JobsTyped, Polling!CallRow, Posted
<1>14. IdsGiven'
  <2>1. \A d \in Posted' : call'[d].job <= given + 1
    BY <1>2, <1>8, <1>12, <1>13, JobIdsAreOwn DEF Posted
  <2> QED
    BY <1>3, <1>12, <1>13, <2>1 DEF IdsGiven
<1>15. \A d \in Posted : d # c /\ call[d].job # given + 1
  BY <1>2, <1>13, JobIdsAreOwn
<1>16. \A i \in Polling!Ids : jobs[i] # None => jobs[i].call \in Posted
         /\ call[jobs[i].call].job = i
  BY JobIdsAreOwn DEF JobsInv, KnowEachOther, JobsTyped, Polling!JobRow, Posted
<1>17. KnowEachOther'
  <2>1. \A i \in Polling!Ids : jobs'[i] # None => call'[jobs'[i].call] # None
                 /\ call'[jobs'[i].call].job = i
    <3> SUFFICES ASSUME NEW i \in Polling!Ids, jobs'[i] # None
                 PROVE  call'[jobs'[i].call] # None /\ call'[jobs'[i].call].job = i
      OBVIOUS
    <3>1. CASE i = given + 1
      BY <1>8, <1>9, <1>10, <3>1
    <3>2. CASE i # given + 1
      <4>1. jobs'[i] = jobs[i] /\ jobs[i].call \in Posted /\ call[jobs[i].call].job = i
        BY <1>9, <1>16, <3>2
      <4> QED
        BY <1>8, <1>15, <4>1 DEF Posted
    <3> QED
      BY <3>1, <3>2
  <2>2. \A d \in Posted' : jobs'[call'[d].job] # None => jobs'[call'[d].job].call = d
    <3> SUFFICES ASSUME NEW d \in Posted', jobs'[call'[d].job] # None
                 PROVE  jobs'[call'[d].job].call = d
      OBVIOUS
    <3>1. CASE d = c
      BY <1>3, <1>8, <1>9, <3>1
    <3>2. CASE d # c
      <4>1. d \in Posted /\ call'[d] = call[d]
        BY <1>8, <1>12, <3>2 DEF Posted
      <4>2. jobs'[call'[d].job] = jobs[call[d].job]
        BY <1>9, <1>13, <1>15, <4>1
      <4> QED
        BY <4>1, <4>2 DEF JobsInv, KnowEachOther
    <3> QED
      BY <3>1, <3>2
  <2>3. \A d \in Calls : Polling!At(d, "posting")' => call'[d].job = None
    BY <1>8 DEF JobsInv, KnowEachOther, Polling!At
  <2>4. \A d \in Calls : Polling!At(d, "starting")' \/ Polling!At(d, "polling")'
          => call'[d].job # None
    BY <1>8, <1>10 DEF JobsInv, KnowEachOther, Polling!At
  <2> QED
    BY <2>1, <2>2, <2>3, <2>4 DEF KnowEachOther
<1>18. ResultsTrue'
  <2>1. "waiting" \notin Polling!Over
    BY DEF Polling!JobsAssumption, Polling!Over
  <2>2. \A i \in Polling!Ids : jobs'[i] # None /\ jobs'[i].state \in Polling!Over
          => ended'[jobs'[i].call] = jobs'[i].state
    BY <1>9, <2>1 DEF JobsInv, ResultsTrue
  <2>3. call[c].told \notin Results
    BY <1>1, <1>2 DEF JobsInv, ResultsTrue
  <2>4. ASSUME NEW d \in Calls, call'[d] # None, call'[d].told \in Results
        PROVE  /\ d \in Posted' /\ ended'[d] = call'[d].told
               /\ jobs'[call'[d].job] # None => jobs'[call'[d].job].state \in Polling!Over
    <3>1. d # c /\ call'[d] = call[d]
      BY <1>8, <2>3, <2>4
    <3>2. /\ d \in Posted /\ ended[d] = call[d].told
          /\ jobs[call[d].job] # None => jobs[call[d].job].state \in Polling!Over
      BY <2>4, <3>1 DEF JobsInv, ResultsTrue
    <3>3. jobs'[call'[d].job] = jobs[call[d].job]
      BY <1>9, <1>13, <1>15, <3>1, <3>2
    <3> QED
      BY <1>12, <3>1, <3>2, <3>3
  <2> QED
    BY <2>2, <2>4 DEF ResultsTrue
<1> QED
  BY <1>11, <1>14, <1>17, <1>18 DEF JobsInv

LEMMA StepPosted ==
  ASSUME Polling!JobsAssumption, JobsInv, NEW c \in Calls, Polling!At(c, "posting"),
         given' = given + 1,
         jobs' = [jobs EXCEPT ![given'] = [call |-> c, state |-> "waiting"]],
         call' = [call EXCEPT ![c].pc = "starting", ![c].job = given'], UNCHANGED ended
  PROVE  JobsInv'
<1> DEFINE new == [[call[c] EXCEPT !.pc = "starting"] EXCEPT !.job = given']
<1> DEFINE job == [call |-> c, state |-> "waiting"]
<1>1. call[c] # None /\ call[c] \in Polling!CallRow /\ call[c].job = None
  BY DEF JobsInv, JobsTyped, KnowEachOther, Polling!At
<1>2. c \notin Posted
  BY <1>1 DEF Posted
<1>3. given + 1 \in Polling!Ids /\ Polling!Cardinality(Posted \cup {c}) = given + 1
  BY <1>2, NextIdThere
<1>4. /\ new \in Polling!CallRow /\ new.job = given + 1 /\ new.pc = "starting"
      /\ new.told = call[c].told
  BY <1>1, <1>3 DEF Polling!CallRow
<1>5. job \in Polling!JobRow /\ job.call = c /\ job.state = "waiting"
  BY DEF Polling!JobRow, Polling!States
<1>6. call' = [call EXCEPT ![c] = new]
  BY DEF JobsInv, JobsTyped
<1>7. jobs' = [jobs EXCEPT ![given + 1] = job]
  OBVIOUS
<1> HIDE DEF new, job
<1> QED
  BY <1>4, <1>5, <1>6, <1>7, PostedKeeps

LEMMA StepPost == ASSUME Polling!JobsAssumption, JobsInv, NEW c \in Calls, Polling!Post(c)
      PROVE JobsInv'
<1>1. call[c] # None
  BY DEF Polling!Post, Polling!At
<1>2. CASE Polling!Tell(c, "error") /\ UNCHANGED <<jobs, given>>
  BY <1>1, <1>2, ErrorKeeps DEF Polling!Post
<1> QED
  BY <1>2, StepPosted DEF Polling!Post

(***************************************************************************)
(* Steps of the server.                                                    *)
(***************************************************************************)
\* Some jobs change their state, or are forgotten.
LEMMA JobsKeep ==
  ASSUME Polling!JobsAssumption, JobsInv,
         jobs' \in [Polling!Ids -> Polling!JobRow \cup {None}],
             ended' \in [Calls -> Polling!Over \cup {None}],
         \A i \in Polling!Ids : jobs'[i] # None => jobs[i] # None /\ jobs'[i].call = jobs[i].call,
         \A i \in Polling!Ids : jobs'[i] # None /\ jobs'[i].state \in Polling!Over
             => ended'[jobs[i].call] = jobs'[i].state,
         \A c \in Posted : jobs[call[c].job] = None \/ jobs[call[c].job].state \in Polling!Over =>
           /\ ended'[c] = ended[c]
           /\ jobs'[call[c].job] # None => jobs'[call[c].job].state \in Polling!Over,
         UNCHANGED <<given, call>>
  PROVE  JobsInv'
<1>1. JobsTyped'
  BY DEF JobsInv, JobsTyped
<1>2. Posted' = Posted
  BY DEF Posted
<1>3. IdsGiven'
  BY <1>2 DEF JobsInv, IdsGiven
<1>4. \A c \in Posted : call[c].job \in Polling!Ids
  BY DEF JobsInv, JobsTyped, Polling!CallRow, Posted
<1>5. KnowEachOther'
  BY <1>2, <1>4 DEF JobsInv, KnowEachOther, Polling!At
<1>6. ResultsTrue'
  <2>1. \A i \in Polling!Ids : jobs'[i] # None /\ jobs'[i].state \in Polling!Over
          => ended'[jobs'[i].call] = jobs'[i].state
    OBVIOUS
  <2>2. \A c \in Calls : call'[c] # None /\ call'[c].told \in Results =>
       /\ c \in Posted' /\ ended'[c] = call'[c].told
       /\ jobs'[call'[c].job] # None => jobs'[call'[c].job].state \in Polling!Over
    BY <1>2 DEF JobsInv, ResultsTrue
  <2> QED
    BY <2>1, <2>2 DEF ResultsTrue
<1> QED
  BY <1>1, <1>3, <1>5, <1>6 DEF JobsInv

\* The job goes on: it was not over.
LEMMA StepRuns ==
  ASSUME Polling!JobsAssumption, JobsInv, NEW i \in Polling!Ids, Polling!Begin(i)
         \/ Polling!Recheck(i) PROVE JobsInv'
<1>1. PICK state \in {"upgrading", "rechecking"} :
        /\ jobs' = [jobs EXCEPT ![i].state = state] /\ UNCHANGED <<given, call, ended>>
        /\ jobs[i] # None /\ jobs[i].state \in {"waiting", "upgrading"}
  BY DEF Polling!Begin, Polling!Recheck, Polling!InState
<1>2. {"waiting", "upgrading", "rechecking"} \cap Polling!Over = {}
  BY DEF Polling!JobsAssumption, Polling!Over
<1>3. jobs[i] \in Polling!JobRow
  BY <1>1 DEF JobsInv, JobsTyped
<1>4. /\ [jobs[i] EXCEPT !.state = state] \in Polling!JobRow
      /\ [jobs[i] EXCEPT !.state = state].call = jobs[i].call
      /\ [jobs[i] EXCEPT !.state = state].state = state
  BY <1>3 DEF Polling!JobRow, Polling!States
<1>5. \A j \in Polling!Ids : jobs'[j] = IF j = i THEN [jobs[i] EXCEPT !.state = state] ELSE jobs[j]
  BY <1>1 DEF JobsInv, JobsTyped
<1>6. jobs' \in [Polling!Ids -> Polling!JobRow \cup {None}]
  BY <1>1, <1>4 DEF JobsInv, JobsTyped
<1>7. \A j \in Polling!Ids : jobs'[j] # None => jobs[j] # None /\ jobs'[j].call = jobs[j].call
  BY <1>1, <1>4, <1>5
<1>8. \A j \in Polling!Ids : jobs'[j] # None /\ jobs'[j].state \in Polling!Over
        => ended'[jobs[j].call] = jobs'[j].state
  BY <1>1, <1>2, <1>4, <1>5 DEF JobsInv, ResultsTrue
<1>9. \A c \in Posted : call[c].job \in Polling!Ids
  BY DEF JobsInv, JobsTyped, Polling!CallRow, Posted
<1>10. \A c \in Posted : jobs[call[c].job] = None \/ jobs[call[c].job].state \in Polling!Over =>
           /\ ended'[c] = ended[c]
           /\ jobs'[call[c].job] # None => jobs'[call[c].job].state \in Polling!Over
  BY <1>1, <1>2, <1>5, <1>9
<1> QED
  BY <1>1, <1>6, <1>7, <1>8, <1>10, JobsKeep DEF JobsInv, JobsTyped

LEMMA StepEnd == ASSUME Polling!JobsAssumption, JobsInv, NEW i \in Polling!Ids, Polling!End(i)
      PROVE JobsInv'
<1>1. PICK result \in Polling!Over :
        /\ jobs' = [jobs EXCEPT ![i].state = result]
        /\ ended' = [ended EXCEPT ![jobs[i].call] = result]
  BY DEF Polling!End
<1>2. /\ UNCHANGED <<given, call>> /\ jobs[i] # None
      /\ jobs[i].state \in {"upgrading", "rechecking"}
  BY DEF Polling!End, Polling!InState
<1>3. {"waiting", "upgrading", "rechecking"} \cap Polling!Over = {}
  BY DEF Polling!JobsAssumption, Polling!Over
<1>4. jobs[i] \in Polling!JobRow /\ jobs[i].call \in Calls
  BY <1>2 DEF JobsInv, JobsTyped, Polling!JobRow
<1>5. /\ [jobs[i] EXCEPT !.state = result] \in Polling!JobRow
      /\ [jobs[i] EXCEPT !.state = result].call = jobs[i].call
      /\ [jobs[i] EXCEPT !.state = result].state = result
  BY <1>4 DEF Polling!JobRow, Polling!States
<1>6. \A j \in Polling!Ids : jobs'[j] = IF j = i THEN [jobs[i] EXCEPT !.state = result] ELSE jobs[j]
  BY <1>1 DEF JobsInv, JobsTyped
<1>7. \A c \in Calls : ended'[c] = IF c = jobs[i].call THEN result ELSE ended[c]
  BY <1>1 DEF JobsInv, JobsTyped
<1>8. jobs' \in [Polling!Ids -> Polling!JobRow \cup {None}]
        /\ ended' \in [Calls -> Polling!Over \cup {None}]
  BY <1>1, <1>5 DEF JobsInv, JobsTyped
<1>9. \A j \in Polling!Ids : jobs'[j] # None => jobs[j] # None /\ jobs'[j].call = jobs[j].call
  BY <1>2, <1>5, <1>6
<1>10. \A j \in Polling!Ids : jobs[j] # None => jobs[j].call \in Calls /\ call[jobs[j].call].job = j
  BY DEF JobsInv, KnowEachOther, JobsTyped, Polling!JobRow
<1>11. \A j \in Polling!Ids : jobs'[j] # None /\ jobs'[j].state \in Polling!Over
         => ended'[jobs[j].call] = jobs'[j].state
  <2> SUFFICES ASSUME NEW j \in Polling!Ids, jobs'[j] # None, jobs'[j].state \in Polling!Over
               PROVE  ended'[jobs[j].call] = jobs'[j].state
    OBVIOUS
  <2>1. CASE j = i
    BY <1>4, <1>5, <1>6, <1>7, <2>1
  <2>2. CASE j # i
    <3>1. jobs'[j] = jobs[j] /\ jobs[j].call \in Calls /\ jobs[j].call # jobs[i].call
      BY <1>2, <1>6, <1>10, <2>2
    <3> QED
      BY <1>7, <3>1 DEF JobsInv, ResultsTrue
  <2> QED
    BY <2>1, <2>2
<1>12. \A c \in Posted : call[c].job \in Polling!Ids /\ c \in Calls
  BY DEF JobsInv, JobsTyped, Polling!CallRow, Posted
<1>13. \A c \in Posted : jobs[call[c].job] = None \/ jobs[call[c].job].state \in Polling!Over =>
           /\ ended'[c] = ended[c]
           /\ jobs'[call[c].job] # None => jobs'[call[c].job].state \in Polling!Over
  BY <1>2, <1>3, <1>6, <1>7, <1>10, <1>12
<1> QED
  BY <1>2, <1>8, <1>9, <1>11, <1>13, JobsKeep

LEMMA StepExpire == ASSUME Polling!JobsAssumption, JobsInv, NEW i \in Polling!Ids,
      Polling!Expire(i) PROVE JobsInv'
<1>1. jobs' = [jobs EXCEPT ![i] = None] /\ UNCHANGED <<given, call, ended>>
  BY DEF Polling!Expire
<1>2. \A j \in Polling!Ids : jobs'[j] = IF j = i THEN None ELSE jobs[j]
  BY <1>1 DEF JobsInv, JobsTyped
<1>3. jobs' \in [Polling!Ids -> Polling!JobRow \cup {None}]
        /\ ended' \in [Calls -> Polling!Over \cup {None}]
  BY <1>1 DEF JobsInv, JobsTyped
<1>4. \A c \in Posted : call[c].job \in Polling!Ids
  BY DEF JobsInv, JobsTyped, Polling!CallRow, Posted
<1>5. \A j \in Polling!Ids : jobs'[j] # None /\ jobs'[j].state \in Polling!Over
        => ended'[jobs[j].call] = jobs'[j].state
  BY <1>1, <1>2 DEF JobsInv, ResultsTrue
<1>6. \A c \in Posted : jobs[call[c].job] = None \/ jobs[call[c].job].state \in Polling!Over =>
           /\ ended'[c] = ended[c]
           /\ jobs'[call[c].job] # None => jobs'[call[c].job].state \in Polling!Over
  BY <1>1, <1>2, <1>4
<1> QED
  BY <1>1, <1>2, <1>3, <1>5, <1>6, JobsKeep

LEMMA StepRestart == ASSUME Polling!JobsAssumption, JobsInv, Polling!Restart PROVE JobsInv'
<1>1. /\ jobs' = [i \in Polling!Ids |-> None] /\ call' = Polling!Gone /\ UNCHANGED <<given, ended>>
  BY DEF Polling!Restart
<1>2. ASSUME NEW c \in Calls, call[c] # None
      PROVE  /\ call[c] \in Polling!CallRow /\ [call[c] EXCEPT !.pc = "done"] \in Polling!CallRow
             /\ [call[c] EXCEPT !.pc = "done"].job = call[c].job
             /\ [call[c] EXCEPT !.pc = "done"].told = call[c].told
             /\ [call[c] EXCEPT !.pc = "done"].pc = "done"
  BY <1>2 DEF JobsInv, JobsTyped, Polling!CallRow
<1>3. None \notin Polling!CallRow
  BY DEF Polling!JobsAssumption
<1>4. ASSUME NEW c \in Calls
      PROVE  /\ call'[c] \in Polling!CallRow \cup {None}
             /\ call'[c] = None <=> call[c] = None
             /\ call[c] # None => /\ call'[c].job = call[c].job /\ call'[c].told = call[c].told
                                  /\ call'[c].pc = call[c].pc \/ call'[c].pc = "done"
  <2>1. call'[c] = IF c \in Bot /\ call[c] # None THEN [call[c] EXCEPT !.pc = "done"] ELSE call[c]
    BY <1>1 DEF Polling!Gone
  <2> QED
    BY <1>2, <1>3, <2>1
<1>5. call' = [c \in Calls |-> call'[c]]
  BY <1>1 DEF Polling!Gone
<1>6. JobsTyped'
  BY <1>1, <1>4, <1>5 DEF JobsInv, JobsTyped
<1>7. Posted' = Posted
  BY <1>4 DEF Posted
<1>8. IdsGiven'
  BY <1>1, <1>4, <1>7 DEF JobsInv, IdsGiven, Posted
<1>9. \A c \in Posted : call'[c].job \in Polling!Ids
  BY <1>4, <1>7 DEF JobsInv, JobsTyped, Polling!CallRow, Posted
<1>10. KnowEachOther'
  BY <1>1, <1>4, <1>7, <1>9 DEF JobsInv, KnowEachOther, Polling!At
<1>11. ResultsTrue'
  BY <1>1, <1>4, <1>7, <1>9 DEF JobsInv, ResultsTrue
<1> QED
  BY <1>6, <1>8, <1>10, <1>11 DEF JobsInv

LEMMA OthersLeaveJobs == ASSUME JobsInv, UNCHANGED <<jobs, given, call, ended>> PROVE JobsInv'
BY DEF JobsInv, JobsTyped, IdsGiven, KnowEachOther, ResultsTrue, Posted, Polling!At

LEMMA JobsStep == ASSUME Polling!JobsAssumption PROVE JobsInv /\ [Polling!Next]_Polling!vars
      => JobsInv'
<1> SUFFICES ASSUME JobsInv, [Polling!Next]_Polling!vars PROVE JobsInv'
  OBVIOUS
<1>1. ASSUME NEW c \in Calls,
             Polling!Ask(c) \/ Polling!Post(c) \/ Polling!Started(c) \/ Polling!Poll(c)
                 \/ Polling!GiveUp(c) \/ Polling!Callback(c)
      PROVE  JobsInv'
  BY <1>1, StepAsk, StepPost, StepStarted, StepPoll, StepCallback
<1>2. ASSUME NEW i \in Polling!Ids, Polling!Begin(i) \/ Polling!Recheck(i) \/ Polling!End(i)
             \/ Polling!Expire(i) PROVE JobsInv'
  BY <1>2, StepRuns, StepEnd, StepExpire
<1>3. CASE Polling!ReadDashboard \/ Polling!ShowDashboard \/ UNCHANGED Polling!vars
  BY <1>3, OthersLeaveJobs DEF Polling!ReadDashboard, Polling!ShowDashboard, Polling!vars
<1> QED
  BY <1>1, <1>2, <1>3, StepRestart DEF Polling!Next

LEMMA JobsTell == JobsInv => Polling!ToldOfOwnJob
BY DEF JobsInv, ResultsTrue, Polling!ToldOfOwnJob

(* A caller is told what became of its own operation, or that it is not    *)
(* known, also after a restart gave the table of jobs up.                  *)
THEOREM JobsCorrect == ASSUME Polling!JobsAssumption PROVE Polling!Spec => []Polling!ToldOfOwnJob
<1>1. Polling!Init => JobsInv
  BY JobsInit
<1>2. JobsInv /\ [Polling!Next]_Polling!vars => JobsInv'
  BY JobsStep
<1>3. JobsInv => Polling!ToldOfOwnJob
  BY JobsTell
<1> QED
  BY <1>1, <1>2, <1>3, PTL DEF Polling!Spec

--------------------------------------------------------------------------------
Page == INSTANCE SystemPage WITH Absent <- None, Sessions <- PageSessions, asked <- requests

-------------------------------------------------------------------------------
(***************************************************************************)
(* SystemPage.                                                             *)
(***************************************************************************)
Events == {"started", "rechecking", "done"}

PageTyped ==
  /\ now \in Page!SystemDetail /\ fetch \in Page!SystemDetail \cup {None}
     /\ data \in Page!SystemDetail
  /\ wire \in Seq(Events) /\ phase \in {"none", "rechecking"} /\ mark \in BOOLEAN
  /\ selected \in Page!Marks /\ dialog \in Page!Dialogs \cup {None}
  /\ requests \in Seq(Page!Request) /\ fresh \in {"stale", "reading", "fresh"}

\* An operation that was last heard of, or is on its way, as rechecking is not over.
RecheckIsOfAnOperation ==
  (IF wire = <<>> THEN phase = "rechecking" ELSE wire[Len(wire)] = "rechecking") => now.op # None

\* No operation has ended since a poll that counts was read.
PollsAreCurrent ==
  /\ fresh = "reading" => fetch # None
  /\ fresh # "stale" /\ now.op = None /\ fetch # None => fetch.op = None
  /\ fresh = "fresh" /\ now.op = None => data.op = None

\* A mark without a request is of an operation of the server.
MarkIsOver == fresh = "fresh" /\ now.op = None /\ mark => Page!Pending(Page!Upgrades)

PageInv ==
  /\ PageTyped /\ RecheckIsOfAnOperation /\ PollsAreCurrent /\ MarkIsOver
  /\ Page!SelectionIsCurrent /\ Page!ClosesOwnDialog

(***************************************************************************)
(* The requests.                                                           *)
(***************************************************************************)
\* Requests go on: none is reopened, and one that is over changes no more.
Moves ==
  /\ requests' \in Seq(Page!Request) /\ Len(requests') = Len(requests)
  /\ \A i \in 1 .. Len(requests) :
       /\ requests'[i].kind = requests[i].kind /\ requests'[i].of = requests[i].of
       /\ requests[i].state = "refused" => requests'[i].state = "refused"
       /\ Page!Open(requests'[i]) => Page!Open(requests[i])
       /\ Page!Open(requests[i]) => Page!Open(requests'[i]) \/ fresh' = "stale"

Sends(sort, of) ==
  /\ requests' \in Seq(Page!Request) /\ Len(requests') = Len(requests) + 1
  /\ \A i \in 1 .. Len(requests) : requests'[i] = requests[i]
  /\ LET r == requests'[Len(requests) + 1] IN r.kind = sort /\ r.of = of /\ Page!Open(r)
     /\ r.state = "sent"

LEMMA SendSends ==
  ASSUME requests \in Seq(Page!Request), NEW sort \in Page!Kinds, NEW of \in Page!Marks,
         Page!Send(sort, of)
  PROVE  Sends(sort, of)
<1> DEFINE r == [kind |-> sort, of |-> of, heard |-> TRUE, state |-> "sent"]
<1>1. r \in Page!Request /\ r.kind = sort /\ r.of = of /\ r.state = "sent"
  BY DEF Page!Request
<1>2. requests' = Append(requests, r)
  BY DEF Page!Send
<1> HIDE DEF r
<1>3. /\ Append(requests, r) \in Seq(Page!Request) /\ Len(Append(requests, r)) = Len(requests) + 1
      /\ \A i \in 1 .. Len(requests) : Append(requests, r)[i] = requests[i]
      /\ Append(requests, r)[Len(requests) + 1] = r
  BY <1>1
<1> QED
  BY <1>1, <1>2, <1>3 DEF Sends, Page!Open

LEMMA StateMoves ==
  ASSUME requests \in Seq(Page!Request), NEW i \in 1 .. Len(requests),
         NEW state \in {"sent", "running", "done", "failed", "over", "refused"},
         requests' = [requests EXCEPT ![i].state = state],
         requests[i].state \in {"sent", "running", "done", "failed"},
         state \in {"over", "refused"} => fresh' = "stale"
  PROVE  Moves /\ requests'[i].state = state
<1>1. requests \in [1 .. Len(requests) -> Page!Request] /\ Len(requests) \in Nat
  OBVIOUS
<1>2. [requests[i] EXCEPT !.state = state] \in Page!Request
  BY <1>1 DEF Page!Request
<1>3. requests' = [requests EXCEPT ![i] = [requests[i] EXCEPT !.state = state]]
  BY Zenon
<1>4. requests' \in Seq(Page!Request) /\ Len(requests') = Len(requests)
  BY <1>2, <1>3, ExceptSeq
<1>5. requests'[i] = [requests[i] EXCEPT !.state = state] /\ \A j \in 1 .. Len(requests) : j # i
        => requests'[j] = requests[j]
  BY <1>1, <1>3
<1>6. /\ requests'[i].kind = requests[i].kind /\ requests'[i].of = requests[i].of
          /\ requests'[i].state = state
      /\ requests[i].state # "refused"
      /\ Page!Open(requests[i]) /\ (Page!Open(requests'[i]) \/ fresh' = "stale")
  BY <1>1, <1>5 DEF Page!Request, Page!Open
<1> QED
  BY <1>4, <1>5, <1>6 DEF Moves

LEMMA SameMoves == ASSUME requests \in Seq(Page!Request), requests' = requests PROVE Moves
BY DEF Moves

LEMMA HeardMoves ==
  ASSUME requests \in Seq(Page!Request), NEW i \in 1 .. Len(requests), Page!Supersede(i)
  PROVE  Moves
<1>1. requests \in [1 .. Len(requests) -> Page!Request] /\ Len(requests) \in Nat
  OBVIOUS
<1>2. [requests[i] EXCEPT !.heard = FALSE] \in Page!Request
  BY <1>1 DEF Page!Request
<1>3. requests' = [requests EXCEPT ![i] = [requests[i] EXCEPT !.heard = FALSE]]
  BY Zenon DEF Page!Supersede
<1>4. requests' \in Seq(Page!Request) /\ Len(requests') = Len(requests)
  BY <1>2, <1>3, ExceptSeq
<1>5. requests'[i] = [requests[i] EXCEPT !.heard = FALSE] /\ \A j \in 1 .. Len(requests) : j # i
        => requests'[j] = requests[j]
  BY <1>1, <1>3
<1>6. requests'[i].kind = requests[i].kind /\ requests'[i].of = requests[i].of
        /\ requests'[i].state = requests[i].state
  BY <1>1, <1>5 DEF Page!Request
<1> QED
  BY <1>4, <1>5, <1>6 DEF Moves, Page!Open

LEMMA EndsMoves ==
  ASSUME requests \in Seq(Page!Request), Page!Ends
  PROVE  Moves
<1> DEFINE f(i) == IF requests[i].state = "running" THEN [requests[i] EXCEPT !.state = "done"]
      ELSE requests[i]
<1>1. requests \in [1 .. Len(requests) -> Page!Request] /\ Len(requests) \in Nat
  OBVIOUS
<1>2. \A i \in 1 .. Len(requests) :
        /\ f(i) \in Page!Request /\ f(i).kind = requests[i].kind /\ f(i).of = requests[i].of
        /\ requests[i].state = "refused" => f(i).state = "refused"
        /\ Page!Open(f(i)) <=> Page!Open(requests[i])
  <2> TAKE i \in 1 .. Len(requests)
  <2>1. requests[i] \in Page!Request
    BY <1>1
  <2>2. CASE requests[i].state = "running"
    <3>1. f(i) = [requests[i] EXCEPT !.state = "done"]
      BY <2>2
    <3> QED
      BY <2>1, <2>2, <3>1 DEF Page!Request, Page!Open
  <2>3. CASE requests[i].state # "running"
    BY <2>1, <2>3
  <2> QED
    BY <2>2, <2>3
<1>3. requests' = [i \in 1 .. Len(requests) |-> f(i)]
  BY DEF Page!Ends
<1> HIDE DEF f
<1>4. requests' \in Seq(Page!Request) /\ Len(requests') = Len(requests)
        /\ \A i \in 1 .. Len(requests) : requests'[i] = f(i)
  <2>1. requests' \in [1 .. Len(requests) -> Page!Request]
    BY <1>2, <1>3
  <2> QED
    BY <1>1, <1>3, <2>1
<1> QED
  BY <1>2, <1>4 DEF Moves

(***************************************************************************)
(* What the requests leave of each part of the invariant.                  *)
(***************************************************************************)
LEMMA MovesOrSends ==
  ASSUME requests \in Seq(Page!Request), Moves \/ \E sort, of : Sends(sort, of)
  PROVE  /\ requests' \in Seq(Page!Request) /\ Len(requests') \in Nat /\ Len(requests) \in Nat
             /\ Len(requests) <= Len(requests')
         /\ \A i \in 1 .. Len(requests) : requests[i].state = "refused" =>
              requests'[i].state = "refused" /\ requests'[i].of = requests[i].of
         /\ fresh' # "stale" => \A kinds : Page!Pending(kinds) => Page!Pending(kinds)'
<1>1. requests' \in Seq(Page!Request) /\ Len(requests') \in Nat /\ Len(requests) \in Nat
        /\ Len(requests) <= Len(requests')
  BY DEF Moves, Sends
<1>2. \A i \in 1 .. Len(requests) : requests[i].state = "refused" => requests'[i].state = "refused"
        /\ requests'[i].of = requests[i].of
  BY DEF Moves, Sends
<1>3. ASSUME fresh' # "stale"
      PROVE  \A i \in 1 .. Len(requests) : Page!Open(requests[i])
             => requests'[i].kind = requests[i].kind /\ Page!Open(requests'[i])
  BY <1>3 DEF Moves, Sends
<1>4. 1 .. Len(requests) \subseteq 1 .. Len(requests')
  BY <1>1
<1>5. ASSUME fresh' # "stale", NEW kinds, Page!Pending(kinds)
      PROVE  Page!Pending(kinds)'
  <2>1. PICK i \in 1 .. Len(requests) : requests[i].kind \in kinds /\ Page!Open(requests[i])
    BY <1>5 DEF Page!Pending
  <2>2. i \in 1 .. Len(requests') /\ requests'[i].kind \in kinds /\ Page!Open(requests'[i])
    BY <1>3, <1>4, <1>5, <2>1
  <2> QED
    BY <2>2, Zenon DEF Page!Pending, Page!Open
<1> QED
  BY <1>1, <1>2, <1>5

LEMMA SelectionKept ==
  ASSUME PageInv, Moves \/ \E sort, of : Sends(sort, of),
         selected' = Page!None \/ (selected' = selected /\ data'.updates = data.updates)
  PROVE  Page!SelectionIsCurrent'
<1>1. CASE selected' = Page!None
  <2>1. \A p \in Packages : selected'[p] = 0
    BY <1>1 DEF Page!None
  <2> QED
    BY <2>1 DEF Page!SelectionIsCurrent, Page!Selected, Page!Listed
<1>2. CASE selected' = selected /\ data'.updates = data.updates
  <2>1. Page!Selected' = Page!Selected
    BY <1>2 DEF Page!Selected, Page!Listed
  <2> SUFFICES ASSUME NEW p \in Page!Selected, selected[p] # data.updates[p]
               PROVE  \E i \in 1 .. Len(requests') : requests'[i].state = "refused"
                      /\ requests'[i].of[p] = selected[p]
    BY <1>2, <2>1 DEF Page!SelectionIsCurrent
  <2>2. PICK i \in 1 .. Len(requests) : requests[i].state = "refused"
          /\ requests[i].of[p] = selected[p]
    BY DEF PageInv, Page!SelectionIsCurrent
  <2>3. requests'[i].state = "refused" /\ requests'[i].of = requests[i].of
          /\ i \in 1 .. Len(requests')
    BY <2>2, MovesOrSends DEF PageInv, PageTyped
  <2> QED
    BY <2>2, <2>3
<1> QED
  BY <1>1, <1>2

\* No dialog is opened, and no request to hide an update is sent.
LEMMA DialogKept ==
  ASSUME PageInv, Moves \/ (\E sort, of : Sends(sort, of) /\ sort # "hide"),
         dialog' = dialog \/ dialog' = None \/ dialog'.kind # "hide"
  PROVE  Page!ClosesOwnDialog'
<1> SUFFICES ASSUME NEW i \in 1 .. Len(requests'), requests'[i].kind = "hide",
             Page!Open(requests'[i]), Page!Asking("hide")'
             PROVE  dialog'.of = requests'[i].of
  BY DEF Page!ClosesOwnDialog, Page!Open, Page!Asking
<1>1. dialog' = dialog /\ Page!Asking("hide")
  BY DEF Page!Asking
<1>2. Len(requests) \in Nat
  BY DEF PageInv, PageTyped
<1>3. i \in 1 .. Len(requests) /\ requests[i].kind = "hide" /\ Page!Open(requests[i])
        /\ requests'[i].of = requests[i].of
  BY <1>2 DEF Moves, Sends
<1> QED
  BY <1>1, <1>3 DEF PageInv, Page!ClosesOwnDialog

LEMMA MarkKept ==
  ASSUME PageInv, Moves \/ \E sort, of : Sends(sort, of),
         fresh' = "fresh" /\ now'.op = None => fresh = "fresh" /\ now.op = None, mark' => mark
  PROVE  MarkIsOver'
<1> SUFFICES ASSUME fresh' = "fresh", now'.op = None, mark' PROVE Page!Pending(Page!Upgrades)'
  BY DEF MarkIsOver
<1>1. Page!Pending(Page!Upgrades)
  BY DEF PageInv, MarkIsOver
<1> QED
  BY <1>1, MovesOrSends DEF PageInv, PageTyped

\* The parts that are about the server and the polls do not see what the user does.
LEMMA ServerKept ==
  ASSUME PageInv, Page!Still
  PROVE  RecheckIsOfAnOperation' /\ PollsAreCurrent'
BY DEF PageInv, Page!Still, RecheckIsOfAnOperation, PollsAreCurrent

(***************************************************************************)
(* The user.                                                               *)
(***************************************************************************)
LEMMA NoMarks == Page!PageAssumption => Page!None \in Page!Marks
BY DEF Page!PageAssumption, Page!None, Page!Marks

LEMMA ShownKeeps ==
  ASSUME PageInv, Page!PageAssumption, Page!OpenMenu \/ Page!Close
         \/ (\E sort \in Page!Kinds : Page!Ask(sort))
  PROVE  PageInv'
<1>1. Page!Still /\ requests' = requests /\ mark' = mark /\ selected' = selected
  BY DEF Page!OpenMenu, Page!Close, Page!Ask
<1>2. /\ dialog' \in Page!Dialogs \cup {None}
      /\ dialog' = dialog \/ dialog' = None \/ dialog'.kind # "hide"
  <2>1. CASE \E sort \in Page!Kinds : Page!Ask(sort)
    <3>1. PICK sort \in Page!Kinds : Page!Ask(sort)
      BY <2>1
    <3>2. sort # "hide"
      BY <3>1 DEF Page!Ask, Page!Offered
    <3>3. dialog' = [kind |-> sort, of |-> Page!None]
      BY <3>1 DEF Page!Ask
    <3> QED
      BY <3>2, <3>3, NoMarks DEF Page!Dialogs
  <2>2. CASE Page!OpenMenu \/ Page!Close
    BY <2>2 DEF Page!OpenMenu, Page!Close, PageInv, PageTyped
  <2> QED
    BY <2>1, <2>2
<1>3. Moves
  BY <1>1, SameMoves DEF PageInv, PageTyped
<1>4. PageTyped'
  BY <1>1, <1>2 DEF PageInv, PageTyped, Page!Still
<1>5. MarkIsOver' /\ Page!SelectionIsCurrent'
  BY <1>1, <1>3, MarkKept, SelectionKept DEF Page!Still
<1>6. Page!ClosesOwnDialog'
  BY <1>2, <1>3, DialogKept
<1> QED
  BY <1>1, <1>4, <1>5, <1>6, ServerKept DEF PageInv

LEMMA AskToHideKeeps ==
  ASSUME PageInv, Page!PageAssumption, NEW p \in Packages, Page!AskToHide(p)
  PROVE  PageInv'
<1>1. /\ Page!Still /\ requests' = requests /\ mark' = mark /\ selected' = selected
      /\ dialog' = [kind |-> "hide", of |-> [Page!None EXCEPT ![p] = data.updates[p]]]
      /\ ~Page!Pending({"hide", "unhide"})
  BY DEF Page!AskToHide, Page!Hidable, Page!SelectionBusy
<1>2. dialog' \in Page!Dialogs
  <2>1. Page!None \in Page!Marks /\ data.updates \in Page!Marks
    BY NoMarks DEF PageInv, PageTyped, Page!SystemDetail
  <2>2. [Page!None EXCEPT ![p] = data.updates[p]] \in Page!Marks
    BY <2>1 DEF Page!Marks
  <2> QED
    BY <1>1, <2>2 DEF Page!Dialogs, Page!Kinds
<1>3. Moves
  BY <1>1, SameMoves DEF PageInv, PageTyped
<1>4. PageTyped'
  BY <1>1, <1>2 DEF PageInv, PageTyped, Page!Still
<1>5. MarkIsOver' /\ Page!SelectionIsCurrent'
  BY <1>1, <1>3, MarkKept, SelectionKept DEF Page!Still
<1>6. Page!ClosesOwnDialog'
  BY <1>1 DEF Page!ClosesOwnDialog, Page!Pending
<1> QED
  BY <1>1, <1>4, <1>5, <1>6, ServerKept DEF PageInv

LEMMA ToggleKeeps ==
  ASSUME PageInv, Page!PageAssumption, NEW p \in Packages, Page!Toggle(p)
  PROVE  PageInv'
<1>1. Page!Still /\ requests' = requests /\ mark' = mark /\ dialog' = dialog
  BY DEF Page!Toggle
<1>2. PICK v : selected' = [selected EXCEPT ![p] = v] /\ v \in {data.updates[p], 0}
  <2>1. selected' = [selected EXCEPT ![p] = IF selected[p] = 0 THEN data.updates[p] ELSE 0]
    BY DEF Page!Toggle
  <2> QED
    BY <2>1
<1>3. selected \in Page!Marks /\ data.updates \in Page!Marks /\ v \in Versions \cup {0}
  BY <1>2 DEF PageInv, PageTyped, Page!SystemDetail, Page!Marks
<1>4. selected' \in Page!Marks /\ selected'[p] = v /\ \A q \in Packages : q # p
        => selected'[q] = selected[q]
  BY <1>2, <1>3 DEF Page!Marks
<1>5. Moves
  BY <1>1, SameMoves DEF PageInv, PageTyped
<1>6. PageTyped'
  BY <1>1, <1>4 DEF PageInv, PageTyped, Page!Still
<1>7. MarkIsOver' /\ Page!ClosesOwnDialog'
  BY <1>1, <1>5, MarkKept, DialogKept DEF Page!Still
<1>8. Page!SelectionIsCurrent'
  <2> SUFFICES ASSUME NEW q \in Page!Selected', selected'[q] # data.updates[q]
               PROVE  \E i \in 1 .. Len(requests) : requests[i].state = "refused"
                      /\ requests[i].of[q] = selected'[q]
    BY <1>1 DEF Page!SelectionIsCurrent, Page!Still
  <2>1. q \in Packages /\ data.updates[q] # 0 /\ selected'[q] # 0
    BY <1>1 DEF Page!Selected, Page!Listed, Page!Still
  <2>2. q # p
    BY <1>2, <1>4, <2>1
  <2>3. q \in Page!Selected /\ selected'[q] = selected[q]
    BY <1>4, <2>1, <2>2 DEF Page!Selected, Page!Listed
  <2> QED
    BY <2>3 DEF PageInv, Page!SelectionIsCurrent
<1> QED
  BY <1>1, <1>6, <1>7, <1>8, ServerKept DEF PageInv

\* A request that the user sends.
LEMMA SentKeeps ==
  ASSUME PageInv, Page!PageAssumption, NEW sort \in Page!Kinds, NEW of \in Page!Marks,
         Page!Send(sort, of), Page!Still,
         dialog' \in {dialog, None}, selected' \in {selected, Page!None}, mark' \in {mark, TRUE},
         mark' # mark => sort \in Page!Upgrades,
         sort = "hide" => ~Page!Pending({"hide"}) /\ dialog # None /\ of = dialog.of
  PROVE  PageInv'
<1>1. Sends(sort, of)
  BY SendSends DEF PageInv, PageTyped
<1>2. PageTyped'
  BY <1>1, NoMarks DEF PageInv, PageTyped, Page!Still, Sends
<1>3. Page!SelectionIsCurrent'
  BY <1>1, SelectionKept DEF Page!Still
<1>4. MarkIsOver'
  <2>1. CASE mark' = mark
    BY <1>1, <2>1, MarkKept DEF Page!Still
  <2>2. CASE mark' # mark
    <3>1. /\ Len(requests) + 1 \in 1 .. Len(requests')
              /\ requests'[Len(requests) + 1].kind \in Page!Upgrades
          /\ Page!Open(requests'[Len(requests) + 1])
      BY <1>1, <2>2 DEF Sends, PageInv, PageTyped
    <3> QED
      BY <3>1 DEF MarkIsOver, Page!Pending, Page!Open
  <2> QED
    BY <2>1, <2>2
<1>5. Page!ClosesOwnDialog'
  <2>1. CASE sort # "hide"
    BY <1>1, <2>1, DialogKept
  <2>2. CASE sort = "hide"
    <3> SUFFICES ASSUME NEW i \in 1 .. Len(requests'), requests'[i].kind = "hide",
                 Page!Open(requests'[i]), dialog' # None
                 PROVE  dialog'.of = requests'[i].of
      BY DEF Page!ClosesOwnDialog, Page!Open, Page!Asking
    <3>1. dialog' = dialog /\ of = dialog.of
      BY <2>2
    <3>2. i \in 1 .. Len(requests) \/ i = Len(requests) + 1
      BY <1>1 DEF Sends, PageInv, PageTyped
    <3>3. i \notin 1 .. Len(requests)
      BY <1>1, <2>2 DEF Sends, Page!Pending
    <3> QED
      BY <1>1, <3>1, <3>2, <3>3 DEF Sends
  <2> QED
    BY <2>1, <2>2
<1> QED
  BY <1>2, <1>3, <1>4, <1>5, ServerKept DEF PageInv

LEMMA ConfirmKeeps ==
  ASSUME PageInv, Page!PageAssumption,
         \/ Page!ConfirmUpgrade \/ Page!ConfirmSelected \/ Page!Confirm \/ Page!ConfirmHide
         \/ \E sort \in Page!Kinds : Page!Press(sort)
  PROVE  PageInv'
<1>1. Page!None \in Page!Marks /\ selected \in Page!Marks
  BY NoMarks DEF PageInv, PageTyped
<1>2. ASSUME dialog # None PROVE dialog.kind \in Page!Kinds /\ dialog.of \in Page!Marks
  BY <1>2 DEF PageInv, PageTyped, Page!Dialogs
<1>3. CASE Page!ConfirmUpgrade
  BY <1>1, <1>2, <1>3, SentKeeps DEF Page!ConfirmUpgrade, Page!Confirming, Page!Upgrades
<1>4. CASE Page!ConfirmSelected
  <2>1. [p \in Packages |-> IF p \in Page!Selected THEN selected[p] ELSE 0] \in Page!Marks
    BY <1>1 DEF Page!Marks
  <2>2. "packages" \in Page!Upgrades /\ "packages" \in Page!Kinds
    BY DEF Page!Upgrades, Page!Kinds, Page!Operations
  <2>3. /\ Page!Send("packages",
                     [p \in Packages |-> IF p \in Page!Selected THEN selected[p] ELSE 0])
        /\ mark' = TRUE /\ dialog' = None /\ selected' = Page!None /\ Page!Still
    BY <1>4 DEF Page!ConfirmSelected
  <2> QED
    BY <1>1, <2>1, <2>2, <2>3, SentKeeps
<1>5. CASE Page!Confirm
  BY <1>1, <1>2, <1>5, SentKeeps DEF Page!Confirm, Page!Confirming
<1>6. CASE Page!ConfirmHide
  <2>1. Page!Send("hide", dialog.of) /\ Page!Still /\ mark' = mark /\ selected' = selected
        /\ dialog' = dialog
        /\ dialog # None /\ ~Page!Pending({"hide"}) /\ "hide" \in Page!Kinds
    BY <1>6 DEF Page!ConfirmHide, Page!Confirming, Page!Loading, Page!Kinds
  <2> QED
    BY <1>1, <1>2, <2>1, SentKeeps
<1>7. ASSUME NEW sort \in Page!Kinds, Page!Press(sort) PROVE PageInv'
  <2>1. Page!Send(sort, Page!None) /\ Page!Still /\ mark' = mark /\ selected' = selected
          /\ dialog' = dialog /\ sort # "hide"
    BY <1>7 DEF Page!Press
  <2> QED
    BY <1>1, <2>1, SentKeeps
<1> QED
  BY <1>3, <1>4, <1>5, <1>6, <1>7

(***************************************************************************)
(* The server.                                                             *)
(***************************************************************************)
LEMMA Told ==
  ASSUME wire \in Seq(Events), NEW e \in Events, wire' = Append(wire, e)
  PROVE  wire' \in Seq(Events) /\ wire' # <<>> /\ wire'[Len(wire')] = e
OBVIOUS

LEMMA StartsKeeps ==
  ASSUME PageInv, Page!PageAssumption, NEW sort \in Page!Operations, Page!Starts(sort), Moves,
         UNCHANGED <<fetch, Page!page, fresh>>
  PROVE  PageInv'
<1>1. wire' \in Seq(Events) /\ wire' # <<>> /\ wire'[Len(wire')] = "started"
  BY Told DEF PageInv, PageTyped, Page!Starts, Events
<1>2. now' \in Page!SystemDetail /\ now'.op # None
  <2>1. [kind |-> sort, phase |-> "running", cancelled |-> FALSE] \in Page!ActiveOperation
    BY DEF Page!ActiveOperation
  <2> QED
    BY <2>1 DEF PageInv, PageTyped, Page!SystemDetail, Page!Starts, Page!PageAssumption
<1>3. PageTyped'
  BY <1>1, <1>2 DEF PageInv, PageTyped, Moves, Page!page
<1>4. RecheckIsOfAnOperation' /\ PollsAreCurrent'
  BY <1>1, <1>2 DEF PageInv, RecheckIsOfAnOperation, PollsAreCurrent
<1>5. MarkIsOver' /\ Page!SelectionIsCurrent' /\ Page!ClosesOwnDialog'
  BY <1>2, MarkKept, SelectionKept, DialogKept DEF Page!page
<1> QED
  BY <1>3, <1>4, <1>5 DEF PageInv

LEMMA PageRecheckKeeps ==
  ASSUME PageInv, Page!PageAssumption, Page!Recheck
  PROVE  PageInv'
<1>1. wire' \in Seq(Events) /\ wire' # <<>> /\ wire'[Len(wire')] = "rechecking"
  BY Told DEF PageInv, PageTyped, Page!Recheck, Events
<1>2. now' \in Page!SystemDetail /\ now'.op # None /\ now.op # None
  <2>1. now.op \in Page!ActiveOperation
    BY DEF PageInv, PageTyped, Page!SystemDetail, Page!Recheck
  <2>2. [now.op EXCEPT !.phase = "rechecking"] \in Page!ActiveOperation
    BY <2>1 DEF Page!ActiveOperation
  <2>3. now' = [now EXCEPT !.op = [now.op EXCEPT !.phase = "rechecking"]]
    BY DEF Page!Recheck
  <2> QED
    BY <2>1, <2>2, <2>3 DEF PageInv, PageTyped, Page!SystemDetail, Page!PageAssumption
<1>3. Moves
  BY SameMoves DEF Page!Recheck, PageInv, PageTyped
<1>4. PageTyped'
  BY <1>1, <1>2 DEF PageInv, PageTyped, Page!Recheck, Page!page
<1>5. RecheckIsOfAnOperation' /\ PollsAreCurrent'
  BY <1>2 DEF PageInv, RecheckIsOfAnOperation, PollsAreCurrent, Page!Recheck, Page!page
<1>6. MarkIsOver' /\ Page!SelectionIsCurrent' /\ Page!ClosesOwnDialog'
  BY <1>2, <1>3, MarkKept, SelectionKept, DialogKept DEF Page!Recheck, Page!page
<1> QED
  BY <1>4, <1>5, <1>6 DEF PageInv

LEMMA EndsKeeps ==
  ASSUME PageInv, Page!PageAssumption, Page!Ends
  PROVE  PageInv'
<1>1. wire' \in Seq(Events) /\ wire' # <<>> /\ wire'[Len(wire')] = "done"
  BY Told DEF PageInv, PageTyped, Page!Ends, Events
<1>2. now' \in Page!SystemDetail
  BY DEF PageInv, PageTyped, Page!SystemDetail, Page!Ends
<1>3. Moves
  BY EndsMoves DEF PageInv, PageTyped
<1>4. fresh' = "stale" /\ fetch' = fetch /\ Page!page' = Page!page
  BY DEF Page!Ends
<1>5. PageTyped'
  BY <1>1, <1>2, <1>3, <1>4 DEF PageInv, PageTyped, Moves, Page!page
<1>6. RecheckIsOfAnOperation' /\ PollsAreCurrent'
  BY <1>1, <1>4 DEF RecheckIsOfAnOperation, PollsAreCurrent
<1>7. MarkIsOver' /\ Page!SelectionIsCurrent' /\ Page!ClosesOwnDialog'
  BY <1>3, <1>4, MarkKept, SelectionKept, DialogKept DEF Page!page
<1> QED
  BY <1>5, <1>6, <1>7 DEF PageInv

LEMMA PageBeginKeeps ==
  ASSUME PageInv, Page!PageAssumption, NEW i \in 1 .. Len(requests), Page!Begin(i)
  PROVE  PageInv'
<1>1. Moves
  BY StateMoves DEF Page!Begin, PageInv, PageTyped
<1> QED
  BY <1>1, StartsKeeps DEF Page!Begin

LEMMA PageForeignKeeps ==
  ASSUME PageInv, Page!PageAssumption, NEW sort \in Page!Operations, Page!ForeignBegins(sort)
  PROVE  PageInv'
<1>1. Moves
  BY SameMoves DEF Page!ForeignBegins, PageInv, PageTyped
<1> QED
  BY <1>1, StartsKeeps DEF Page!ForeignBegins

\* What a request is answered with, or what it changes, is not yet on the page.
LEMMA StaleKeeps ==
  ASSUME PageInv, Page!PageAssumption, Moves, fresh' = "stale",
         UNCHANGED <<wire, fetch, data, phase>>,
         now' \in Page!SystemDetail, now.op # None => now'.op # None, mark' \in BOOLEAN, mark'
             => mark,
         selected' \in Page!Marks, Page!SelectionIsCurrent', dialog' \in {dialog, None}
  PROVE  PageInv'
<1>1. PageTyped'
  BY DEF PageInv, PageTyped, Moves
<1>2. RecheckIsOfAnOperation' /\ PollsAreCurrent'
  BY DEF PageInv, RecheckIsOfAnOperation, PollsAreCurrent
<1>3. MarkIsOver' /\ Page!ClosesOwnDialog'
  BY DialogKept DEF MarkIsOver
<1> QED
  BY <1>1, <1>2, <1>3 DEF PageInv

LEMMA ApplyKeeps ==
  ASSUME PageInv, Page!PageAssumption, NEW i \in 1 .. Len(requests), Page!Apply(i)
  PROVE  PageInv'
<1>1. Moves
  BY StateMoves DEF Page!Apply, PageInv, PageTyped
<1>2. now' \in Page!SystemDetail /\ (now.op # None => now'.op # None)
  <2>1. PICK hides \in SUBSET Packages :
          now' = [now EXCEPT
            !.updates = [p \in Packages |-> IF p \in hides THEN 0 ELSE now.updates[p]],
            !.op = IF requests[i].kind = "cancel" /\ now.op # None
                   THEN [now.op EXCEPT !.cancelled = TRUE] ELSE now.op]
    BY DEF Page!Apply
  <2>2. now \in Page!SystemDetail
    BY DEF PageInv, PageTyped
  <2>3. [p \in Packages |-> IF p \in hides THEN 0 ELSE now.updates[p]] \in Page!Marks
    BY <2>2 DEF Page!SystemDetail, Page!Marks
  <2>4. PICK op : /\ op = IF requests[i].kind = "cancel" /\ now.op # None
                          THEN [now.op EXCEPT !.cancelled = TRUE] ELSE now.op
                  /\ op \in Page!ActiveOperation \cup {None} /\ (now.op # None => op # None)
    <3>1. CASE now.op = None
      BY <3>1
    <3>2. CASE now.op # None
      <4>1. now.op \in Page!ActiveOperation
        BY <2>2, <3>2 DEF Page!SystemDetail
      <4>2. [now.op EXCEPT !.cancelled = TRUE] \in Page!ActiveOperation
        BY <4>1 DEF Page!ActiveOperation
      <4>3. now.op # None /\ [now.op EXCEPT !.cancelled = TRUE] # None
        BY <4>1, <4>2 DEF Page!PageAssumption
      <4> QED
        BY <4>1, <4>2, <4>3
    <3> QED
      BY <3>1, <3>2
  <2> QED
    BY <2>1, <2>2, <2>3, <2>4 DEF Page!SystemDetail
<1>3. /\ fresh' = "stale" /\ UNCHANGED <<wire, fetch, data, phase>> /\ mark' = mark
      /\ selected' = selected /\ dialog' = dialog
  BY DEF Page!Apply, Page!page
<1>4. Page!SelectionIsCurrent'
  BY <1>1, <1>3, SelectionKept
<1> QED
  BY <1>1, <1>2, <1>3, <1>4, StaleKeeps DEF PageInv, PageTyped

LEMMA FailsKeeps ==
  ASSUME PageInv, Page!PageAssumption, NEW i \in 1 .. Len(requests), Page!Fails(i)
  PROVE  PageInv'
<1>1. Moves
  BY StateMoves DEF Page!Fails, PageInv, PageTyped
<1>2. /\ fresh' = "stale" /\ UNCHANGED <<wire, fetch, data, phase>> /\ mark' = mark
      /\ selected' = selected /\ dialog' = dialog /\ now' = now
  BY DEF Page!Fails, Page!page
<1>3. Page!SelectionIsCurrent'
  BY <1>1, <1>2, SelectionKept
<1> QED
  BY <1>1, <1>2, <1>3, StaleKeeps DEF PageInv, PageTyped

LEMMA SupersedeKeeps ==
  ASSUME PageInv, Page!PageAssumption, NEW i \in 1 .. Len(requests), Page!Supersede(i)
  PROVE  PageInv'
<1>1. Moves
  BY HeardMoves DEF PageInv, PageTyped
<1>2. UNCHANGED <<now, wire, fetch, Page!page, fresh>>
  BY DEF Page!Supersede
<1>3. PageTyped'
  BY <1>1, <1>2 DEF PageInv, PageTyped, Moves, Page!page
<1>4. RecheckIsOfAnOperation' /\ PollsAreCurrent'
  BY <1>2 DEF PageInv, RecheckIsOfAnOperation, PollsAreCurrent, Page!page
<1>5. MarkIsOver' /\ Page!SelectionIsCurrent' /\ Page!ClosesOwnDialog'
  BY <1>1, <1>2, MarkKept, SelectionKept, DialogKept DEF Page!page
<1> QED
  BY <1>3, <1>4, <1>5 DEF PageInv

LEMMA PageAnswerKeeps ==
  ASSUME PageInv, Page!PageAssumption, NEW i \in 1 .. Len(requests), Page!Answer(i)
  PROVE  PageInv'
<1>1. PICK state \in {"over", "refused"} :
        /\ requests' = [requests EXCEPT ![i].state = state]
        /\ requests[i].state = "failed" => state = "refused"
  BY DEF Page!Answer
<1>2. fresh' = "stale" /\ requests[i].state \in {"done", "failed"}
  BY DEF Page!Answer
<1>3. Moves /\ requests'[i].state = state
  BY <1>1, <1>2, StateMoves DEF PageInv, PageTyped
<1>4. /\ UNCHANGED <<now, wire, fetch, data, phase>> /\ dialog' \in {dialog, None}
      /\ mark' \in BOOLEAN /\ (mark' => mark)
  BY DEF Page!Answer, PageInv, PageTyped
<1>5. requests[i].of \in Page!Marks /\ requests'[i].of = requests[i].of
  <2>1. requests \in Seq(Page!Request)
    BY DEF PageInv, PageTyped
  <2>2. requests[i] \in Page!Request
    BY <2>1
  <2> QED
    BY <1>3, <2>2 DEF Page!Request, Moves
<1>6. selected' \in Page!Marks /\ Page!SelectionIsCurrent'
  <2>1. CASE selected' = selected
    BY <1>3, <1>4, <2>1, SelectionKept DEF PageInv, PageTyped
  <2>2. CASE selected' # selected
    <3>1. selected' = requests[i].of /\ requests[i].state = "failed"
      BY <2>2 DEF Page!Answer
    <3>2. i \in 1 .. Len(requests') /\ requests'[i].state = "refused"
      BY <1>1, <1>3, <3>1 DEF Moves
    <3> QED
      BY <1>5, <3>1, <3>2 DEF Page!SelectionIsCurrent
  <2> QED
    BY <2>1, <2>2
<1>7. now \in Page!SystemDetail
  BY DEF PageInv, PageTyped
<1> QED
  BY <1>2, <1>3, <1>4, <1>6, <1>7, StaleKeeps

(***************************************************************************)
(* The polls and the live output.                                          *)
(***************************************************************************)
LEMMA PageReadKeeps ==
  ASSUME PageInv, Page!PageAssumption, Page!Read
  PROVE  PageInv'
<1>1. Moves
  BY SameMoves DEF Page!Read, PageInv, PageTyped
<1>2. /\ UNCHANGED <<now, wire, Page!page>> /\ fetch = None /\ fetch' = now
      /\ fresh' = IF fresh = "stale" THEN "reading" ELSE fresh
  BY DEF Page!Read
<1>3. now # None
  BY DEF PageInv, PageTyped, Page!PageAssumption
<1>4. PageTyped'
  BY <1>1, <1>2 DEF PageInv, PageTyped, Moves, Page!page
<1>5. RecheckIsOfAnOperation'
  BY <1>2 DEF PageInv, RecheckIsOfAnOperation, Page!page
<1>6. PollsAreCurrent'
  BY <1>2, <1>3 DEF PageInv, PollsAreCurrent, Page!page
<1>7. MarkIsOver' /\ Page!SelectionIsCurrent' /\ Page!ClosesOwnDialog'
  BY <1>1, <1>2, MarkKept, SelectionKept, DialogKept DEF Page!page
<1> QED
  BY <1>4, <1>5, <1>6, <1>7 DEF PageInv

LEMMA ArriveKeeps ==
  ASSUME PageInv, Page!PageAssumption, Page!Arrive
  PROVE  PageInv'
<1>1. Moves
  BY SameMoves DEF Page!Arrive, PageInv, PageTyped
<1>2. /\ UNCHANGED <<now, wire, phase, dialog, requests>> /\ fetch # None /\ fetch' = None
          /\ data' = fetch
      /\ fresh' = (IF fresh = "reading" THEN "fresh" ELSE fresh)
      /\ mark' = (mark /\ ~Page!SeenOver(fetch))
      /\ selected' = IF fetch.updates # data.updates THEN Page!None ELSE selected
  BY DEF Page!Arrive, Page!Reset
<1>3. PageTyped'
  BY <1>1, <1>2, NoMarks DEF PageInv, PageTyped, Moves
<1>4. RecheckIsOfAnOperation'
  BY <1>2 DEF PageInv, RecheckIsOfAnOperation
<1>5. PollsAreCurrent'
  BY <1>2 DEF PageInv, PageTyped, PollsAreCurrent
<1>6. MarkIsOver'
  <2>1. CASE fresh = "reading"
    BY <1>2, <2>1 DEF PageInv, PollsAreCurrent, MarkIsOver, Page!SeenOver
  <2>2. CASE fresh # "reading"
    BY <1>1, <1>2, <2>2, MarkKept
  <2> QED
    BY <2>1, <2>2
<1>7. Page!SelectionIsCurrent' /\ Page!ClosesOwnDialog'
  BY <1>1, <1>2, SelectionKept, DialogKept
<1> QED
  BY <1>3, <1>4, <1>5, <1>6, <1>7 DEF PageInv

LEMMA HearKeeps ==
  ASSUME PageInv, Page!PageAssumption, Page!Hear
  PROVE  PageInv'
<1>1. Moves
  BY SameMoves DEF Page!Hear, PageInv, PageTyped
<1>2. /\ UNCHANGED <<now, fetch, data, selected, dialog, requests, fresh>> /\ wire # <<>>
          /\ wire' = Tail(wire)
      /\ phase' = (IF Head(wire) = "rechecking" THEN "rechecking" ELSE "none")
      /\ mark' = (mark /\ phase' # "rechecking")
  BY DEF Page!Hear
<1>3. wire \in Seq(Events) /\ wire' \in Seq(Events)
  BY <1>2 DEF PageInv, PageTyped
<1>4. PageTyped'
  BY <1>2, <1>3 DEF PageInv, PageTyped
<1>5. RecheckIsOfAnOperation'
  <2>1. CASE Tail(wire) = <<>>
    <3>1. /\ Len(wire) \in Nat /\ Len(wire) # 0 /\ Len(Tail(wire)) = Len(wire) - 1
          /\ Head(wire) = wire[1]
      BY <1>2, <1>3
    <3>2. Len(Tail(wire)) = 0
      <4>1. Len(<<>>) = 0
        BY EmptySeq
      <4> QED
        BY <2>1, <4>1, Zenon
    <3>3. Len(wire) = 1
      <4>1. \A n \in Nat : n - 1 = 0 => n = 1
        OBVIOUS
      <4> QED
        BY <3>1, <3>2, <4>1, Zenon
    <3> QED
      <4>1. wire' = <<>> /\ wire[Len(wire)] = Head(wire)
        BY <1>2, <2>1, <3>1, <3>3, Zenon
      <4>2. wire[Len(wire)] = "rechecking" => now.op # None
        BY <1>2, Zenon DEF PageInv, RecheckIsOfAnOperation
      <4> QED
        BY <1>2, <4>1, <4>2, Zenon DEF RecheckIsOfAnOperation
  <2>2. CASE Tail(wire) # <<>>
    <3>1. Tail(wire)[Len(Tail(wire))] = wire[Len(wire)]
      BY <1>2, <1>3, <2>2
    <3> QED
      BY <1>2, <2>2, <3>1 DEF PageInv, RecheckIsOfAnOperation
  <2> QED
    BY <2>1, <2>2
<1>6. PollsAreCurrent'
  BY <1>2 DEF PageInv, PollsAreCurrent
<1>7. MarkIsOver' /\ Page!SelectionIsCurrent' /\ Page!ClosesOwnDialog'
  BY <1>1, <1>2, MarkKept, SelectionKept, DialogKept
<1> QED
  BY <1>4, <1>5, <1>6, <1>7 DEF PageInv

(***************************************************************************)
(* The page.                                                               *)
(***************************************************************************)
LEMMA PageInit == ASSUME Page!PageAssumption PROVE Page!Init => PageInv
<1> SUFFICES ASSUME Page!Init PROVE PageInv
  OBVIOUS
<1>1. /\ now = [updates |-> [p \in Packages |-> 1], op |-> None]
      /\ data = now /\ fetch = None /\ wire = <<>> /\ phase = "none"
      /\ mark = FALSE /\ selected = Page!None /\ dialog = None /\ requests = <<>> /\ fresh = "fresh"
  BY DEF Page!Init
<1>2. [p \in Packages |-> 1] \in Page!Marks
  BY DEF Page!PageAssumption, Page!Marks
<1>3. now \in Page!SystemDetail
  BY <1>1, <1>2 DEF Page!SystemDetail
<1>4. <<>> \in Seq(Events) /\ <<>> \in Seq(Page!Request) /\ Len(<<>>) = 0
  BY EmptySeq
<1>5. PageTyped
  BY <1>1, <1>3, <1>4, NoMarks DEF PageTyped
<1>6. RecheckIsOfAnOperation /\ PollsAreCurrent /\ MarkIsOver
  BY <1>1 DEF RecheckIsOfAnOperation, PollsAreCurrent, MarkIsOver
<1>7. Page!SelectionIsCurrent
  <2>1. \A p \in Packages : selected[p] = 0
    BY <1>1 DEF Page!None
  <2> QED
    BY <2>1 DEF Page!SelectionIsCurrent, Page!Selected, Page!Listed
<1>8. Page!ClosesOwnDialog
  BY <1>1, <1>4 DEF Page!ClosesOwnDialog
<1> QED
  BY <1>5, <1>6, <1>7, <1>8 DEF PageInv

LEMMA AskedKinds ==
  ASSUME NEW k
  PROVE  (Page!Ask(k) => k \in Page!Kinds) /\ (Page!Press(k) => k \in Page!Kinds)
BY DEF Page!Ask, Page!Offered, Page!Press, Page!Kinds, Page!Operations, Page!Upgrades, Page!Notices

LEMMA PageStep ==
  ASSUME Page!PageAssumption
  PROVE  PageInv /\ [Page!Next]_Page!vars => PageInv'
<1> SUFFICES ASSUME PageInv, [Page!Next]_Page!vars PROVE PageInv'
  OBVIOUS
<1>1. CASE UNCHANGED Page!vars
  <2>1. Page!Still /\ requests' = requests /\ mark' = mark /\ selected' = selected
          /\ dialog' = dialog
    BY <1>1 DEF Page!vars, Page!page, Page!Still
  <2>2. Moves
    BY <2>1, SameMoves DEF PageInv, PageTyped
  <2>3. PageTyped'
    BY <2>1 DEF PageInv, PageTyped, Page!Still
  <2>4. MarkIsOver' /\ Page!SelectionIsCurrent' /\ Page!ClosesOwnDialog'
    BY <2>1, <2>2, MarkKept, SelectionKept, DialogKept DEF Page!Still
  <2> QED
    BY <2>1, <2>3, <2>4, ServerKept DEF PageInv
<1>2. CASE Page!OpenMenu \/ Page!Close
  BY <1>2, ShownKeeps
<1>3. CASE Page!ConfirmUpgrade \/ Page!ConfirmSelected \/ Page!Confirm \/ Page!ConfirmHide
  BY <1>3, ConfirmKeeps
<1>4. CASE \E p \in Packages : Page!Toggle(p) \/ Page!AskToHide(p)
  BY <1>4, ToggleKeeps, AskToHideKeeps
<1>5. CASE \E k \in session.kinds : Page!Ask(k) \/ Page!Press(k)
  BY <1>5, AskedKinds, ShownKeeps, ConfirmKeeps
<1>6. CASE \E i \in 1 .. Len(requests) : Page!Begin(i) \/ Page!Apply(i) \/ Page!Fails(i)
        \/ Page!Supersede(i) \/ Page!Answer(i)
  BY <1>6, PageBeginKeeps, ApplyKeeps, FailsKeeps, SupersedeKeeps, PageAnswerKeeps
<1>7. CASE \E k \in Page!Operations \cap session.kinds : Page!ForeignBegins(k)
  BY <1>7, PageForeignKeeps
<1>8. CASE Page!Recheck \/ Page!Ends \/ Page!Read \/ Page!Arrive \/ Page!Hear
  BY <1>8, PageRecheckKeeps, EndsKeeps, PageReadKeeps, ArriveKeeps, HearKeeps
<1> QED
  BY <1>1, <1>2, <1>3, <1>4, <1>5, <1>6, <1>7, <1>8, Zenon DEF Page!Next

LEMMA PageHolds == PageInv => Page!SystemPageSound
<1> SUFFICES ASSUME PageInv, fresh = "fresh", wire = <<>>, now.op = None, ~Page!Pending(Page!Kinds)
                    PROVE ~Page!Busy
  BY DEF Page!SystemPageSound, Page!SettlesIdle, PageInv
<1>1. data.op = None /\ phase # "rechecking"
  BY DEF PageInv, PollsAreCurrent, RecheckIsOfAnOperation
<1>2. Page!Operations \subseteq Page!Kinds /\ Page!Upgrades \subseteq Page!Kinds
      /\ {"check"} \subseteq Page!Kinds /\ {"autoremove"} \subseteq Page!Kinds
         /\ {"reboot"} \subseteq Page!Kinds
      /\ {"repair"} \subseteq Page!Kinds
  BY DEF Page!Kinds, Page!Operations
<1>3. \A kinds \in SUBSET Page!Kinds : ~Page!Pending(kinds)
  BY DEF Page!Pending
<1>4. ~mark
  BY <1>2, <1>3 DEF PageInv, MarkIsOver
<1>5. ~Page!Checking /\ ~Page!Upgrading /\ ~Page!Autoremoving /\ ~Page!Rebooting /\ ~Page!Repairing
  BY <1>1, <1>2, <1>3, <1>4 DEF Page!Checking, Page!Upgrading, Page!Autoremoving, Page!Rebooting,
     Page!Repairing, Page!Rechecking, Page!Shows
<1> QED
  BY <1>5 DEF Page!Busy

--------------------------------------------------------------------------------
Form == INSTANCE SystemForm WITH Absent <- None

-------------------------------------------------------------------------------
(***************************************************************************)
(* SystemForm.                                                             *)
(***************************************************************************)
FormTyped ==
  /\ kind \in {"new", "edit", "duplicate"}
  /\ row \in [address : Addresses \cup {None}, verify : BOOLEAN, key : Form!KeyOrNot]
  /\ hostKey \in [Addresses -> Form!Keys] /\ \A a \in Addresses : hostKey[a] \in KeysOf[a]
  /\ initial \in [address : Addresses \cup {None}, key : Form!KeyOrNot, status : Form!HostKeyStatus]
  /\ form \in Form!Config /\ shown \in Form!Shown
  /\ token \in Form!Validated \cup {None} /\ review \in Form!Challenge \cup {None}
  /\ test \in Form!Testing \cup {None}
  /\ warning \in BOOLEAN /\ moves \in [own : Nat, foreign : Nat]

\* A test that is under way is of the connection as it was sent.
TestsItsOwn == test # None /\ ~test.late => test.config = form

\* What is tested has an address.
Located ==
  /\ test # None => test.config.address \in Addresses
  /\ test # None \/ review # None => form.address \in Addresses
  /\ test # None /\ test.answer = "challenge" => test.key \in Form!Keys

Untouched == Form!Open /\ kind = "edit" /\ moves.foreign = 0

PresentedTo(t) == t.config.address \in Addresses /\ t.key = hostKey[t.config.address]

OneAtATime ==
  Untouched =>
    /\ form.address \in Addresses /\ row.address \in Addresses
    /\ review # None => token = None /\ PresentedTo(review)
    /\ token # None /\ token.key # None => PresentedTo(token)
    /\ test # None =>
         /\ test.approved # None => token = None /\ PresentedTo(test.approved)
         /\ test.answer = "challenge" => test.approved = None /\ PresentedTo(test)
         /\ test.answer = "validated" =>
              IF test.approved = None THEN test.key = None
              ELSE test.key = test.approved.key /\ test.config = test.approved.config

Storing == test # None /\ test.approved # None /\ test.answer \in {"validated", "failed"}

ShownIsStored ==
  Untouched /\ revoking # "done" /\ ~Storing => shown.key \in {None, row.key} \/ row.key = None

Vouches(t) ==
  t.config.verify /\ t.key = None =>
    /\ t.config.address = row.address /\ row.key \in {hostKey[row.address], None}
    /\ row.key = None /\ revoking # "done" => shown.key = None

TokenStores ==
  Untouched =>
    /\ Storing => row.key \in {test.approved.key, None}
    /\ token # None => Vouches(token)
    /\ token # None /\ token.key # None =>
         shown.key \in {token.key, None} /\ row.key \in {token.key, None}
    /\ test # None /\ test.answer = "validated" => Vouches(test)

FormInv ==
  /\ FormTyped /\ Form!HoldsItsOwn /\ TestsItsOwn /\ Located
  /\ OneAtATime /\ ShownIsStored /\ TokenStores /\ Form!SavedAsShown

LEMMA FormInit == ASSUME Form!FormAssumption PROVE Form!Init => FormInv
<1> SUFFICES ASSUME Form!Init PROVE FormInv
  OBVIOUS
<1>1. row \in [address : Addresses \cup {None}, verify : BOOLEAN, key : Form!KeyOrNot]
  BY DEF Form!Init, Form!KeyOrNot, Form!Keys
<1>2. hostKey \in [Addresses -> Form!Keys] /\ \A a \in Addresses : hostKey[a] \in KeysOf[a]
  BY DEF Form!Init, Form!Keys, Form!FormAssumption
<1>3. /\ initial \in [address : Addresses \cup {None}, key : Form!KeyOrNot,
                      status : Form!HostKeyStatus]
      /\ initial.key = row.key
  <2>1. PICK s \in Form!StatusesOf(row) : initial = [address |-> row.address, key |-> row.key,
                                                     status |-> s]
    BY DEF Form!Init, Form!ReadOf
  <2>2. Form!StatusesOf(row) \subseteq Form!HostKeyStatus
    BY DEF Form!StatusesOf, Form!HostKeyStatus
  <2>3. row.address \in Addresses \cup {None}
    BY <1>1
  <2> QED
    BY <1>1, <2>1, <2>2, <2>3
<1>4. form \in Form!Config /\ form.address = row.address
  BY <1>1 DEF Form!Init, Form!Config
<1>5. FormTyped
  BY <1>1, <1>2, <1>3, <1>4 DEF Form!Init, FormTyped, Form!Shown
<1> QED
  BY <1>1, <1>3, <1>4, <1>5 DEF Form!Init, FormInv, Form!HoldsItsOwn, TestsItsOwn, Located,
     Untouched, OneAtATime,
     ShownIsStored, TokenStores, Form!SavedAsShown, Storing

\* The fields change: nothing of a test before is of them.
LEMMA EditKeeps == ASSUME Form!FormAssumption, FormInv, Form!Edit PROVE FormInv'
<1> PICK f \in [address : Addresses, route : Routes, verify : BOOLEAN] :
         f # form /\ form' = f /\ shown' = Form!AfterEdit(f) /\ token' = None /\ review' = None
  BY DEF Form!Edit, Form!Resets
<1>1. form' \in Form!Config /\ form'.address \in Addresses
  BY DEF Form!Config
<1>2. shown' \in Form!Shown /\ shown'.key \in {shown.key, None}
  BY DEF FormInv, FormTyped, Form!AfterEdit, Form!Shown, Form!Normal, Form!HostKeyStatus,
     Form!KeyOrNot
<1>3. /\ test' \in Form!Testing \cup {None}
      /\ test' # None <=> test # None
      /\ test' # None => test'.late
      /\ test' # None => /\ test'.config = test.config /\ test'.approved = test.approved
                         /\ test'.answer = test.answer /\ test'.key = test.key
  BY DEF FormInv, FormTyped, Form!Edit, Form!Testing, Form!FormAssumption
<1>4. moves' \in [own : Nat, foreign : Nat] /\ moves'.foreign = moves.foreign
  BY DEF FormInv, FormTyped, Form!Edit
<1>5. UNCHANGED <<kind, row, hostKey, initial, saved, revoking, warning>> /\ Form!Open
  BY DEF Form!Edit, Form!Still
<1>6. FormTyped'
  BY <1>1, <1>2, <1>3, <1>4, <1>5 DEF FormInv, FormTyped
<1>7. OneAtATime'
  BY <1>1, <1>3, <1>4, <1>5 DEF FormInv, OneAtATime, Untouched, Form!Open, PresentedTo
<1>8. ShownIsStored' /\ TokenStores'
  BY <1>2, <1>3, <1>4, <1>5 DEF FormInv, ShownIsStored, TokenStores, Untouched, Form!Open, Storing,
     Vouches
<1> QED
  BY <1>1, <1>3, <1>5, <1>6, <1>7, <1>8 DEF FormInv, Form!HoldsItsOwn, TestsItsOwn, Located,
     Form!SavedAsShown, Form!Open

\* A test is sent with the fields as they are.
LEMMA SendKeeps ==
  ASSUME Form!FormAssumption, FormInv, NEW approved, Form!Sent(approved), Form!Open, test = None,
         approved \in Form!Challenge \cup {None},
         approved = None \/ approved = review, form.address # None \/ review # None,
         Form!Still, UNCHANGED <<Form!fields, revoking>>
  PROVE  FormInv'
<1>1. /\ test' \in Form!Testing
      /\ test'.config = form /\ test'.approved = approved /\ test'.answer = "none"
  BY DEF FormInv, FormTyped, Form!Sent, Form!Testing, Form!Answers, Form!KeyOrNot
<1>2. moves' \in [own : Nat, foreign : Nat] /\ moves'.foreign = moves.foreign
  BY DEF FormInv, FormTyped, Form!Sent
<1>3. FormTyped'
  BY <1>1, <1>2 DEF FormInv, FormTyped, Form!Still, Form!fields
<1>4. OneAtATime'
  BY <1>1, <1>2 DEF FormInv, FormTyped, OneAtATime, Untouched, Form!Open, PresentedTo, Form!Still,
     Form!fields
<1>5. ShownIsStored' /\ TokenStores'
  BY <1>1, <1>2 DEF FormInv, ShownIsStored, TokenStores, Untouched, Form!Open, Storing, Vouches,
     Form!Still, Form!fields
<1> QED
  BY <1>1, <1>3, <1>4, <1>5 DEF FormInv, Form!HoldsItsOwn, TestsItsOwn, Located, Form!SavedAsShown,
     Form!Still, Form!fields, Form!Open,
     FormTyped, Form!Config

LEMMA TestingKeeps ==
  ASSUME Form!FormAssumption, FormInv, Form!TestConnection \/ Form!Approve
  PROVE  FormInv'
<1>1. CASE Form!TestConnection
  BY <1>1, SendKeeps DEF Form!TestConnection, Form!Complete
<1>2. CASE Form!Approve
  BY <1>2, SendKeeps DEF Form!Approve, FormInv, FormTyped
<1> QED
  BY <1>1, <1>2

\* What the user does besides.
LEMMA DialogKeeps ==
  ASSUME FormInv, Form!Discard \/ Form!Revoke \/ Form!Warn \/ Form!CloseWarning
  PROVE  FormInv'
<1>1. /\ UNCHANGED <<kind, row, hostKey, initial, saved, form, shown, token, test, moves>>
      /\ Form!Open /\ review' \in {review, None} /\ warning' \in BOOLEAN
         /\ (revoking = "done" <=> revoking' = "done")
  BY DEF Form!Discard, Form!Revoke, Form!Warn, Form!CloseWarning, Form!Still, Form!fields, FormInv,
     FormTyped
<1> QED
  BY <1>1 DEF FormInv, FormTyped, Form!HoldsItsOwn, TestsItsOwn, Located, Untouched, Form!Open,
     OneAtATime, PresentedTo,
     ShownIsStored, TokenStores, Storing, Vouches, Form!SavedAsShown

\* What is saved with a token is the key that is shown.
LEMMA SaveKeeps == ASSUME Form!FormAssumption, FormInv, Form!Save PROVE FormInv'
<1>1. UNCHANGED <<kind, hostKey, initial, form, shown, token, review, test, revoking, moves>>
        /\ Form!Open /\ warning' \in BOOLEAN
  BY DEF Form!Save
<1>2. CASE UNCHANGED <<saved, row>>
  BY <1>1, <1>2 DEF FormInv, FormTyped, Form!HoldsItsOwn, TestsItsOwn, Located, Untouched,
     Form!Open, OneAtATime,
     PresentedTo, ShownIsStored, TokenStores, Storing, Vouches, Form!SavedAsShown
<1>3. CASE ~UNCHANGED <<saved, row>>
  <2> DEFINE key == IF token = None THEN None ELSE token.key
  <2>1. /\ saved' = [warned |-> warning, token |-> token] /\ Form!Accepted(token, form)
        /\ row' = IF kind = "edit" THEN Form!Updated(form, key) ELSE Form!Created(form, key)
    BY <1>3 DEF Form!Save
  <2>2. key \in Form!KeyOrNot
    BY DEF FormInv, FormTyped, Form!KeyOrNot, Form!Validated
  <2>3. row' \in [address : Addresses \cup {None}, verify : BOOLEAN, key : Form!KeyOrNot]
    BY <2>1, <2>2 DEF FormInv, FormTyped, Form!Updated, Form!Created, Form!Config, Form!KeyOrNot
  <2>4. FormTyped'
    BY <1>1, <2>3 DEF FormInv, FormTyped
  <2>5. saved' # None
    BY <2>1 DEF FormInv, FormTyped, Form!FormAssumption, Form!Save
  <2>6. Form!SavedAsShown'
    <3> SUFFICES ASSUME kind = "edit", moves.foreign = 0, revoking = "no", form.verify,
                        token # None, shown.key # None
                 PROVE  row'.key = shown.key /\ row'.key \in KeysOf[row'.address]
      BY <1>1, <2>1 DEF Form!SavedAsShown
    <3>1. Untouched /\ token.config = form /\ form.address \in Addresses
      BY <1>1, <2>1 DEF Untouched, Form!Accepted, FormInv, OneAtATime
    <3>2. row'.address = form.address /\ row'.key = Form!Updated(form, token.key).key
      BY <2>1 DEF Form!Updated
    <3>3. CASE token.key # None
      BY <3>1, <3>2, <3>3 DEF Form!Updated, FormInv, FormTyped, OneAtATime, TokenStores, PresentedTo
    <3>4. CASE token.key = None
      <4>1. Vouches(token) /\ token.config.verify
        BY <3>1 DEF FormInv, TokenStores
      <4>2. row.address = form.address /\ row.key = hostKey[row.address]
        BY <3>1, <3>4, <4>1 DEF Vouches
      <4>3. ~Storing
        BY <3>1 DEF FormInv, OneAtATime, Storing
      <4>4. shown.key = row.key
        BY <3>1, <3>4, <4>1, <4>3 DEF FormInv, ShownIsStored, Vouches
      <4> QED
        BY <3>1, <3>2, <3>4, <4>2, <4>4 DEF Form!Updated, FormInv, FormTyped
    <3> QED
      BY <3>3, <3>4
  <2> QED
    BY <1>1, <2>4, <2>5, <2>6 DEF FormInv, Form!HoldsItsOwn, TestsItsOwn, Located, Untouched,
       Form!Open, OneAtATime,
       ShownIsStored, TokenStores
<1> QED
  BY <1>2, <1>3

\* How the server ends a test.
Ends(reply, key) ==
  /\ test' = [test EXCEPT !.answer = reply, !.key = key]
  /\ reply \in {"validated", "challenge", "failed", "error"} /\ key \in Form!KeyOrNot
  /\ reply = "validated" =>
       /\ ~test.config.verify \/ Form!Expected = Form!Presented
       /\ key = IF test.approved = None THEN None ELSE test.approved.key
  /\ reply = "challenge" => Form!Expected # Form!Presented /\ key = Form!Presented

LEMMA ConnectEnds ==
  ASSUME FormInv, test # None, NEW left, Form!Connects(left) \/ Form!Answered("failed", None, left)
  PROVE  \E reply \in {"validated", "challenge", "failed"}, key \in Form!KeyOrNot : Ends(reply, key)
<1>1. Form!Presented \in Form!KeyOrNot /\ None \in Form!KeyOrNot
  BY DEF FormInv, FormTyped, Located, Form!Presented, Form!KeyOrNot
<1>2. test.approved # None => test.approved.key \in Form!KeyOrNot
  BY DEF FormInv, FormTyped, Form!Testing, Form!Challenge, Form!KeyOrNot
<1>3. CASE Form!Answered("failed", None, left)
  BY <1>1, <1>3 DEF Form!Answered, Ends
<1>4. CASE Form!Connects(left) /\ (~test.config.verify \/ Form!Expected = Form!Presented)
  <2> DEFINE key == IF test.approved = None THEN None ELSE test.approved.key
  <2>1. test' = [test EXCEPT !.answer = "validated", !.key = key]
    BY <1>4 DEF Form!Connects, Form!Answered
  <2> QED
    BY <1>1, <1>2, <1>4, <2>1 DEF Ends
<1>5. CASE Form!Connects(left) /\ ~(~test.config.verify \/ Form!Expected = Form!Presented)
  <2>1. test' = [test EXCEPT !.answer = "challenge", !.key = Form!Presented]
    BY <1>5 DEF Form!Connects, Form!Answered
  <2> QED
    BY <1>1, <1>5, <2>1 DEF Ends
<1> QED
  BY <1>3, <1>4, <1>5

LEMMA TestEnds ==
  ASSUME FormInv, Form!Tested
  PROVE  \E reply, key : 
           /\ Ends(reply, key)
           /\ IF test.approved # None /\ reply # "error"
              THEN /\ test.approved.config = test.config
                   /\ row' = IF kind = "edit" THEN [row EXCEPT !.key = test.approved.key] ELSE row
              ELSE row' = row
<1> DEFINE asked == [what |-> "challenge", config |-> test.config, key |-> test.approved.key]
<1>0. test # None
  BY DEF Form!Tested
<1>1. CASE test.approved = None
  <2>1. (Form!Connects(live) \/ Form!Answered("failed", None, live)) /\ row' = row
    BY <1>1 DEF Form!Tested
  <2> QED
    BY <1>0, <1>1, <2>1, ConnectEnds
<1>2. CASE test.approved # None /\ test.approved.config = test.config /\ asked \in live
  <2>1. /\ Form!Connects(live \ {asked}) \/ Form!Answered("failed", None, live \ {asked})
        /\ row' = IF kind = "edit" THEN [row EXCEPT !.key = test.approved.key] ELSE row
    BY <1>2 DEF Form!Tested
  <2>2. PICK reply \in {"validated", "challenge", "failed"},
          key \in Form!KeyOrNot : Ends(reply, key)
    BY <1>0, <2>1, ConnectEnds
  <2> QED
    BY <1>2, <2>1, <2>2
<1>3. CASE test.approved # None /\ ~(test.approved.config = test.config /\ asked \in live)
  <2>1. Form!Answered("error", None, live) /\ row' = row
    BY <1>3 DEF Form!Tested
  <2>2. Ends("error", None)
    BY <2>1 DEF Ends, Form!Answered, Form!KeyOrNot
  <2> QED
    BY <2>1, <2>2
<1> QED
  BY <1>1, <1>2, <1>3

\* The server tries the connection, with the key that was approved.
LEMMA TestedKeeps == ASSUME Form!FormAssumption, FormInv, Form!Tested PROVE FormInv'
<1>1. /\ UNCHANGED <<kind, hostKey, initial, form, shown, token, review, revoking, warning, saved,
                     moves>>
      /\ Form!Open /\ test # None /\ test.answer = "none"
  BY DEF Form!Tested, Form!fields
<1>2. PICK reply, key :
           /\ Ends(reply, key)
           /\ IF test.approved # None /\ reply # "error"
              THEN /\ test.approved.config = test.config
                   /\ row' = IF kind = "edit" THEN [row EXCEPT !.key = test.approved.key] ELSE row
              ELSE row' = row
  BY TestEnds
<1>3. /\ test' \in Form!Testing /\ test' # None
      /\ test'.config = test.config /\ test'.approved = test.approved /\ test'.late = test.late
      /\ test'.answer = reply /\ test'.key = key /\ key \in Form!KeyOrNot
      /\ reply \in {"validated", "challenge", "failed", "error"}
  BY <1>1, <1>2 DEF FormInv, FormTyped, Ends, Form!Testing, Form!Answers, Form!FormAssumption
<1>4. /\ row' \in [address : Addresses \cup {None}, verify : BOOLEAN, key : Form!KeyOrNot]
      /\ row'.address = row.address
      /\ kind = "edit" =>
           row'.key = IF test.approved # None /\ reply # "error" THEN test.approved.key ELSE row.key
  BY <1>1, <1>2 DEF FormInv, FormTyped, Form!Testing, Form!Challenge, Form!KeyOrNot
<1>5. FormTyped' /\ Located'
  BY <1>1, <1>2, <1>3, <1>4 DEF FormInv, FormTyped, Located, Ends, Form!Presented
<1>6. OneAtATime' /\ ShownIsStored' /\ TokenStores'
  <2> SUFFICES ASSUME Untouched PROVE OneAtATime' /\ ShownIsStored' /\ TokenStores'
    BY <1>1 DEF OneAtATime, ShownIsStored, TokenStores, Untouched, Form!Open
  <2>1. reply = "challenge" => test.approved = None /\ key = Form!Presented
    BY <1>1, <1>2 DEF FormInv, OneAtATime, PresentedTo, Ends, Form!Expected, Form!Presented
  <2>2. reply = "validated" =>
          IF test.approved = None THEN key = None ELSE key = test.approved.key
    BY <1>2 DEF Ends
  <2>3. OneAtATime'
    BY <1>1, <1>2, <1>3, <1>4, <2>1, <2>2 DEF FormInv, OneAtATime, Untouched, Form!Open,
       PresentedTo,
       Form!Presented, Located
  <2>4. CASE test.approved # None /\ reply # "error"
    <3>1. test.approved.key # None /\ row'.key = test.approved.key /\ token = None
      BY <1>1, <1>4, <2>4 DEF FormInv, OneAtATime, Untouched, Form!Testing, Form!Challenge,
         Form!FormAssumption, FormTyped
    <3>2. reply # "challenge" /\ Storing'
      BY <1>1, <1>3, <2>1, <2>4 DEF Storing
    <3>3. reply = "validated" => Vouches(test)'
      BY <1>3, <2>2, <2>4, <3>1 DEF Vouches
    <3> QED
      BY <1>1, <1>3, <2>3, <3>1, <3>2, <3>3 DEF ShownIsStored, TokenStores, Vouches, Storing
  <2>5. CASE test.approved = None \/ reply = "error"
    <3>1. reply = "validated" /\ test.config.verify /\ key = None =>
            test.config.address = row.address /\ row.key = hostKey[row.address]
              /\ row.key # None
      BY <1>1, <1>2, <2>5 DEF Ends, Form!Expected, Form!Presented, FormInv, FormTyped, Located,
         Form!FormAssumption
    <3>2. row'.key = row.key /\ ~Storing /\ ~Storing'
      BY <1>1, <1>3, <1>4, <2>5 DEF Storing, Untouched
    <3>3. reply = "validated" => Vouches(test)'
      BY <1>1, <1>3, <1>4, <3>1, <3>2 DEF Vouches
    <3>4. token # None => Vouches(token)'
      BY <1>1, <1>4, <3>2 DEF FormInv, TokenStores, Vouches
    <3> QED
      BY <1>1, <1>3, <2>3, <3>2, <3>3, <3>4 DEF FormInv, ShownIsStored, TokenStores, Untouched,
         Form!Open, Vouches, Storing
  <2> QED
    BY <2>3, <2>4, <2>5
<1> QED
  BY <1>1, <1>3, <1>5, <1>6 DEF FormInv, Form!HoldsItsOwn, TestsItsOwn, Form!SavedAsShown, Form!Open

LEMMA RevokedKeeps == ASSUME Form!FormAssumption, FormInv, Form!Revoked \/ Form!Expire
      PROVE FormInv'
<1>1. /\ UNCHANGED <<kind, hostKey, initial, form, shown, token, review, warning, test, saved,
                     moves>>
      /\ Form!Open
      /\ \/ row' = row /\ (revoking = "done" <=> revoking' = "done")
         \/ row' = [row EXCEPT !.key = None] /\ revoking' = "done"
  BY DEF Form!Revoked, Form!Expire, Form!fields
<1>2. /\ row' \in [address : Addresses \cup {None}, verify : BOOLEAN, key : Form!KeyOrNot]
      /\ row'.address = row.address
      /\ \/ row'.key = row.key /\ (revoking = "done" <=> revoking' = "done")
         \/ row'.key = None /\ revoking' = "done"
  BY <1>1 DEF FormInv, FormTyped, Form!KeyOrNot
<1> QED
  BY <1>1, <1>2 DEF FormInv, FormTyped, Form!HoldsItsOwn, TestsItsOwn, Located, Untouched,
     Form!Open, OneAtATime,
     PresentedTo, ShownIsStored, TokenStores, Storing, Vouches, Form!SavedAsShown

\* What is said of keys is said while nobody else changes them.
LEMMA FormForeignKeeps == ASSUME Form!FormAssumption, FormInv, Form!Foreign PROVE FormInv'
<1>1. UNCHANGED <<kind, initial, form, shown, token, review, warning, test, revoking, saved>>
        /\ Form!Open
  BY DEF Form!Foreign, Form!fields
<1>2. moves' \in [own : Nat, foreign : Nat] /\ moves'.foreign # 0
  BY DEF Form!Foreign, FormInv, FormTyped
<1>3. /\ row' \in [address : Addresses \cup {None}, verify : BOOLEAN, key : Form!KeyOrNot]
      /\ hostKey' \in [Addresses -> Form!Keys] /\ \A a \in Addresses : hostKey'[a] \in KeysOf[a]
  <2>1. CASE \E a \in Addresses : \E k \in KeysOf[a] : hostKey' = [hostKey EXCEPT ![a] = k]
          /\ row' = row
    BY <2>1 DEF FormInv, FormTyped, Form!Keys
  <2>2. CASE /\ row.address # None /\ hostKey' = hostKey
             /\ \E k \in {None, hostKey[row.address]} : row' = [row EXCEPT !.key = k]
    BY <2>2 DEF FormInv, FormTyped, Form!KeyOrNot
  <2> QED
    BY <2>1, <2>2 DEF Form!Foreign
<1> QED
  BY <1>1, <1>2, <1>3 DEF FormInv, FormTyped, Form!HoldsItsOwn, TestsItsOwn, Located, Untouched,
     Form!Open,
     OneAtATime, ShownIsStored, TokenStores, Form!SavedAsShown

\* Another key may be shown.
LEMMA ShowTyped ==
  ASSUME FormInv, NEW s \in Form!Shown, Form!Show(s)
  PROVE  shown' \in Form!Shown /\ shown'.key = s.key
BY DEF Form!Show, Form!Normal, Form!Shown, Form!HostKeyStatus

LEMMA FormAnswerKeeps == ASSUME Form!FormAssumption, FormInv, Form!Answer PROVE FormInv'
<1>1. /\ UNCHANGED <<kind, row, hostKey, initial, form, revoking, warning, saved, moves>>
      /\ Form!Open /\ test # None /\ test' = None /\ test \in Form!Testing
  BY DEF Form!Answer, Form!Still, FormInv, FormTyped
<1>2. ~Storing'
  BY <1>1 DEF Storing
<1>3. CASE Form!ToReview
  <2>1. /\ token' = None /\ review' = [config |-> test.config, key |-> test.key, late |-> test.late]
        /\ test.answer = "challenge"
    BY <1>3 DEF Form!ToReview
  <2>2. shown' \in Form!Shown /\ shown'.key = shown.key
    BY <1>3 DEF Form!ToReview, FormInv, FormTyped, Form!Shown, Form!HostKeyStatus
  <2>3. review' \in Form!Challenge /\ form'.address \in Addresses
    BY <1>1, <2>1 DEF FormInv, Located, Form!Testing, Form!Challenge
  <2>4. FormTyped' /\ Located'
    BY <1>1, <2>1, <2>2, <2>3 DEF FormInv, FormTyped, Located
  <2>5. Form!HoldsItsOwn' /\ TestsItsOwn'
    BY <1>1, <2>1 DEF FormInv, Form!HoldsItsOwn, TestsItsOwn
  <2>6. OneAtATime' /\ ShownIsStored' /\ TokenStores'
    BY <1>1, <1>2, <2>1, <2>2 DEF FormInv, Untouched, Form!Open, OneAtATime, PresentedTo,
       ShownIsStored,
       TokenStores, Storing
  <2> QED
    BY <1>1, <2>4, <2>5, <2>6 DEF FormInv, Form!SavedAsShown, Form!Open
<1>4. CASE Form!Result
  <2> DEFINE success == test.answer = "validated"
  <2>1. /\ review' = None /\ test.answer \in {"validated", "failed"}
        /\ token' = IF success
                    THEN [config |-> test.config, key |-> test.key, late |-> test.late] ELSE token
        /\ Form!Show(Form!ShownAfter(success))
    BY <1>4 DEF Form!Result
  <2>2. /\ Form!ShownAfter(success) \in Form!Shown
        /\ Form!ShownAfter(success).key = IF test.approved # None THEN test.approved.key
           ELSE shown.key
    BY <1>1 DEF Form!ShownAfter, Form!Approving, FormInv, FormTyped, Form!Testing, Form!Challenge,
       Form!Shown, Form!HostKeyStatus,
       Form!KeyOrNot
  <2>3. /\ shown' \in Form!Shown
        /\ shown'.key = IF test.approved # None THEN test.approved.key ELSE shown.key
    BY <2>1, <2>2, ShowTyped
  <2>4. token' \in Form!Validated \cup {None}
    BY <1>1, <2>1 DEF FormInv, FormTyped, Form!Testing, Form!Validated
  <2>5. FormTyped' /\ Located'
    BY <1>1, <2>1, <2>3, <2>4 DEF FormInv, FormTyped, Located
  <2>6. Form!HoldsItsOwn' /\ TestsItsOwn'
    BY <1>1, <2>1 DEF FormInv, Form!HoldsItsOwn, TestsItsOwn
  <2>7. CASE test.approved = None
    <3>1. OneAtATime'
      BY <1>1, <2>1, <2>7 DEF FormInv, Untouched, Form!Open, OneAtATime, PresentedTo
    <3>2. ShownIsStored' /\ TokenStores'
      BY <1>1, <1>2, <2>1, <2>3, <2>7 DEF FormInv, Untouched, Form!Open, OneAtATime, ShownIsStored,
         TokenStores, Storing, Vouches
    <3> QED
      BY <1>1, <2>5, <2>6, <3>1, <3>2 DEF FormInv, Form!SavedAsShown, Form!Open
  <2>8. CASE test.approved # None
    <3>1. test.approved.key # None /\ shown'.key = test.approved.key
      BY <1>1, <2>3, <2>8 DEF Form!Testing, Form!Challenge, Form!FormAssumption
    <3>2. OneAtATime'
      BY <1>1, <2>1, <2>8 DEF FormInv, Untouched, Form!Open, OneAtATime, PresentedTo
    <3>3. ShownIsStored' /\ TokenStores'
      BY <1>1, <1>2, <2>1, <2>8, <3>1 DEF FormInv, Untouched, Form!Open, OneAtATime, ShownIsStored,
         TokenStores, Storing, Vouches
    <3> QED
      BY <1>1, <2>5, <2>6, <3>2, <3>3 DEF FormInv, Form!SavedAsShown, Form!Open
  <2> QED
    BY <2>7, <2>8
<1>5. CASE Form!Refused
  <2>1. token' = None /\ review' = None /\ shown' = shown /\ test.answer = "error"
    BY <1>5 DEF Form!Refused
  <2> QED
    BY <1>1, <1>2, <2>1 DEF FormInv, FormTyped, Form!HoldsItsOwn, TestsItsOwn, Located, Untouched,
       Form!Open,
       OneAtATime, ShownIsStored, TokenStores, Storing, Form!SavedAsShown
<1> QED
  BY <1>3, <1>4, <1>5 DEF Form!Answer

LEMMA RevokeAnswerKeeps == ASSUME Form!FormAssumption, FormInv, Form!RevokeAnswer PROVE FormInv'
<1>1. /\ UNCHANGED <<kind, row, hostKey, initial, form, review, test, warning, saved, moves>>
      /\ Form!Open /\ token' = None /\ revoking' = "no"
      /\ Form!Show([key |-> None, status |-> "needs_approval"])
  BY DEF Form!RevokeAnswer, Form!Still
<1>2. shown' \in Form!Shown /\ shown'.key = None
  BY <1>1, ShowTyped DEF Form!Shown, Form!KeyOrNot, Form!HostKeyStatus
<1> QED
  BY <1>1, <1>2 DEF FormInv, FormTyped, Form!HoldsItsOwn, TestsItsOwn, Located, Untouched,
     Form!Open, OneAtATime,
     PresentedTo, ShownIsStored, TokenStores, Storing, Vouches, Form!SavedAsShown

LEMMA FormReadKeeps == ASSUME Form!FormAssumption, FormInv, Form!Read PROVE FormInv'
<1>1. /\ UNCHANGED <<kind, row, hostKey, form, token, review, test, revoking, warning, saved,
                     moves>>
      /\ Form!Open
  BY DEF Form!Read
<1>2. PICK s \in Form!StatusesOf(row) :
        LET read == [address |-> row.address, key |-> row.key, status |-> s]
        IN initial' = read /\ Form!Show([key |-> read.key, status |-> read.status])
  BY DEF Form!Read, Form!ReadOf
<1>3. s \in Form!HostKeyStatus
  BY DEF Form!StatusesOf, Form!HostKeyStatus
<1>4. initial' \in [address : Addresses \cup {None}, key : Form!KeyOrNot,
                    status : Form!HostKeyStatus]
  BY <1>2, <1>3 DEF FormInv, FormTyped
<1>5. shown' \in Form!Shown /\ shown'.key = row.key
  <2>1. [key |-> row.key, status |-> s] \in Form!Shown
    BY <1>3 DEF FormInv, FormTyped, Form!Shown
  <2> QED
    BY <1>2, <2>1, ShowTyped
<1> QED
  BY <1>1, <1>4, <1>5 DEF FormInv, FormTyped, Form!HoldsItsOwn, TestsItsOwn, Located, Untouched,
     Form!Open,
     OneAtATime, PresentedTo, ShownIsStored, TokenStores, Storing, Vouches, Form!SavedAsShown

LEMMA FormStep == ASSUME Form!FormAssumption PROVE FormInv /\ [Form!Next]_Form!vars => FormInv'
<1> SUFFICES ASSUME FormInv, [Form!Next]_Form!vars PROVE FormInv'
  OBVIOUS
<1>1. CASE UNCHANGED Form!vars
  BY <1>1 DEF Form!vars, Form!fields, FormInv, FormTyped, Form!HoldsItsOwn, TestsItsOwn, Located,
     Untouched, Form!Open,
     OneAtATime, PresentedTo, ShownIsStored, TokenStores, Storing, Vouches, Form!SavedAsShown
<1> QED
  BY <1>1, EditKeeps, TestingKeeps, DialogKeeps, SaveKeeps, TestedKeeps, RevokedKeeps,
     FormForeignKeeps,
     FormAnswerKeeps, RevokeAnswerKeeps, FormReadKeeps DEF Form!Next

LEMMA FormHolds == FormInv => Form!SystemFormSound
BY DEF FormInv, Form!SystemFormSound

--------------------------------------------------------------------------------
Reporting == INSTANCE OperationReports WITH
  Steps <- ReportSteps, Absent <- None, answer <- outcome

-------------------------------------------------------------------------------
(***************************************************************************)
(* OperationReports.                                                       *)
(***************************************************************************)
Messages == {"started", "phase", "reconnecting", "warning", "error"} \cup Reporting!Dones
Statuses == {"queued", "started", "success", "warning", "failed", "cancelled"}

ReportsTyped ==
  /\ run \in [kind : Reporting!Kinds, queued : BOOLEAN, resuming : BOOLEAN, left : Int,
              conn : BOOLEAN,
              lost : BOOLEAN, ok : BOOLEAN, some : BOOLEAN]
  /\ told \in Seq(Messages) /\ rows \in Seq(Statuses)
  /\ pc = "over" => outcome \in [success : BOOLEAN, warning : BOOLEAN, cancelled : BOOLEAN]

Waits == run.queued \/ run.kind = "resume"

\* Where an operation may be, by its kind.
Placed ==
  /\ run.resuming => run.kind = "resume"
  /\ pc = "reconnecting" \/ run.lost => run.kind \in Reporting!Loops
  /\ pc = "rechecking" => ~run.lost /\ run.kind \in Reporting!Loops \cup {"package_manager_repair"}
  /\ pc = "listing" => run.kind = "check"

NoneTold == pc # "over" => \A i \in DOMAIN told : told[i] \notin Reporting!Dones

LostSoFar ==
  pc # "over" /\ run.kind # "resume" /\ (\E i \in DOMAIN told : told[i] = "reconnecting")
    => run.lost \/ pc = "reconnecting"

\* The rows of a loop: one runs at most, and it is the last one.
RowsOfLoop ==
  \A i \in DOMAIN rows :
    /\ rows[i] \in {"queued", "started"} =>
         \/ i = 1 /\ Waits
         \/ i = Len(rows) /\ pc \in {"running", "reconnecting"}
    /\ rows[i] # "cancelled"
    /\ rows[i] = "failed" => ~run.ok

RowsSoFar ==
  pc # "over" =>
    /\ run.kind = "check" => rows = <<>>
    /\ run.kind = "package_manager_repair" => \A i \in DOMAIN rows : rows[i] = "success"
    /\ run.kind = "reboot" => rows = IF pc = "begin" THEN <<>> ELSE <<"started">>
    /\ run.kind \in Reporting!Loops => RowsOfLoop

ReportsInv == ReportsTyped /\ Placed /\ NoneTold /\ LostSoFar /\ RowsSoFar /\ Reporting!ReportsSound

(* Sequences that grow at their end.                                       *)
LEMMA Appended ==
  ASSUME NEW S, NEW s \in Seq(S), NEW e \in S
  PROVE  /\ Append(s, e) \in Seq(S) /\ Len(Append(s, e)) = Len(s) + 1
         /\ \A i \in DOMAIN Append(s, e) :
              \/ i \in DOMAIN s /\ Append(s, e)[i] = s[i]
              \/ i = Len(s) + 1 /\ Append(s, e)[i] = e
OBVIOUS

LEMMA ReportJoined ==
  ASSUME NEW S, NEW s \in Seq(S), NEW t \in Seq(S)
  PROVE  /\ s \o t \in Seq(S) /\ Len(s \o t) = Len(s) + Len(t)
         /\ \A i \in DOMAIN (s \o t) :
              \/ i \in DOMAIN s /\ (s \o t)[i] = s[i]
              \/ i > Len(s) /\ i - Len(s) \in DOMAIN t /\ (s \o t)[i] = t[i - Len(s)]
<1>1. /\ s \o t \in Seq(S) /\ Len(s \o t) = Len(s) + Len(t)
      /\ \A i \in 1 .. Len(s) + Len(t) : (s \o t)[i] = IF i <= Len(s) THEN s[i] ELSE t[i - Len(s)]
  BY ConcatProperties
<1>2. DOMAIN (s \o t) = 1 .. Len(s) + Len(t) /\ DOMAIN s = 1 .. Len(s) /\ DOMAIN t = 1 .. Len(t)
      /\ Len(s) \in Nat /\ Len(t) \in Nat
  BY <1>1
<1> HIDE <1>1
<1>3. \A i \in 1 .. Len(s) + Len(t) :
        \/ i \in 1 .. Len(s) /\ (s \o t)[i] = s[i]
        \/ i > Len(s) /\ i - Len(s) \in 1 .. Len(t) /\ (s \o t)[i] = t[i - Len(s)]
  BY <1>1, <1>2
<1> QED
  BY <1>1, <1>2, <1>3

LEMMA TuplesAre ==
  ASSUME NEW S, NEW x \in S, NEW y \in S, NEW z \in S
  PROVE  /\ <<x>> \in Seq(S) /\ {<<x>>[i] : i \in DOMAIN <<x>>} = {x}
         /\ <<x, y>> \in Seq(S) /\ {<<x, y>>[i] : i \in DOMAIN <<x, y>>} = {x, y}
         /\ <<x, y, z>> \in Seq(S) /\ {<<x, y, z>>[i] : i \in DOMAIN <<x, y, z>>} = {x, y, z}
<1>1. <<x>> \in Seq(S) /\ <<x, y>> \in Seq(S) /\ <<x, y, z>> \in Seq(S)
  OBVIOUS
<1>2. DOMAIN <<x>> = {1} /\ <<x>>[1] = x
  OBVIOUS
<1>3. DOMAIN <<x, y>> = {1, 2} /\ <<x, y>>[1] = x /\ <<x, y>>[2] = y
  OBVIOUS
<1>4. DOMAIN <<x, y, z>> = {1, 2, 3} /\ <<x, y, z>>[1] = x /\ <<x, y, z>>[2] = y
        /\ <<x, y, z>>[3] = z
  OBVIOUS
<1>5. {<<x>>[i] : i \in DOMAIN <<x>>} = {x}
  BY <1>2
<1>6. {<<x, y>>[i] : i \in DOMAIN <<x, y>>} = {x, y}
  BY <1>3
<1>7. {<<x, y, z>>[i] : i \in DOMAIN <<x, y, z>>} = {x, y, z}
  BY <1>4
<1> QED
  BY <1>1, <1>5, <1>6, <1>7

\* What a step may add to the messages.
Grows(new) ==
  /\ told' \in Seq(Messages)
  /\ \A i \in DOMAIN told' : told'[i] \in new \/ (i \in DOMAIN told /\ told'[i] = told[i])

LEMMA GrowsBy ==
  ASSUME told \in Seq(Messages)
  PROVE  /\ told' = told => Grows({})
         /\ \A t \in Seq(Messages) : told' = told \o t => Grows({t[i] : i \in DOMAIN t})
         /\ \A x \in Messages : told' = Append(told, x) => Grows({x})
         /\ \A x \in Messages : told' = told \o <<x>> => Grows({x})
         /\ \A x, y \in Messages : told' = told \o <<x, y>> => Grows({x, y})
         /\ \A x, y, z \in Messages : told' = told \o <<x, y, z>> => Grows({x, y, z})
<1>1. told' = told => Grows({})
  BY DEF Grows
<1>2. \A x \in Messages : told' = Append(told, x) => Grows({x})
  <2> SUFFICES ASSUME NEW x \in Messages, told' = Append(told, x) PROVE Grows({x})
    OBVIOUS
  <2>1. /\ Append(told, x) \in Seq(Messages)
        /\ \A i \in DOMAIN Append(told, x) :
              \/ i \in DOMAIN told /\ Append(told, x)[i] = told[i]
              \/ Append(told, x)[i] = x
    BY Appended
  <2> QED
    BY <2>1, Zenon DEF Grows
<1>3. \A t \in Seq(Messages) : told' = told \o t => Grows({t[i] : i \in DOMAIN t})
  <2> SUFFICES ASSUME NEW t \in Seq(Messages), told' = told \o t
                      PROVE Grows({t[i] : i \in DOMAIN t})
    OBVIOUS
  <2>1. /\ told \o t \in Seq(Messages)
        /\ \A i \in DOMAIN (told \o t) :
              \/ i \in DOMAIN told /\ (told \o t)[i] = told[i]
              \/ \E j \in DOMAIN t : (told \o t)[i] = t[j]
    BY ReportJoined
  <2> QED
    BY <2>1, Zenon DEF Grows
<1>4. \A x \in Messages : told' = told \o <<x>> => Grows({x})
  <2> SUFFICES ASSUME NEW x \in Messages, told' = told \o <<x>> PROVE Grows({x})
    OBVIOUS
  <2>1. <<x>> \in Seq(Messages) /\ {<<x>>[i] : i \in DOMAIN <<x>>} = {x}
    BY TuplesAre
  <2> QED
    BY <1>3, <2>1
<1>5. \A x, y \in Messages : told' = told \o <<x, y>> => Grows({x, y})
  <2> SUFFICES ASSUME NEW x \in Messages, NEW y \in Messages, told' = told \o <<x, y>>
                      PROVE Grows({x, y})
    OBVIOUS
  <2>1. <<x, y>> \in Seq(Messages) /\ {<<x, y>>[i] : i \in DOMAIN <<x, y>>} = {x, y}
    BY TuplesAre
  <2> QED
    BY <1>3, <2>1
<1>6. \A x, y, z \in Messages : told' = told \o <<x, y, z>> => Grows({x, y, z})
  <2> SUFFICES ASSUME NEW x \in Messages, NEW y \in Messages, NEW z \in Messages,
                      told' = told \o <<x, y, z>>
               PROVE  Grows({x, y, z})
    OBVIOUS
  <2>1. <<x, y, z>> \in Seq(Messages) /\ {<<x, y, z>>[i] : i \in DOMAIN <<x, y, z>>} = {x, y, z}
    BY TuplesAre
  <2> QED
    BY <1>3, <2>1
<1> QED
  BY <1>1, <1>2, <1>3, <1>4, <1>5, <1>6

LEMMA LastRowIs ==
  ASSUME rows \in Seq(Statuses), NEW status \in Statuses
  PROVE  /\ Reporting!LastRow(status) \in Seq(Statuses)
             /\ DOMAIN Reporting!LastRow(status) = DOMAIN rows
         /\ Len(Reporting!LastRow(status)) = Len(rows)
         /\ \A i \in DOMAIN rows : Reporting!LastRow(status)[i] = IF i = Len(rows) THEN status
            ELSE rows[i]
<1>1. CASE Len(rows) \in 1 .. Len(rows)
  <2>1. DOMAIN rows = 1 .. Len(rows)
    OBVIOUS
  <2> QED
    BY <1>1, <2>1, ExceptSeq DEF Reporting!LastRow
<1>2. CASE Len(rows) \notin 1 .. Len(rows)
  <2>1. Len(rows) = 0 /\ DOMAIN rows = {}
    BY <1>2
  <2>2. [rows EXCEPT ![0] = status] = rows
    BY <2>1
  <2> QED
    BY <2>1, <2>2 DEF Reporting!LastRow
<1> QED
  BY <1>1, <1>2

Run == [kind : Reporting!Kinds, queued : BOOLEAN, resuming : BOOLEAN, left : Int, conn : BOOLEAN,
        lost : BOOLEAN, ok : BOOLEAN, some : BOOLEAN]

(***************************************************************************)
(* A step before the end, and the end.                                     *)
(***************************************************************************)
LEMMA OnTheWay ==
  ASSUME ReportsInv, pc # "over", pc' # "over",
         NEW new, Grows(new), new \cap Reporting!Dones = {},
         "reconnecting" \in new => run.kind = "resume" \/ pc' = "reconnecting",
         run' \in Run, run'.kind = run.kind, rows' \in Seq(Statuses),
         run.lost \/ pc = "reconnecting" => run.kind = "resume" \/ run'.lost
             \/ pc' = "reconnecting",
         Placed', RowsSoFar'
  PROVE  ReportsInv'
<1>1. ReportsTyped'
  BY DEF ReportsTyped, Run, Grows
<1>2. NoneTold'
  BY DEF Grows, ReportsInv, NoneTold
<1>3. LostSoFar'
  <2> SUFFICES ASSUME run.kind # "resume", NEW i \in DOMAIN told', told'[i] = "reconnecting"
               PROVE  run'.lost \/ pc' = "reconnecting"
    BY DEF LostSoFar
  <2>1. "reconnecting" \in new \/ \E j \in DOMAIN told : told[j] = "reconnecting"
    BY DEF Grows
  <2> QED
    BY <2>1 DEF ReportsInv, LostSoFar
<1>4. Reporting!ReportsSound'
  <2>1. Reporting!ToldOnceAndLast'
    BY <1>2 DEF NoneTold, Reporting!ToldOnceAndLast, Reporting!IsDone
  <2> QED
    BY <2>1 DEF Reporting!ReportsSound, Reporting!RowsAreOver, Reporting!LostIsTold
<1> QED
  BY <1>1, <1>2, <1>3, <1>4 DEF ReportsInv

\* The last messages of an operation: the last one is of its end.
LastMessages(done) ==
  {<<>>, <<done>>} \cup {<<why, done>> : why \in {"warning", "error", "phase"}}

LEMMA EndTold ==
  ASSUME ReportsInv, pc # "over", NEW done \in Reporting!Dones, NEW messages \in LastMessages(done),
         told' = told \o messages
  PROVE  /\ told' \in Seq(Messages)
         /\ \A i \in DOMAIN told' : told'[i] \in Reporting!Dones => i = Len(told')
            /\ told'[i] = done
         /\ \A i \in DOMAIN told' : told'[i] = "reconnecting" =>
              \E j \in DOMAIN told : told[j] = "reconnecting"
<1>1. /\ told \in Seq(Messages) /\ \A i \in DOMAIN told : told[i] \notin Reporting!Dones
      /\ done \in Messages /\ done \notin {"warning", "error", "phase", "reconnecting"}
      /\ Reporting!Dones \cap {"warning", "error", "phase", "reconnecting"} = {}
  <2>1. Reporting!Dones = {"done", "done, failed"}
    BY DEF Reporting!Dones, Reporting!Done
  <2>2. told \in Seq(Messages) /\ \A i \in DOMAIN told : told[i] \notin Reporting!Dones
    BY DEF ReportsInv, ReportsTyped, NoneTold
  <2> QED
    BY <2>1, <2>2 DEF Messages
<1>2. /\ messages \in Seq(Messages)
      /\ \A k \in DOMAIN messages : messages[k] # "reconnecting"
      /\ \A k \in DOMAIN messages : messages[k] \in Reporting!Dones => k = Len(messages)
         /\ messages[k] = done
  <2>1. CASE messages = <<>>
    BY <2>1, EmptySeq
  <2>2. CASE messages = <<done>>
    <3>1. messages \in Seq(Messages) /\ DOMAIN messages = {1} /\ messages[1] = done
            /\ Len(messages) = 1
      BY <1>1, <2>2, TuplesAre
    <3> QED
      BY <1>1, <3>1
  <2>3. ASSUME NEW why \in {"warning", "error", "phase"}, messages = <<why, done>>
        PROVE  /\ messages \in Seq(Messages)
               /\ \A k \in DOMAIN messages : messages[k] # "reconnecting"
               /\ \A k \in DOMAIN messages :
                    messages[k] \in Reporting!Dones => k = Len(messages) /\ messages[k] = done
    <3>1. messages \in Seq(Messages)
      BY <1>1, <2>3, TuplesAre DEF Messages
    <3>2. /\ DOMAIN messages = {1, 2} /\ messages[1] = why
          /\ messages[2] = done /\ Len(messages) = 2
      BY <2>3
    <3> QED
      BY <1>1, <3>1, <3>2
  <2> QED
    BY <2>1, <2>2, <2>3 DEF LastMessages
<1>3. /\ told' \in Seq(Messages) /\ Len(told') = Len(told) + Len(messages)
      /\ \A i \in DOMAIN told' :
           \/ i \in DOMAIN told /\ told'[i] = told[i]
           \/ i > Len(told) /\ i - Len(told) \in DOMAIN messages
              /\ told'[i] = messages[i - Len(told)]
  BY <1>1, <1>2, ReportJoined
<1>4. Len(told) \in Nat /\ Len(messages) \in Nat /\ DOMAIN told' \subseteq Nat
  BY <1>1, <1>2, <1>3
<1>5. ASSUME NEW i \in DOMAIN told', told'[i] \in Reporting!Dones PROVE i = Len(told')
             /\ told'[i] = done
  <2>1. i > Len(told) /\ i - Len(told) \in DOMAIN messages /\ told'[i] = messages[i - Len(told)]
    BY <1>1, <1>3, <1>5
  <2>2. i - Len(told) = Len(messages) /\ told'[i] = done
    BY <1>2, <1>5, <2>1
  <2> QED
    BY <1>3, <1>4, <2>2
<1>6. ASSUME NEW i \in DOMAIN told', told'[i] = "reconnecting"
      PROVE  \E j \in DOMAIN told : told[j] = "reconnecting"
  BY <1>2, <1>3, <1>6
<1> QED
  BY <1>3, <1>5, <1>6

RowsOver(history, success) ==
  /\ \A i \in DOMAIN history : history[i] \in {"queued", "started"} =>
       \/ i = 1 /\ Waits
       \/ i = Len(history) - 1 /\ history[Len(history)] = "failed" /\ ~success
  /\ run.kind # "check" /\ success
     => \A i \in DOMAIN history : history[i] \notin {"failed", "cancelled"}

LEMMA AtTheEnd ==
  ASSUME ReportsInv, pc # "over", NEW success \in BOOLEAN, NEW alert \in BOOLEAN,
         NEW stopped \in BOOLEAN, NEW history \in Seq(Statuses), NEW done \in Reporting!Dones,
         NEW messages \in LastMessages(done),
         Reporting!End(history, messages, Reporting!Result(success, alert, stopped)),
         run.kind # "check" => done = Reporting!Done(success),
         RowsOver(history, success),
         success /\ run.kind # "resume" /\ (run.lost \/ pc = "reconnecting") => alert
  PROVE  ReportsInv'
<1>1. /\ pc' = "over" /\ rows' = history /\ told' = told \o messages
      /\ outcome' = Reporting!Result(success, alert, stopped) /\ run' = [run EXCEPT !.conn = FALSE]
  BY DEF Reporting!End
<1>2. run' \in Run /\ run'.kind = run.kind /\ run'.queued = run.queued /\ run'.lost = run.lost
      /\ run'.resuming = run.resuming
  BY <1>1 DEF ReportsInv, ReportsTyped, Run
<1>3. /\ outcome' \in [success : BOOLEAN, warning : BOOLEAN, cancelled : BOOLEAN]
      /\ outcome'.success = success /\ outcome'.warning = alert
  BY <1>1 DEF Reporting!Result
<1>4. /\ told' \in Seq(Messages)
      /\ \A i \in DOMAIN told' : told'[i] \in Reporting!Dones => i = Len(told') /\ told'[i] = done
      /\ \A i \in DOMAIN told' : told'[i] = "reconnecting" =>
           \E j \in DOMAIN told : told[j] = "reconnecting"
  BY <1>1, EndTold
<1>5. ReportsTyped' /\ Placed' /\ NoneTold' /\ LostSoFar' /\ RowsSoFar'
  BY <1>1, <1>2, <1>3, <1>4 DEF ReportsInv, ReportsTyped, Run, Placed, NoneTold, LostSoFar,
     RowsSoFar
<1>6. Reporting!ToldOnceAndLast'
  BY <1>1, <1>2, <1>3, <1>4 DEF Reporting!ToldOnceAndLast, Reporting!IsDone
<1>7. Reporting!RowsAreOver'
  <2>1. Reporting!Range(history) = {history[i] : i \in DOMAIN history}
    BY DEF Reporting!Range
  <2>2. run.kind # "check" /\ success => Reporting!Range(history) \cap {"failed", "cancelled"} = {}
    BY <2>1 DEF RowsOver
  <2>3. \A i \in DOMAIN history : history[i] \in {"queued", "started"} =>
          \/ i = 1 /\ (run.queued \/ run.kind = "resume")
          \/ i = Len(history) - 1 /\ history[Len(history)] = "failed" /\ ~success
    BY DEF RowsOver, Waits
  <2> QED
    BY <1>1, <1>2, <1>3, <2>2, <2>3, Zenon DEF Reporting!RowsAreOver
<1>8. Reporting!LostIsTold'
  <2> SUFFICES ASSUME success, run.kind # "resume", "reconnecting" \in Reporting!Range(told')
                      PROVE alert
    BY <1>2, <1>3 DEF Reporting!LostIsTold
  <2>1. \E i \in DOMAIN told' : told'[i] = "reconnecting"
    BY DEF Reporting!Range
  <2>2. run.lost \/ pc = "reconnecting"
    BY <1>4, <2>1 DEF ReportsInv, LostSoFar
  <2> QED
    BY <2>2
<1> QED
  BY <1>5, <1>6, <1>7, <1>8 DEF ReportsInv, Reporting!ReportsSound

(***************************************************************************)
(* The steps that end an operation.                                        *)
(***************************************************************************)
LEMMA OneRow ==
  ASSUME NEW status \in Statuses
  PROVE  /\ <<>> \in Seq(Statuses) /\ <<status>> \in Seq(Statuses)
         /\ DOMAIN <<status>> = {1} /\ <<status>>[1] = status /\ Len(<<status>>) = 1
<1>1. <<>> \in Seq(Statuses) /\ <<status>> \in Seq(Statuses)
  BY EmptySeq, TuplesAre
<1> QED
  BY <1>1

LEMMA RefuseEnds == ASSUME ReportsInv, Reporting!Refuse PROVE ReportsInv'
<1>1. pc = "begin" /\ ~(run.kind = "check" /\ run.lost) /\ rows \in Seq(Statuses)
  BY DEF Reporting!Refuse, ReportsInv, ReportsTyped, Placed, Reporting!Loops, Reporting!Upgrades
<1>2. CASE Reporting!End(<<>>, <<>>, Reporting!Failure)
  <2> DEFINE success == run.kind = "check"
  <2>1. Reporting!Done(success) \in Reporting!Dones
          /\ <<>> \in LastMessages(Reporting!Done(success)) /\ <<>> \in Seq(Statuses)
    BY EmptySeq DEF Reporting!Dones, LastMessages
  <2>2. RowsOver(<<>>, success)
    BY DEF RowsOver
  <2>3. Reporting!End(<<>>, <<>>, Reporting!Result(success, FALSE, FALSE))
    BY <1>2 DEF Reporting!Failure
  <2> HIDE DEF success
  <2>4. success \in BOOLEAN /\ (success /\ (run.lost \/ pc = "reconnecting") => FALSE)
    BY <1>1 DEF success
  <2> QED
    BY <1>1, <2>1, <2>2, <2>3, <2>4, AtTheEnd
<1>3. CASE run.kind # "check"
        /\ Reporting!End(IF run.queued THEN <<"failed">> ELSE rows, <<>>, Reporting!Failure)
  <2> DEFINE history == IF run.queued THEN <<"failed">> ELSE rows
  <2>1. Reporting!Done(FALSE) \in Reporting!Dones /\ <<>> \in LastMessages(Reporting!Done(FALSE))
          /\ history \in Seq(Statuses)
    BY <1>1, OneRow DEF Reporting!Dones, LastMessages, Statuses
  <2>2. RowsOver(history, FALSE)
    BY <1>1, <1>3, OneRow DEF RowsOver, ReportsInv, ReportsTyped, RowsSoFar, RowsOfLoop,
       Reporting!Kinds, Statuses
  <2>3. Reporting!Failure = Reporting!Result(FALSE, FALSE, FALSE)
    BY <1>3 DEF Reporting!Failure
  <2>4. Reporting!End(history, <<>>, Reporting!Result(FALSE, FALSE, FALSE))
    BY <1>3, <2>3
  <2> HIDE DEF history
  <2> QED
    BY <1>1, <2>1, <2>2, <2>4, AtTheEnd
<1> QED
  BY <1>2, <1>3 DEF Reporting!Refuse

LEMMA CaughtEnds ==
  ASSUME ReportsInv, pc \notin {"begin", "reconnecting", "over"}, NEW cancel \in BOOLEAN,
         Reporting!Caught(cancel),
         cancel /\ run.kind \in Reporting!Loops => pc # "running"
  PROVE  ReportsInv'
<1> DEFINE history == CASE run.kind = "package_manager_repair" -> rows
                        [] run.kind = "check" -> Append(rows,
                                                        IF cancel THEN "cancelled" ELSE "failed")
                        [] run.kind = "reboot" -> Reporting!LastRow(IF cancel THEN "cancelled" ELSE "failed")
                        [] OTHER -> IF cancel THEN rows ELSE Append(rows, "failed")
           messages == CASE run.kind = "package_manager_repair" /\ cancel -> <<>>
                         [] run.kind = "check" /\ ~cancel -> <<Reporting!Done(FALSE)>>
                         [] OTHER -> <<IF cancel THEN "warning" ELSE "error",
                                       Reporting!Done(FALSE)>>
           success == run.kind = "check" /\ ~cancel
<1>1. Reporting!End(history, messages, Reporting!Result(success, FALSE, cancel))
  BY DEF Reporting!Caught, Reporting!Cancellation, Reporting!Failure
<1>2. Reporting!Done(FALSE) \in Reporting!Dones /\ messages \in LastMessages(Reporting!Done(FALSE))
  BY DEF Reporting!Dones, LastMessages
<1>3. /\ rows \in Seq(Statuses) /\ run.kind \in Reporting!Kinds
      /\ {"failed", "cancelled", "queued", "started", "success"} \subseteq Statuses
      /\ run.kind \notin Reporting!Loops
         => run.kind \in {"check", "package_manager_repair", "reboot"}
      /\ Reporting!Loops \cap {"check", "package_manager_repair", "reboot"} = {}
  BY DEF ReportsInv, ReportsTyped, Statuses, Reporting!Kinds, Reporting!Loops, Reporting!Upgrades
<1>4. history \in Seq(Statuses) /\ RowsOver(history, success)
  <2>1. CASE run.kind = "package_manager_repair"
    BY <1>3, <2>1 DEF RowsOver, ReportsInv, RowsSoFar
  <2>2. CASE run.kind = "check"
    <3> DEFINE status == IF cancel THEN "cancelled" ELSE "failed"
    <3>1. history = Append(<<>>, status) /\ status \in Statuses
            /\ status \notin {"queued", "started"}
      BY <1>3, <2>2 DEF ReportsInv, RowsSoFar
    <3> HIDE DEF history, status
    <3>2. history \in Seq(Statuses) /\ \A i \in DOMAIN history : history[i] = status
      <4>1. <<>> \in Seq(Statuses) /\ DOMAIN <<>> = {} /\ Len(<<>>) = 0
        BY EmptySeq
      <4> QED
        BY <3>1, <4>1, Appended
    <3> QED
      BY <2>2, <3>1, <3>2 DEF RowsOver
  <2>3. CASE run.kind = "reboot"
    <3> DEFINE status == IF cancel THEN "cancelled" ELSE "failed"
    <3>1. rows = <<"started">> /\ history = Reporting!LastRow(status) /\ status \in Statuses
          /\ status \notin {"queued", "started"}
      BY <1>3, <2>3 DEF ReportsInv, RowsSoFar
    <3> HIDE DEF history, status
    <3>2. history \in Seq(Statuses) /\ \A i \in DOMAIN history : history[i] = status
      <4>1. DOMAIN rows = {1} /\ Len(rows) = 1
        BY <3>1
      <4> QED
        BY <1>3, <3>1, <4>1, LastRowIs
    <3> QED
      BY <2>3, <3>1, <3>2 DEF RowsOver
  <2>4. CASE run.kind \in Reporting!Loops /\ cancel
    BY <1>3, <2>4 DEF RowsOver, ReportsInv, RowsSoFar, RowsOfLoop
  <2>5. CASE run.kind \in Reporting!Loops /\ ~cancel
    <3>1. history = Append(rows, "failed")
      BY <1>3, <2>5
    <3>2. /\ history \in Seq(Statuses) /\ Len(history) = Len(rows) + 1
              /\ history[Len(history)] = "failed"
          /\ \A i \in DOMAIN history : history[i] # "failed" => i \in DOMAIN rows
             /\ history[i] = rows[i]
      BY <1>3, <3>1, Appended
    <3>3. \A i \in DOMAIN rows : rows[i] \in {"queued", "started"} =>
            (i = 1 /\ Waits) \/ i = Len(rows)
      BY <2>5 DEF ReportsInv, RowsSoFar, RowsOfLoop
    <3>4. Len(rows) \in Nat
      BY <1>3
    <3> QED
      BY <1>3, <2>5, <3>2, <3>3, <3>4 DEF RowsOver
  <2> QED
    BY <1>3, <2>1, <2>2, <2>3, <2>4, <2>5
<1>5. success /\ (run.lost \/ pc = "reconnecting") => FALSE
  BY <1>3 DEF ReportsInv, Placed
<1>6. run.kind # "check" => success = FALSE
  OBVIOUS
<1>7. success \in BOOLEAN
  OBVIOUS
<1> HIDE DEF history, messages, success
<1> QED
  BY <1>1, <1>2, <1>4, <1>5, <1>6, <1>7, AtTheEnd

(***************************************************************************)
(* The steps of an operation.                                              *)
(***************************************************************************)
LEMMA KindsAre ==
  ASSUME ReportsInv
  PROVE  /\ run \in Run /\ rows \in Seq(Statuses) /\ told \in Seq(Messages)
             /\ run.kind \in Reporting!Kinds
         /\ Reporting!Loops \cap {"check", "package_manager_repair", "reboot"} = {}
         /\ Reporting!Kinds = Reporting!Loops \cup {"check", "package_manager_repair", "reboot"}
         /\ "resume" \in Reporting!Loops /\ "autoremove" \in Reporting!Loops
            /\ Reporting!Upgrades \subseteq Reporting!Loops
         /\ Messages = {"started", "phase", "reconnecting", "warning", "error", "done",
                        "done, failed"}
         /\ Reporting!Dones = {"done", "done, failed"}
BY DEF ReportsInv, ReportsTyped, Run, Reporting!Kinds, Reporting!Loops, Reporting!Upgrades,
   Messages, Reporting!Dones, Reporting!Done

\* A step is taken, and what is known of those before is not better.
LEMMA StepTaken ==
  ASSUME run \in Run, NEW ok \in BOOLEAN, run' = [run EXCEPT !.left = run.left - 1, !.ok = ok]
  PROVE  /\ run' \in Run /\ run'.kind = run.kind /\ run'.lost = run.lost /\ run'.queued = run.queued
         /\ run'.ok = ok /\ run'.resuming = run.resuming
<1>1. PICK n \in Int : n = run.left - 1
  BY DEF Run
<1>2. run' = [run EXCEPT !.left = n, !.ok = ok]
  BY <1>1
<1> HIDE <1>1
<1> QED
  BY <1>2 DEF Run

LEMMA ReportBeginKeeps == ASSUME ReportsInv, Reporting!Begin PROVE ReportsInv'
<1>1. /\ pc = "begin" /\ pc' = "starting" /\ run' = run /\ told' = told
      /\ rows' = IF run.kind = "reboot" THEN <<"started">> ELSE rows
  BY DEF Reporting!Begin, Reporting!Goto
<1>2. rows' \in Seq(Statuses)
  BY <1>1, KindsAre, OneRow DEF Statuses
<1>3. Grows({})
  BY <1>1, KindsAre, GrowsBy
<1>4. Placed' /\ RowsSoFar'
  BY <1>1, KindsAre DEF ReportsInv, Placed, RowsSoFar, RowsOfLoop, Waits
<1> QED
  BY <1>1, <1>2, <1>3, <1>4, KindsAre, OnTheWay

LEMMA DialKeeps == ASSUME ReportsInv, Reporting!Dial PROVE ReportsInv'
<1>0. pc = "starting"
  BY DEF Reporting!Dial
<1>1. CASE Reporting!Caught(TRUE)
  BY <1>0, <1>1, CaughtEnds
<1>2. CASE run.resuming /\ Reporting!Goto("loop")
           /\ (\E found \in BOOLEAN : run' = [run EXCEPT !.resuming = found])
           /\ UNCHANGED <<told, rows>>
  <2>1. /\ run' \in Run /\ run'.kind = run.kind /\ run'.lost = run.lost /\ run'.queued = run.queued
        /\ run'.ok = run.ok
        /\ pc' = "loop" /\ told' = told /\ rows' = rows
    BY <1>2, KindsAre DEF Run, Reporting!Goto
  <2>2. Grows({})
    BY <2>1, KindsAre, GrowsBy
  <2>3. Placed' /\ RowsSoFar'
    BY <1>0, <1>2, <2>1, KindsAre DEF ReportsInv, Placed, RowsSoFar, RowsOfLoop, Waits
  <2> QED
    BY <1>0, <2>1, <2>2, <2>3, KindsAre, OnTheWay
<1>3. CASE Reporting!Goto("connecting") /\ told' = told \o <<"started", "phase">>
        /\ UNCHANGED <<run, rows>>
  <2>1. Grows({"started", "phase"})
    BY <1>3, KindsAre, GrowsBy
  <2>2. pc' = "connecting" /\ run' = run /\ rows' = rows
    BY <1>3 DEF Reporting!Goto
  <2>3. Placed' /\ RowsSoFar'
    BY <1>0, <2>2, KindsAre DEF ReportsInv, Placed, RowsSoFar, RowsOfLoop, Waits
  <2> QED
    BY <1>0, <2>1, <2>2, <2>3, KindsAre, OnTheWay
<1> QED
  BY <1>1, <1>2, <1>3 DEF Reporting!Dial

LEMMA ConnectedKeeps == ASSUME ReportsInv, Reporting!Connected PROVE ReportsInv'
<1>0. pc = "connecting"
  BY DEF Reporting!Connected
<1>1. CASE Reporting!Caught(TRUE)
  BY <1>0, <1>1, CaughtEnds
<1>2. CASE Reporting!Goto("loop") /\ run' = [run EXCEPT !.conn = TRUE] /\ UNCHANGED <<told, rows>>
  <2>1. /\ run' \in Run /\ run'.kind = run.kind /\ run'.lost = run.lost /\ run'.queued = run.queued
        /\ run'.ok = run.ok /\ run'.resuming = run.resuming
        /\ pc' = "loop" /\ told' = told /\ rows' = rows
    BY <1>2, KindsAre DEF Run, Reporting!Goto
  <2>2. Grows({})
    BY <2>1, KindsAre, GrowsBy
  <2>3. Placed' /\ RowsSoFar'
    BY <1>0, <2>1, KindsAre DEF ReportsInv, Placed, RowsSoFar, RowsOfLoop, Waits
  <2> QED
    BY <1>0, <2>1, <2>2, <2>3, KindsAre, OnTheWay
<1> QED
  BY <1>1, <1>2 DEF Reporting!Connected

LEMMA SkipKeeps == ASSUME ReportsInv, Reporting!Skip PROVE ReportsInv'
<1>1. /\ run' \in Run /\ run'.kind = run.kind /\ run'.lost = run.lost /\ run'.queued = run.queued
      /\ (run'.ok => run.ok) /\ run'.resuming = run.resuming
      /\ pc = "loop" /\ pc' = "loop" /\ told' = told /\ rows' = rows
  <2>1. PICK ok \in BOOLEAN : /\ run' = [run EXCEPT !.left = run.left - 1, !.ok = ok]
                             /\ ok => run.ok
    <3> DEFINE ok == run.ok /\ run.kind # "upgrade_package"
    <3>1. run' = [run EXCEPT !.left = run.left - 1, !.ok = ok]
      BY DEF Reporting!Skip
    <3> QED
      BY <3>1
  <2>2. run \in Run
    BY KindsAre
  <2> QED
    BY <2>1, <2>2, StepTaken DEF Reporting!Goto, Reporting!Skip
<1>2. Grows({})
  BY <1>1, KindsAre, GrowsBy
<1>3. Placed' /\ RowsSoFar'
  BY <1>1, KindsAre DEF ReportsInv, Placed, RowsSoFar, RowsOfLoop, Waits
<1> QED
  BY <1>1, <1>2, <1>3, KindsAre, OnTheWay

LEMMA StartStepKeeps == ASSUME ReportsInv, Reporting!StartStep PROVE ReportsInv'
<1>0. pc = "loop" /\ ~run.lost
  BY DEF Reporting!StartStep
<1>1. CASE Reporting!Goto("connecting") /\ UNCHANGED <<run, told, rows>>
  <2>1. pc' = "connecting" /\ run' = run /\ rows' = rows /\ told' = told
    BY <1>1 DEF Reporting!Goto
  <2>2. Grows({})
    BY <2>1, KindsAre, GrowsBy
  <2>3. Placed' /\ RowsSoFar'
    BY <1>0, <2>1, KindsAre DEF ReportsInv, Placed, RowsSoFar, RowsOfLoop, Waits
  <2> QED
    BY <1>0, <2>1, <2>2, <2>3, KindsAre, OnTheWay
<1>2. CASE run.conn \/ run.resuming
  <2>1. /\ run' \in Run /\ run'.kind = run.kind /\ run'.lost = run.lost /\ run'.queued = run.queued
        /\ run'.ok = run.ok /\ run'.resuming = run.resuming
        /\ pc' = IF run.resuming THEN "reconnecting" ELSE "running"
    <3>1. run' = [run EXCEPT !.left = run.left - 1]
      BY <1>2 DEF Reporting!StartStep
    <3>2. pc' = IF run.resuming THEN "reconnecting" ELSE "running"
      BY <1>2 DEF Reporting!StartStep, Reporting!Goto
    <3>3. run \in Run /\ run.ok \in BOOLEAN
      BY KindsAre DEF Run
    <3>4. run' = [run EXCEPT !.left = run.left - 1, !.ok = run.ok]
      BY <3>1, <3>3 DEF Run
    <3> QED
      BY <3>2, <3>3, <3>4, StepTaken
  <2>2. told' = told \o (IF run.resuming THEN <<"started", "warning", "reconnecting">>
                         ELSE <<"started">>)
    BY <1>2 DEF Reporting!StartStep
  <2>3. run.resuming => run.kind = "resume"
    BY DEF ReportsInv, Placed
  <2>4. Grows(IF run.resuming THEN {"started", "warning", "reconnecting"} ELSE {"started"})
    BY <2>2, KindsAre, GrowsBy
  <2>5. Placed'
    BY <1>0, <2>1, <2>3, KindsAre DEF ReportsInv, Placed
  <2>6. CASE run.resuming \/ rows = <<"queued">>
    <3>1. rows' = <<"started">>
      BY <1>2, <2>6 DEF Reporting!StartStep
    <3>2. rows' \in Seq(Statuses) /\ DOMAIN rows' = {1} /\ rows'[1] = "started" /\ Len(rows') = 1
      BY <3>1, OneRow DEF Statuses
    <3>3. run.kind \in Reporting!Loops
      <4>1. rows = <<"queued">> => DOMAIN rows = {1} /\ rows[1] = "queued" /\ rows # <<>>
              /\ rows # <<"started">>
        OBVIOUS
      <4> QED
        BY <1>0, <2>3, <2>6, <4>1, KindsAre DEF ReportsInv, RowsSoFar
    <3>4. RowsSoFar'
      BY <2>1, <3>2, <3>3, KindsAre DEF RowsSoFar, RowsOfLoop
    <3> QED
      BY <1>0, <2>1, <2>3, <2>4, <2>5, <3>2, <3>4, KindsAre, OnTheWay
  <2>7. CASE ~run.resuming /\ rows # <<"queued">> /\ run.kind \in Reporting!Loops
    <3>1. rows' = Append(rows, "started")
      BY <1>2, <2>7 DEF Reporting!StartStep
    <3>2. /\ rows' \in Seq(Statuses) /\ Len(rows') = Len(rows) + 1
          /\ \A i \in DOMAIN rows' :
               \/ i \in DOMAIN rows /\ rows'[i] = rows[i]
               \/ i = Len(rows') /\ rows'[i] = "started"
      <4>1. "started" \in Statuses
        BY DEF Statuses
      <4> QED
        BY <3>1, <4>1, KindsAre, Appended
    <3>3. RowsOfLoop
      BY <1>0, <2>7 DEF ReportsInv, RowsSoFar
    <3>4. RowsOfLoop'
      BY <1>0, <2>1, <2>7, <3>2, <3>3 DEF RowsOfLoop, Waits
    <3>5. RowsSoFar'
      BY <2>1, <2>7, <3>4, KindsAre DEF RowsSoFar
    <3> QED
      BY <1>0, <2>1, <2>3, <2>4, <2>5, <3>2, <3>5, KindsAre, OnTheWay
  <2>8. CASE ~run.resuming /\ rows # <<"queued">> /\ run.kind \notin Reporting!Loops
    <3>1. rows' = rows
      BY <1>2, <2>8 DEF Reporting!StartStep
    <3>2. RowsSoFar'
      BY <1>0, <2>1, <2>8, <3>1, KindsAre DEF ReportsInv, RowsSoFar
    <3> QED
      BY <1>0, <2>1, <2>3, <2>4, <2>5, <3>1, <3>2, KindsAre, OnTheWay
  <2> QED
    BY <2>6, <2>7, <2>8
<1> QED
  BY <1>1, <1>2 DEF Reporting!StartStep

\* A command under a loop ended, and the row that ran with it.
LEMMA RowEnds ==
  ASSUME ReportsInv, pc \in {"running", "reconnecting"}, run.kind \in Reporting!Loops,
         NEW status \in {"success", "failed", "warning"}, rows' = Reporting!LastRow(status),
         run' \in Run, run'.kind = run.kind, run'.queued = run.queued,
         run'.resuming => run.resuming, run'.ok => run.ok /\ status # "failed",
         pc' = "loop"
  PROVE  rows' \in Seq(Statuses) /\ RowsSoFar' /\ Placed'
<1>1. /\ rows' \in Seq(Statuses) /\ DOMAIN rows' = DOMAIN rows
      /\ \A i \in DOMAIN rows : rows'[i] = IF i = Len(rows) THEN status ELSE rows[i]
  <2>1. status \in Statuses
    BY DEF Statuses
  <2> QED
    BY <2>1, KindsAre, LastRowIs
<1>2. RowsOfLoop
  BY DEF ReportsInv, RowsSoFar
<1>3. RowsOfLoop'
  BY <1>1, <1>2 DEF RowsOfLoop, Waits
<1>4. RowsSoFar' /\ Placed'
  BY <1>3, KindsAre DEF RowsSoFar, Placed, ReportsInv
<1> QED
  BY <1>1, <1>4

LEMMA CommandEndsKeeps ==
  ASSUME ReportsInv, NEW success \in BOOLEAN, Reporting!CommandEnds(success) PROVE ReportsInv'
<1> DEFINE status == IF success THEN "success" ELSE "failed"
<1>1. PICK ok \in BOOLEAN : run' = [run EXCEPT !.ok = ok] /\ (ok => run.ok /\ success)
  <2>1. run' = [run EXCEPT !.ok = run.ok /\ success]
    BY DEF Reporting!CommandEnds
  <2> QED
    BY <2>1
<1>2. /\ run' \in Run /\ run'.kind = run.kind /\ run'.queued = run.queued /\ run'.lost = run.lost
      /\ run'.resuming = run.resuming /\ (run'.ok => run.ok /\ success)
  BY <1>1, KindsAre DEF Run
<1>3. /\ pc = "running" /\ pc' = "loop" /\ run.kind \in Reporting!Loops
          /\ rows' = Reporting!LastRow(status)
      /\ told' = told
  BY DEF Reporting!CommandEnds, Reporting!Goto
<1>4. rows' \in Seq(Statuses) /\ RowsSoFar' /\ Placed'
  BY <1>2, <1>3, RowEnds
<1>5. Grows({})
  BY <1>3, KindsAre, GrowsBy
<1> QED
  BY <1>2, <1>3, <1>4, <1>5, KindsAre, OnTheWay

LEMMA MonitoringLostKeeps == ASSUME ReportsInv, Reporting!MonitoringLost PROVE ReportsInv'
<1>0. pc = "running" /\ run.kind \in Reporting!Loops
  BY DEF Reporting!MonitoringLost
<1>1. CASE run.kind = "autoremove"
  <2>1. /\ run' \in Run /\ run'.kind = run.kind /\ run'.queued = run.queued /\ run'.lost /\ ~run'.ok
        /\ run'.resuming = run.resuming
    <3>1. run' = [run EXCEPT !.lost = TRUE, !.ok = FALSE]
      BY <1>1 DEF Reporting!MonitoringLost
    <3> QED
      BY <3>1, KindsAre DEF Run
  <2>2. pc' = "loop" /\ rows' = Reporting!LastRow("warning") /\ told' = Append(told, "warning")
    BY <1>1 DEF Reporting!MonitoringLost, Reporting!Goto
  <2>3. rows' \in Seq(Statuses) /\ RowsSoFar' /\ Placed'
    BY <1>0, <2>1, <2>2, RowEnds
  <2>4. Grows({"warning"})
    BY <2>2, KindsAre, GrowsBy
  <2> QED
    BY <1>0, <2>1, <2>2, <2>3, <2>4, KindsAre, OnTheWay
<1>2. CASE run.kind # "autoremove"
  <2>1. /\ run' \in Run /\ run'.kind = run.kind /\ run'.queued = run.queued /\ run'.lost = run.lost
        /\ run'.resuming = run.resuming /\ run'.ok = run.ok
    BY <1>2, KindsAre DEF Reporting!MonitoringLost, Run
  <2>2. pc' = "reconnecting" /\ rows' = rows /\ told' = told \o <<"warning", "reconnecting">>
    BY <1>2 DEF Reporting!MonitoringLost, Reporting!Goto
  <2>3. RowsSoFar' /\ Placed'
    BY <1>0, <2>1, <2>2, KindsAre DEF ReportsInv, RowsSoFar, RowsOfLoop, Waits, Placed
  <2>4. Grows({"warning", "reconnecting"})
    BY <2>2, KindsAre, GrowsBy
  <2> QED
    BY <1>0, <2>1, <2>2, <2>3, <2>4, KindsAre, OnTheWay
<1> QED
  BY <1>1, <1>2

LEMMA ReconnectedKeeps ==
  ASSUME ReportsInv, NEW success \in BOOLEAN, Reporting!Reconnected(success) PROVE ReportsInv'
<1> DEFINE status == IF ~success THEN "failed" ELSE IF run.resuming THEN "success" ELSE "warning"
<1>0. pc = "reconnecting" /\ run.kind \in Reporting!Loops
  BY DEF Reporting!Reconnected, ReportsInv, Placed
<1>1. PICK ok \in BOOLEAN, lost \in BOOLEAN :
        /\ run' = [run EXCEPT !.ok = ok, !.resuming = FALSE, !.lost = lost]
        /\ (ok => run.ok /\ success) /\ (lost <=> ~run.resuming)
  <2> DEFINE ok == run.ok /\ success
             lost == ~run.resuming
  <2>1. run' = [run EXCEPT !.ok = ok, !.resuming = FALSE, !.lost = lost]
    BY DEF Reporting!Reconnected
  <2> QED
    BY <2>1
<1>2. /\ run' \in Run /\ run'.kind = run.kind /\ run'.queued = run.queued /\ ~run'.resuming
      /\ (run'.ok => run.ok /\ success) /\ (run'.lost <=> ~run.resuming)
  BY <1>1, KindsAre DEF Run
<1>3. pc' = "loop" /\ rows' = Reporting!LastRow(status) /\ told' \in {told, Append(told, "warning")}
  BY DEF Reporting!Reconnected, Reporting!Goto
<1>4. rows' \in Seq(Statuses) /\ RowsSoFar' /\ Placed'
  BY <1>0, <1>2, <1>3, RowEnds
<1>5. Grows({}) \/ Grows({"warning"})
  BY <1>3, KindsAre, GrowsBy
<1>6. run.resuming => run.kind = "resume"
  BY DEF ReportsInv, Placed
<1> QED
  BY <1>0, <1>2, <1>3, <1>4, <1>5, <1>6, KindsAre, OnTheWay

LEMMA CheckStepKeeps ==
  ASSUME ReportsInv, NEW success \in BOOLEAN, Reporting!CheckCommandEnds(success)
         \/ Reporting!Listed(success)
  PROVE  ReportsInv'
<1>1. PICK ok \in BOOLEAN, some \in BOOLEAN : run' = [run EXCEPT !.ok = ok, !.some = some]
  <2> DEFINE ok == run.ok /\ success
             some == run.some \/ success
  <2>1. CASE Reporting!CheckCommandEnds(success)
    <3>1. run' = [run EXCEPT !.ok = ok, !.some = some]
      BY <2>1 DEF Reporting!CheckCommandEnds
    <3> QED
      BY <3>1
  <2>2. CASE Reporting!Listed(success)
    <3>1. run' = [run EXCEPT !.ok = ok]
      BY <2>2 DEF Reporting!Listed
    <3>2. run' = [run EXCEPT !.ok = ok, !.some = run.some] /\ run.some \in BOOLEAN
      BY <3>1, KindsAre DEF Run
    <3> QED
      BY <3>2
  <2> QED
    BY <2>1, <2>2
<1>2. /\ run' \in Run /\ run'.kind = run.kind /\ run'.queued = run.queued /\ run'.lost = run.lost
      /\ run'.resuming = run.resuming
  BY <1>1, KindsAre DEF Run
<1>3. /\ run.kind = "check" /\ rows' = rows /\ pc' \in {"loop", "listing"}
      /\ pc \in {"running", "listing"}
  BY DEF Reporting!CheckCommandEnds, Reporting!Listed, Reporting!Goto, ReportsInv, Placed
<1>4. PICK new \in SUBSET {"error", "started", "phase", "warning"} : Grows(new)
  <2>1. \/ told' = told \/ told' = Append(told, "error")
            \/ told' = told \o <<"started", "phase">> \o <<>>
        \/ told' = told \o <<"started", "phase">> \o <<"warning">>
    BY DEF Reporting!CheckCommandEnds, Reporting!Listed
  <2>2. /\ told \in Seq(Messages) /\ <<>> \in Seq(Messages)
        /\ <<"started", "phase">> \in Seq(Messages) /\ <<"warning">> \in Seq(Messages)
    BY KindsAre, TuplesAre, EmptySeq
  <2>3. ASSUME NEW t \in Seq(Messages), NEW u \in Seq(Messages), told' = told \o t \o u
        PROVE  Grows({(t \o u)[i] : i \in DOMAIN (t \o u)}) /\ t \o u \in Seq(Messages)
    <3>1. told \o t \o u = told \o (t \o u) /\ t \o u \in Seq(Messages)
      BY <2>2, ConcatAssociative, ConcatProperties
    <3> QED
      BY <2>2, <2>3, <3>1, GrowsBy
  <2>4. ASSUME NEW u \in {<<>>, <<"warning">>}, told' = told \o <<"started", "phase">> \o u
        PROVE  \E new \in SUBSET {"error", "started", "phase", "warning"} : Grows(new)
    <3> DEFINE t == <<"started", "phase">>
               new == {(t \o u)[i] : i \in DOMAIN (t \o u)}
    <3>1. t \in Seq(Messages) /\ u \in Seq(Messages)
      BY <2>2, <2>4
    <3>2. \A i \in DOMAIN t : t[i] \in {"started", "phase"}
      BY TuplesAre
    <3>3. \A i \in DOMAIN u : u[i] \in {"warning"}
      BY <2>4, TuplesAre
    <3>4. told' = told \o t \o u
      BY <2>4
    <3> HIDE DEF t
    <3>5. \A i \in DOMAIN (t \o u) : (t \o u)[i] \in {"started", "phase", "warning"}
      BY <3>1, <3>2, <3>3, ReportJoined
    <3>6. Grows(new)
      BY <2>3, <3>1, <3>4
    <3> QED
      BY <3>5, <3>6
  <2>5. CASE told' = told \/ told' = Append(told, "error")
    <3>1. Grows({}) \/ Grows({"error"})
      BY <2>5, KindsAre, GrowsBy
    <3> QED
      BY <3>1
  <2> QED
    BY <2>1, <2>4, <2>5
<1>5. RowsSoFar' /\ Placed'
  BY <1>2, <1>3, KindsAre DEF ReportsInv, RowsSoFar, Placed
<1> QED
  BY <1>2, <1>3, <1>4, <1>5, KindsAre, OnTheWay

LEMMA CaughtAnywhere ==
  ASSUME ReportsInv, Reporting!ConnectFails \/ Reporting!Noticed \/ Reporting!CommandThrows
         PROVE ReportsInv'
<1>1. CASE Reporting!ConnectFails
  BY <1>1, CaughtEnds DEF Reporting!ConnectFails
<1>2. CASE Reporting!Noticed
  BY <1>2, CaughtEnds DEF Reporting!Noticed
<1>3. CASE Reporting!CommandThrows
  BY <1>3, CaughtEnds DEF Reporting!CommandThrows
<1> QED
  BY <1>1, <1>2, <1>3

\* What is said of rows where an operation is over and no row waits or runs.
LEMMA NoRowRuns ==
  ASSUME NEW history, NEW success \in BOOLEAN,
         \A i \in DOMAIN history : history[i] \in {"queued", "started"} => i = 1 /\ Waits,
         success => \A i \in DOMAIN history : history[i] \notin {"failed", "cancelled"}
  PROVE  RowsOver(history, success)
BY DEF RowsOver

LEMMA ReportRowAdded ==
  ASSUME rows \in Seq(Statuses), NEW status \in Statuses
  PROVE  /\ Append(rows, status) \in Seq(Statuses)
         /\ \A i \in DOMAIN Append(rows, status) :
              \/ i \in DOMAIN rows /\ Append(rows, status)[i] = rows[i]
              \/ Append(rows, status)[i] = status
BY Appended

LEMMA CheckEndsKeeps == ASSUME ReportsInv, Reporting!NothingToCheck \/ Reporting!CheckEnds
      PROVE ReportsInv'
<1>1. /\ pc = "loop" /\ run.kind = "check" /\ rows = <<>> /\ run.some \in BOOLEAN
          /\ run.ok \in BOOLEAN
      /\ ~run.lost
  BY KindsAre DEF Reporting!NothingToCheck, Reporting!CheckEnds, Reporting!Stopped, ReportsInv,
     RowsSoFar, Run, Placed
<1>2. CASE Reporting!NothingToCheck
  <2>1. Reporting!End(<<>>, <<>>, Reporting!Result(TRUE, FALSE, FALSE))
    BY <1>1, <1>2 DEF Reporting!NothingToCheck
  <2>2. Reporting!Done(TRUE) \in Reporting!Dones /\ <<>> \in LastMessages(Reporting!Done(TRUE))
          /\ <<>> \in Seq(Statuses)
    BY EmptySeq DEF Reporting!Dones, LastMessages
  <2>3. RowsOver(<<>>, TRUE)
    BY DEF RowsOver
  <2> QED
    BY <1>1, <2>1, <2>2, <2>3, AtTheEnd
<1>3. CASE Reporting!CheckEnds
  <2> DEFINE status == IF run.ok THEN "success" ELSE IF run.some THEN "warning" ELSE "failed"
             history == Append(<<>>, status)
  <2>1. Reporting!End(history, <<Reporting!Done(run.ok)>>, Reporting!Result(run.some, FALSE, FALSE))
    BY <1>1, <1>3 DEF Reporting!CheckEnds
  <2>2. Reporting!Done(run.ok) \in Reporting!Dones
          /\ <<Reporting!Done(run.ok)>> \in LastMessages(Reporting!Done(run.ok))
    BY <1>1 DEF Reporting!Dones, LastMessages
  <2>3. status \in {"success", "warning", "failed"}
          /\ {"success", "warning", "failed"} \subseteq Statuses
    BY DEF Statuses
  <2> HIDE DEF status
  <2>4. history \in Seq(Statuses) /\ \A i \in DOMAIN history : history[i] = status
    <3>1. <<>> \in Seq(Statuses) /\ DOMAIN <<>> = {} /\ Len(<<>>) = 0
      BY EmptySeq
    <3> QED
      BY <2>3, <3>1, Appended
  <2> HIDE DEF history
  <2>5. RowsOver(history, run.some)
    BY <1>1, <2>3, <2>4 DEF RowsOver
  <2> QED
    BY <1>1, <2>1, <2>2, <2>4, <2>5, AtTheEnd
<1> QED
  BY <1>2, <1>3

LEMMA CommandCancelledKeeps == ASSUME ReportsInv, Reporting!CommandCancelled PROVE ReportsInv'
<1>1. pc \in {"running", "listing"} /\ (pc = "listing" => run.kind = "check")
  BY DEF Reporting!CommandCancelled, ReportsInv, Placed
<1>2. CASE run.kind = "check"
  BY <1>1, <1>2, CaughtEnds, KindsAre DEF Reporting!CommandCancelled
<1>3. CASE run.kind # "check"
  <2> DEFINE history == IF run.kind = "package_manager_repair" THEN Append(rows, "cancelled")
                        ELSE Reporting!LastRow("cancelled")
  <2>1. Reporting!End(history, <<"warning", Reporting!Done(FALSE)>>,
                      Reporting!Result(FALSE, FALSE, TRUE))
    BY <1>3 DEF Reporting!CommandCancelled, Reporting!Cancellation
  <2>2. Reporting!Done(FALSE) \in Reporting!Dones
          /\ <<"warning", Reporting!Done(FALSE)>> \in LastMessages(Reporting!Done(FALSE))
    BY DEF Reporting!Dones, LastMessages
  <2>3. "cancelled" \in Statuses
    BY DEF Statuses
  <2>4. history \in Seq(Statuses) /\ RowsOver(history, FALSE)
    <3>1. CASE run.kind = "package_manager_repair"
      <4>1. /\ history \in Seq(Statuses)
            /\ \A i \in DOMAIN history : history[i] # "cancelled" => i \in DOMAIN rows
               /\ history[i] = rows[i]
        BY <2>3, <3>1, KindsAre, Appended
      <4>2. \A i \in DOMAIN rows : rows[i] = "success"
        BY <1>1, <3>1 DEF ReportsInv, RowsSoFar
      <4> QED
        BY <4>1, <4>2, NoRowRuns
    <3>2. CASE run.kind # "package_manager_repair"
      <4>1. /\ history \in Seq(Statuses) /\ DOMAIN history = DOMAIN rows
            /\ \A i \in DOMAIN rows : history[i] = IF i = Len(rows) THEN "cancelled" ELSE rows[i]
        BY <2>3, <3>2, KindsAre, LastRowIs
      <4>2. \A i \in DOMAIN rows : rows[i] \in {"queued", "started"} => (i = 1 /\ Waits)
            \/ i = Len(rows)
        <5>1. CASE run.kind \in Reporting!Loops
          BY <1>1, <5>1 DEF ReportsInv, RowsSoFar, RowsOfLoop
        <5>2. CASE run.kind = "reboot"
          <6>1. rows = <<"started">>
            BY <1>1, <5>2 DEF ReportsInv, RowsSoFar
          <6>2. DOMAIN rows = {1} /\ Len(rows) = 1
            BY <6>1
          <6> QED
            BY <6>2
        <5> QED
          BY <1>3, <3>2, <5>1, <5>2, KindsAre
      <4> QED
        BY <4>1, <4>2, NoRowRuns
    <3> QED
      BY <3>1, <3>2
  <2> HIDE DEF history
  <2> QED
    BY <1>1, <2>1, <2>2, <2>4, AtTheEnd
<1> QED
  BY <1>2, <1>3

LEMMA RepairKeeps ==
  ASSUME ReportsInv, NEW success \in BOOLEAN, Reporting!RepairCommandEnds(success) PROVE ReportsInv'
<1>1. /\ pc = "running" /\ run.kind = "package_manager_repair"
      /\ \A i \in DOMAIN rows : rows[i] = "success"
      /\ ~run.lost /\ {"failed", "success"} \subseteq Statuses
  BY KindsAre DEF Reporting!RepairCommandEnds, ReportsInv, RowsSoFar, Placed, Statuses
<1>2. CASE Reporting!End(Append(rows, "failed"), <<"error", Reporting!Done(FALSE)>>,
                         Reporting!Failure)
  <2> DEFINE history == Append(rows, "failed")
  <2>1. Reporting!End(history, <<"error", Reporting!Done(FALSE)>>,
                      Reporting!Result(FALSE, FALSE, FALSE))
    BY <1>1, <1>2 DEF Reporting!Failure
  <2>2. Reporting!Done(FALSE) \in Reporting!Dones
          /\ <<"error", Reporting!Done(FALSE)>> \in LastMessages(Reporting!Done(FALSE))
    BY DEF Reporting!Dones, LastMessages
  <2>3. /\ history \in Seq(Statuses)
        /\ \A i \in DOMAIN history : history[i] # "failed" => i \in DOMAIN rows
           /\ history[i] = rows[i]
    <3>1. rows \in Seq(Statuses) /\ "failed" \in Statuses
      BY <1>1, KindsAre
    <3> QED
      BY <3>1, ReportRowAdded, Zenon
  <2>4. RowsOver(history, FALSE)
    BY <1>1, <2>3, NoRowRuns
  <2> HIDE DEF history
  <2> QED
    BY <1>1, <2>1, <2>2, <2>3, <2>4, AtTheEnd
<1>3. CASE Reporting!Goto("loop") /\ UNCHANGED <<run, told, rows>>
  <2>1. pc' = "loop" /\ run' = run /\ told' = told /\ rows' = rows
    BY <1>3 DEF Reporting!Goto
  <2>2. Grows({})
    BY <2>1, KindsAre, GrowsBy
  <2>3. RowsSoFar' /\ Placed'
    BY <1>1, <2>1, KindsAre DEF ReportsInv, RowsSoFar, Placed
  <2> QED
    BY <1>1, <2>1, <2>2, <2>3, KindsAre, OnTheWay
<1>4. CASE Reporting!Goto("rechecking") /\ rows' = Append(rows, "success")
           /\ run' = [run EXCEPT !.conn = FALSE]
           /\ told' = told
  <2>1. /\ run' \in Run /\ run'.kind = run.kind /\ run'.queued = run.queued /\ run'.lost = run.lost
        /\ run'.resuming = run.resuming
    BY <1>4, KindsAre DEF Run
  <2>2. pc' = "rechecking"
    BY <1>4 DEF Reporting!Goto
  <2>3. rows' \in Seq(Statuses) /\ \A i \in DOMAIN rows' : rows'[i] = "success"
    <3>1. rows \in Seq(Statuses) /\ "success" \in Statuses
      BY <1>1, KindsAre
    <3> QED
      BY <1>1, <1>4, <3>1, ReportRowAdded, Zenon
  <2>4. Grows({})
    BY <1>4, KindsAre, GrowsBy
  <2>5. RowsSoFar' /\ Placed'
    BY <1>1, <2>1, <2>2, <2>3, KindsAre DEF ReportsInv, RowsSoFar, Placed
  <2> QED
    BY <1>1, <2>1, <2>2, <2>3, <2>4, <2>5, KindsAre, OnTheWay
<1> QED
  BY <1>2, <1>3, <1>4 DEF Reporting!RepairCommandEnds

LEMMA RebootKeeps ==
  ASSUME ReportsInv, NEW exit, Reporting!RebootCommandEnds(exit) PROVE ReportsInv'
<1>1. /\ pc = "running" /\ run.kind = "reboot" /\ rows = <<"started">> /\ ~run.lost
      /\ {"failed", "success"} \subseteq Statuses
  BY KindsAre DEF Reporting!RebootCommandEnds, ReportsInv, RowsSoFar, Placed, Statuses
<1>2. ASSUME NEW status \in {"failed", "success"}
      PROVE  Reporting!LastRow(status) \in Seq(Statuses)
             /\ \A i \in DOMAIN Reporting!LastRow(status) : Reporting!LastRow(status)[i] = status
  <2>1. DOMAIN rows = {1} /\ Len(rows) = 1
    BY <1>1
  <2>2. rows \in Seq(Statuses) /\ status \in Statuses
    BY <1>1, <1>2, KindsAre
  <2>3. /\ Reporting!LastRow(status) \in Seq(Statuses)
            /\ DOMAIN Reporting!LastRow(status) = DOMAIN rows
        /\ \A i \in DOMAIN rows : Reporting!LastRow(status)[i] = IF i = Len(rows) THEN status
           ELSE rows[i]
    BY <2>2, LastRowIs
  <2> QED
    BY <2>1, <2>3
<1>3. CASE Reporting!Goto("loop") /\ UNCHANGED <<run, told, rows>>
  <2>1. pc' = "loop" /\ run' = run /\ told' = told /\ rows' = rows
    BY <1>3 DEF Reporting!Goto
  <2>2. Grows({})
    BY <2>1, KindsAre, GrowsBy
  <2>3. RowsSoFar' /\ Placed'
    BY <1>1, <2>1, KindsAre DEF ReportsInv, RowsSoFar, Placed
  <2> QED
    BY <1>1, <2>1, <2>2, <2>3, KindsAre, OnTheWay
<1>4. CASE Reporting!End(Reporting!LastRow("success"), <<Reporting!Done(TRUE)>>,
                         Reporting!Result(TRUE, FALSE, FALSE))
  <2>1. Reporting!Done(TRUE) \in Reporting!Dones
          /\ <<Reporting!Done(TRUE)>> \in LastMessages(Reporting!Done(TRUE))
    BY DEF Reporting!Dones, LastMessages
  <2>2. RowsOver(Reporting!LastRow("success"), TRUE)
    BY <1>2, NoRowRuns
  <2> QED
    BY <1>1, <1>2, <1>4, <2>1, <2>2, AtTheEnd
<1>5. CASE Reporting!End(Reporting!LastRow("failed"), <<"error", Reporting!Done(FALSE)>>,
                         Reporting!Failure)
  <2>1. Reporting!Done(FALSE) \in Reporting!Dones
          /\ <<"error", Reporting!Done(FALSE)>> \in LastMessages(Reporting!Done(FALSE))
    BY DEF Reporting!Dones, LastMessages
  <2>2. RowsOver(Reporting!LastRow("failed"), FALSE)
    BY <1>2, NoRowRuns
  <2>3. Reporting!End(Reporting!LastRow("failed"), <<"error", Reporting!Done(FALSE)>>,
                      Reporting!Result(FALSE, FALSE, FALSE))
    BY <1>1, <1>5 DEF Reporting!Failure
  <2> QED
    BY <1>1, <1>2, <2>1, <2>2, <2>3, AtTheEnd
<1> QED
  BY <1>3, <1>4, <1>5 DEF Reporting!RebootCommandEnds

LEMMA ReportRecheckKeeps == ASSUME ReportsInv, Reporting!Recheck PROVE ReportsInv'
<1>1. /\ pc = "loop" /\ pc' = "rechecking" /\ rows' = rows /\ told' = Append(told, "phase")
      /\ run' = [run EXCEPT !.conn = FALSE] /\ run.kind \in Reporting!Loops /\ ~run.lost
  BY DEF Reporting!Recheck, Reporting!Stopped, Reporting!Goto
<1>2. /\ run' \in Run /\ run'.kind = run.kind /\ run'.queued = run.queued /\ run'.lost = run.lost
      /\ run'.resuming = run.resuming /\ run'.ok = run.ok
  BY <1>1, KindsAre DEF Run
<1>3. Grows({"phase"})
  BY <1>1, KindsAre, GrowsBy
<1>4. RowsSoFar' /\ Placed'
  BY <1>1, <1>2, KindsAre DEF ReportsInv, RowsSoFar, RowsOfLoop, Waits, Placed
<1> QED
  BY <1>1, <1>2, <1>3, <1>4, KindsAre, OnTheWay

\* A loop is over: its rows are, and one that failed is in its answer.
LEMMA LoopOver ==
  ASSUME ReportsInv, run.kind \in Reporting!Loops, pc \in {"loop", "rechecking"}
  PROVE  run.ok \in BOOLEAN /\ RowsOver(rows, run.ok)
<1>1. run.ok \in BOOLEAN
  BY KindsAre DEF Run
<1>2. RowsOfLoop
  BY DEF ReportsInv, RowsSoFar
<1> QED
  BY <1>1, <1>2, NoRowRuns DEF RowsOfLoop

LEMMA StoppedEnds == ASSUME ReportsInv, Reporting!NoCommand \/ Reporting!LostEnds PROVE ReportsInv'
<1>1. pc = "loop"
  BY DEF Reporting!NoCommand, Reporting!LostEnds, Reporting!Stopped
<1>2. CASE Reporting!NoCommand
  <2>1. rows = <<"queued">>
          /\ Reporting!End(<<"failed">>, <<Reporting!Done(FALSE)>>, Reporting!Failure)
    BY <1>2 DEF Reporting!NoCommand
  <2>2. DOMAIN rows = {1} /\ rows[1] = "queued" /\ rows # <<>>
    BY <2>1
  <2>3. run.kind # "check"
    BY <1>1, <2>2 DEF ReportsInv, RowsSoFar
  <2>4. Reporting!End(<<"failed">>, <<Reporting!Done(FALSE)>>,
                      Reporting!Result(FALSE, FALSE, FALSE))
    BY <2>1, <2>3 DEF Reporting!Failure
  <2>5. Reporting!Done(FALSE) \in Reporting!Dones
          /\ <<Reporting!Done(FALSE)>> \in LastMessages(Reporting!Done(FALSE))
    BY DEF Reporting!Dones, LastMessages
  <2>6. <<"failed">> \in Seq(Statuses) /\ RowsOver(<<"failed">>, FALSE)
    BY OneRow DEF RowsOver, Statuses
  <2> QED
    BY <1>1, <2>4, <2>5, <2>6, AtTheEnd
<1>3. CASE Reporting!LostEnds
  <2> DEFINE alert == IF run.kind = "autoremove" THEN TRUE ELSE run.ok
  <2>1. run.kind \in Reporting!Loops
          /\ Reporting!End(rows, <<Reporting!Done(run.ok)>>, Reporting!Result(run.ok, alert, FALSE))
    BY <1>3 DEF Reporting!LostEnds
  <2>2. run.ok \in BOOLEAN /\ RowsOver(rows, run.ok)
    BY <1>1, <2>1, LoopOver
  <2>3. Reporting!Done(run.ok) \in Reporting!Dones
          /\ <<Reporting!Done(run.ok)>> \in LastMessages(Reporting!Done(run.ok))
    BY <2>2 DEF Reporting!Dones, LastMessages
  <2>4. alert \in BOOLEAN /\ (run.ok => alert)
    BY <2>2
  <2> HIDE DEF alert
  <2> QED
    BY <1>1, <2>1, <2>2, <2>3, <2>4, KindsAre, AtTheEnd
<1> QED
  BY <1>2, <1>3

LEMMA RecheckedKeeps == ASSUME ReportsInv, Reporting!Rechecked PROVE ReportsInv'
<1>1. pc = "rechecking" /\ ~run.lost
  BY DEF Reporting!Rechecked, ReportsInv, Placed
<1>2. CASE Reporting!Caught(TRUE)
  BY <1>1, <1>2, CaughtEnds
<1>3. CASE run.kind \in Reporting!Loops
        /\ Reporting!End(rows, Reporting!RecheckTold \o <<Reporting!Done(run.ok)>>,
                         Reporting!Result(run.ok, FALSE, FALSE))
  <2>1. run.ok \in BOOLEAN /\ RowsOver(rows, run.ok)
    BY <1>1, <1>3, LoopOver
  <2>2. Reporting!Done(run.ok) \in Reporting!Dones
          /\ <<Reporting!Done(run.ok)>> \in LastMessages(Reporting!Done(run.ok))
    BY <2>1 DEF Reporting!Dones, LastMessages
  <2>3. Reporting!RecheckTold \o <<Reporting!Done(run.ok)>> = <<Reporting!Done(run.ok)>>
    BY <2>2, TuplesAre, ConcatEmptySeq DEF Reporting!RecheckTold
  <2> QED
    BY <1>1, <1>3, <2>1, <2>2, <2>3, KindsAre, AtTheEnd
<1>4. ASSUME NEW repaired \in BOOLEAN, run.kind = "package_manager_repair",
             Reporting!End(rows, <<"phase", Reporting!Done(repaired)>>,
                           Reporting!Result(repaired, FALSE, FALSE))
      PROVE  ReportsInv'
  <2>1. \A i \in DOMAIN rows : rows[i] = "success"
    BY <1>1, <1>4 DEF ReportsInv, RowsSoFar
  <2>2. RowsOver(rows, repaired)
    BY <2>1, NoRowRuns
  <2>3. Reporting!Done(repaired) \in Reporting!Dones
          /\ <<"phase", Reporting!Done(repaired)>> \in LastMessages(Reporting!Done(repaired))
    BY DEF Reporting!Dones, LastMessages
  <2> QED
    BY <1>1, <1>4, <2>2, <2>3, KindsAre, AtTheEnd
<1> QED
  BY <1>2, <1>3, <1>4 DEF Reporting!Rechecked

LEMMA ReportsInit == ASSUME ReportSteps \in Nat PROVE Reporting!Init => ReportsInv
<1> SUFFICES ASSUME Reporting!Init PROVE ReportsInv
  OBVIOUS
<1>1. PICK sort \in Reporting!Kinds, steps \in 1 .. ReportSteps :
        \E waits \in (IF sort = "upgrade_all" THEN BOOLEAN ELSE {FALSE}) :
          run = Reporting!NewRun(sort, waits, steps)
  BY DEF Reporting!Init
<1>2. PICK waits \in (IF sort = "upgrade_all" THEN BOOLEAN ELSE {FALSE}) :
        run = Reporting!NewRun(sort, waits, steps)
  BY <1>1
<1>3. run \in Run /\ run.kind = sort /\ run.queued = waits /\ run.resuming = (sort = "resume")
      /\ ~run.lost
  <2>1. steps \in Int /\ sort \in Reporting!Kinds /\ waits \in BOOLEAN
    <3>1. steps \in Int
      OBVIOUS
    <3>2. CASE sort = "upgrade_all"
      BY <3>1, <3>2, Zenon
    <3>3. CASE sort # "upgrade_all"
      <4>1. waits \in {FALSE}
        BY <3>3, Zenon
      <4> QED
        BY <3>1, <4>1
    <3> QED
      BY <3>2, <3>3
  <2>2. PICK resuming \in BOOLEAN : resuming = (sort = "resume")
    OBVIOUS
  <2>3. run = [kind |-> sort, queued |-> waits, resuming |-> resuming, left |-> steps,
               conn |-> FALSE,
               lost |-> FALSE, ok |-> TRUE, some |-> FALSE]
    BY <1>2, <2>2, Zenon DEF Reporting!NewRun
  <2> QED
    BY <2>1, <2>2, <2>3 DEF Run
<1>4. /\ rows = (CASE run.queued -> <<"queued">> [] run.resuming -> <<"started">> [] OTHER -> <<>>)
      /\ pc = "begin" /\ told = <<>>
  BY DEF Reporting!Init
<1>5. rows \in {<<>>, <<"queued">>, <<"started">>}
  BY <1>4
<1>6. /\ rows \in Seq(Statuses) /\ told \in Seq(Messages) /\ DOMAIN told = {}
          /\ DOMAIN rows \subseteq {1}
      /\ DOMAIN <<>> = {}
  <2>1. "queued" \in Statuses /\ "started" \in Statuses
    BY DEF Statuses
  <2>2. <<>> \in Seq(Statuses) /\ <<>> \in Seq(Messages) /\ DOMAIN <<>> = {}
    BY EmptySeq
  <2>3. /\ <<"queued">> \in Seq(Statuses) /\ DOMAIN <<"queued">> = {1}
        /\ <<"started">> \in Seq(Statuses) /\ DOMAIN <<"started">> = {1}
    BY <2>1, OneRow
  <2> QED
    BY <1>4, <1>5, <2>2, <2>3
<1>7. ReportsTyped /\ Placed /\ NoneTold /\ LostSoFar
  BY <1>3, <1>4, <1>6 DEF ReportsTyped, Run, Placed, NoneTold, LostSoFar, Reporting!Loops,
     Reporting!Upgrades
<1>8. RowsSoFar
  <2>1. sort \notin {"upgrade_all", "resume"} => rows = <<>>
    BY <1>2, <1>3, <1>4
  <2>2. {"upgrade_all", "resume"} \cap {"check", "package_manager_repair", "reboot"} = {}
    OBVIOUS
  <2>3. rows # <<>> => Waits
    BY <1>3, <1>4 DEF Waits
  <2>4. \A i \in DOMAIN rows : i = 1 /\ rows[i] \in {"queued", "started"}
    BY <1>5, OneRow DEF Statuses
  <2> QED
    BY <1>3, <1>4, <1>6, <2>1, <2>2, <2>3, <2>4 DEF RowsSoFar, RowsOfLoop
<1>9. Reporting!ReportsSound
  BY <1>4, <1>6 DEF Reporting!ReportsSound, Reporting!ToldOnceAndLast, Reporting!RowsAreOver,
     Reporting!LostIsTold
<1> QED
  BY <1>7, <1>8, <1>9 DEF ReportsInv

LEMMA ReportsStep == ReportsInv /\ [Reporting!Next]_Reporting!vars => ReportsInv'
<1> SUFFICES ASSUME ReportsInv, [Reporting!Next]_Reporting!vars PROVE ReportsInv'
  OBVIOUS
<1>1. CASE Reporting!Cancel \/ UNCHANGED Reporting!vars
  <2>1. UNCHANGED <<run, pc, told, rows, outcome>>
    BY <1>1 DEF Reporting!Cancel, Reporting!vars
  <2> QED
    BY <2>1 DEF ReportsInv, ReportsTyped, Placed, NoneTold, LostSoFar, RowsSoFar, RowsOfLoop, Waits,
       Reporting!ReportsSound, Reporting!ToldOnceAndLast, Reporting!IsDone, Reporting!RowsAreOver,
           Reporting!LostIsTold
<1> QED
  BY <1>1, RefuseEnds, ReportBeginKeeps, DialKeeps, ConnectedKeeps, CaughtAnywhere, CheckEndsKeeps,
     SkipKeeps,
     StartStepKeeps, CommandCancelledKeeps, MonitoringLostKeeps, StoppedEnds, ReportRecheckKeeps,
     RecheckedKeeps, CommandEndsKeeps, ReconnectedKeeps, RepairKeeps, CheckStepKeeps, RebootKeeps
     DEF Reporting!Next

--------------------------------------------------------------------------------
Trust == INSTANCE HostTrust WITH Calls <- Dials, call <- connect, MaxEdits <- MaxTrustEdits

-------------------------------------------------------------------------------
\* What the library's Min and Max choose is in the set.
LEMMA LeastChosen ==
  ASSUME NEW S, S \subseteq Nat, S # {} PROVE Trust!Min(S) \in S
BY HasLeast DEF Trust!Min

LEMMA GreatestChosen ==
  ASSUME NEW n \in Nat, NEW S, S \subseteq 1 .. n, S # {} PROVE Trust!Max(S) \in S
BY HasGreatest DEF Trust!Max

\* What the operator is asked, and approves: a key the host at the address has.
Asked == {a \in [system : Systems, address : Addresses, key : Trust!Keys] :
            a.key \in KeysOf[a.address]}

HopOK == [system : Systems, address : Addresses, verify : BOOLEAN,
          trusted : Trust!Keys \cup {None}, seen : Trust!Keys \cup {None}]

CallOK == [phase : {"permit", "dial", "connected"}, config : Trust!Config,
           key : Trust!Keys \cup {None},
           test : BOOLEAN, approvals : Seq(Asked), transient : Seq(Asked),
           collected : Seq(Asked), hops : Seq(HopOK), at : Nat \ {0}]

KeysReal ==
  /\ row \in [Systems -> Trust!Row]
  /\ hostKey \in [Addresses -> Trust!Keys] /\ \A a \in Addresses : hostKey[a] \in KeysOf[a]
  /\ challenges \subseteq [config : Trust!Config, asked : Seq(Asked)]
  /\ validated \subseteq {v \in [config : Trust!Config, key : Trust!Keys \cup {None}] :
                            v.key \in KeysOf[v.config.address] \cup {None}}

CallsTyped == connect \in [Dials -> {Trust!Idle} \cup CallOK]

\* The last hop is the target; while nothing was collected, the approvals are
\* the operator's, and every hop so far was accepted with these.
Sound(k) ==
  /\ k.phase # "permit" => k.hops # <<>> /\ Trust!Last(k.hops).address = k.config.address
  /\ k.phase = "permit" => k.at = 1
  /\ k.phase = "connected" => k.collected = <<>> /\ k.at > Len(k.hops)
  /\ k.collected = <<>> =>
       /\ k.transient = k.approvals
       /\ \A i \in 1 .. Len(k.hops) :
            i < k.at => Trust!Accepted(k.approvals, k.hops[i], k.hops[i].seen)

CallsSound == \A c \in Dials : connect[c].phase # "idle" => Sound(connect[c])

TrustInv == KeysReal /\ CallsTyped /\ CallsSound

LEMMA ApprovalFound ==
  ASSUME NEW list \in Seq(Asked), NEW hop, Trust!ApprovedKey(list, hop) # None
  PROVE  \E i \in 1 .. Len(list) : /\ list[i] \in Asked
                                   /\ list[i].system = hop.system
                                   /\ list[i].address = hop.address
                                   /\ list[i].key = Trust!ApprovedKey(list, hop)
<1> DEFINE I == {i \in 1 .. Len(list) : list[i].system = hop.system /\ list[i].address = hop.address}
<1>1. Trust!ApprovedKey(list, hop) = LET i == IF I # {} THEN Trust!Min(I) ELSE 0
                                     IN IF i = 0 THEN None ELSE list[i].key
  BY DEF Trust!ApprovedKey, Trust!SelectInSeq
<1>2. I # {}
  BY <1>1
<1>3. I \subseteq Nat
  OBVIOUS
<1>4. \A i \in I : i \in 1 .. Len(list) /\ i # 0 /\ list[i] \in Asked
  BY ElementOfSeq
<1>5. \A i \in I : list[i].system = hop.system /\ list[i].address = hop.address
  OBVIOUS
<1> HIDE DEF I
<1>6. Trust!Min(I) \in I
  BY <1>2, <1>3, LeastChosen
<1>7. Trust!ApprovedKey(list, hop) = list[Trust!Min(I)].key
  BY <1>1, <1>2, <1>4, <1>6
<1> QED
  BY <1>4, <1>5, <1>6, <1>7

LEMMA SameHop ==
  ASSUME NEW list, NEW h, NEW g, h.system = g.system, h.address = g.address
  PROVE  Trust!ApprovedKey(list, h) = Trust!ApprovedKey(list, g)
BY DEF Trust!ApprovedKey, Trust!SelectInSeq

LEMMA ApprovedKeyReal ==
  ASSUME NEW list \in Seq(Asked), NEW hop
  PROVE  /\ Trust!ApprovedKey(list, hop) \in KeysOf[hop.address] \cup {None}
         /\ Trust!ApprovedKey(list, hop) \in Trust!Keys \cup {None}
<1>1. CASE Trust!ApprovedKey(list, hop) # None
  BY <1>1, ApprovalFound DEF Asked
<1> QED
  BY <1>1

LEMMA TrustInit == Trust!Init => TrustInv
<1> SUFFICES ASSUME Trust!Init PROVE TrustInv
  OBVIOUS
<1>1. row \in [Systems -> Trust!Row]
  <2>1. row \in [Systems -> {[address |-> a, verify |-> TRUE, key |-> None] : a \in Addresses}]
    BY DEF Trust!Init
  <2>2. \A a \in Addresses : [address |-> a, verify |-> TRUE, key |-> None] \in Trust!Row
    BY DEF Trust!Row
  <2> QED
    BY <2>1, <2>2
<1>2. hostKey \in [Addresses -> Trust!Keys] /\ \A a \in Addresses : hostKey[a] \in KeysOf[a]
  BY DEF Trust!Init
<1>3. KeysReal
  BY <1>1, <1>2 DEF Trust!Init, KeysReal
<1>4. connect = [c \in Dials |-> Trust!Idle]
  BY DEF Trust!Init
<1> QED
  BY <1>3, <1>4 DEF TrustInv, CallsTyped, CallsSound, Trust!Idle

LEMMA CallReplaced ==
  ASSUME TrustInv, NEW c \in Dials, NEW k, connect' = [connect EXCEPT ![c] = k],
         k = Trust!Idle \/ (k \in CallOK /\ Sound(k))
  PROVE  CallsTyped' /\ CallsSound'
<1>1. CallsTyped'
  BY DEF TrustInv, CallsTyped
<1>2. ASSUME NEW d \in Dials, connect'[d].phase # "idle" PROVE Sound(connect'[d])
  <2>1. CASE d = c
    BY <1>2, <2>1 DEF TrustInv, CallsTyped, Trust!Idle
  <2>2. CASE d # c
    BY <1>2, <2>2 DEF TrustInv, CallsTyped, CallsSound
  <2> QED
    BY <2>1, <2>2
<1> QED
  BY <1>1, <1>2 DEF CallsSound

LEMMA CallEnds ==
  ASSUME TrustInv, NEW c \in Dials, connect' = [connect EXCEPT ![c] = Trust!Idle]
  PROVE  CallsTyped' /\ CallsSound'
<1>1. connect' \in [Dials -> {Trust!Idle} \cup CallOK]
  BY DEF TrustInv, CallsTyped
<1>2. \A d \in Dials : connect'[d] = Trust!Idle \/ connect'[d] = connect[d]
  BY DEF TrustInv, CallsTyped
<1> QED
  BY <1>1, <1>2 DEF TrustInv, CallsTyped, CallsSound, Trust!Idle

LEMMA CallBegins ==
  ASSUME TrustInv, NEW c \in Dials, NEW config \in Trust!Config, NEW key \in Trust!Keys \cup {None},
         NEW approvals \in Seq(Asked), NEW trial \in BOOLEAN,
         Trust!Begin(c, config, key, approvals, trial)
  PROVE  CallsTyped' /\ CallsSound'
<1> DEFINE k == [phase |-> "permit", config |-> config, key |-> key, test |-> trial,
                 approvals |-> approvals, transient |-> approvals,
                 collected |-> <<>>, hops |-> <<>>, at |-> 1]
<1>1. connect' = [connect EXCEPT ![c] = k]
  BY DEF Trust!Begin
<1>2. k \in CallOK
  BY DEF CallOK
<1>3. Sound(k)
  BY DEF Sound
<1> HIDE DEF k
<1> QED
  BY <1>1, <1>2, <1>3, CallReplaced

LEMMA CallTyped ==
  ASSUME TrustInv, NEW c \in Dials, connect[c].phase # "idle"
  PROVE  connect[c] \in CallOK /\ Sound(connect[c])
BY DEF TrustInv, CallsTyped, CallsSound, Trust!Idle

LEMMA StepTest == ASSUME TrustInv, Trust!Test PROVE TrustInv'
<1>1. PICK c \in Dials, config \in Trust!Config :
        /\ Trust!Begin(c, config, Trust!KeyForTest(config), <<>>, TRUE)
        /\ UNCHANGED <<row, hostKey, challenges, validated>>
  BY DEF Trust!Test
<1>2. Trust!KeyForTest(config) \in Trust!Keys \cup {None}
  BY DEF Trust!KeyForTest, TrustInv, KeysReal, Trust!Row, Trust!Config
<1>3. <<>> \in Seq(Asked)
  OBVIOUS
<1>4. CallsTyped' /\ CallsSound'
  BY <1>1, <1>2, <1>3, CallBegins
<1> QED
  BY <1>1, <1>4 DEF TrustInv, KeysReal

LEMMA StepApprove == ASSUME TrustInv, Trust!Approve PROVE TrustInv'
<1>1. PICK c \in Dials, t \in challenges :
        /\ Trust!Begin(c, t.config, Trust!KeyForTest(t.config), t.asked, TRUE)
        /\ row' = [s \in Systems |->
                     LET i == Trust!SelectLastInSeq(t.asked, LAMBDA a : a.system = s)
                     IN IF i = 0 THEN row[s] ELSE [row[s] EXCEPT !.key = t.asked[i].key]]
        /\ challenges' = challenges \ {t}
        /\ UNCHANGED <<hostKey, validated>>
  BY DEF Trust!Approve
<1>2. t.config \in Trust!Config /\ t.asked \in Seq(Asked)
  BY DEF TrustInv, KeysReal
<1>3. Trust!KeyForTest(t.config) \in Trust!Keys \cup {None}
  BY <1>2 DEF Trust!KeyForTest, TrustInv, KeysReal, Trust!Row, Trust!Config
<1>4. CallsTyped' /\ CallsSound'
  BY <1>1, <1>2, <1>3, CallBegins
<1>5. ASSUME NEW s \in Systems PROVE row'[s] \in Trust!Row
  <2> DEFINE I == {i \in 1 .. Len(t.asked) : t.asked[i].system = s}
  <2>1. row'[s] = LET i == IF I # {} THEN Trust!Max(I) ELSE 0
                  IN IF i = 0 THEN row[s] ELSE [row[s] EXCEPT !.key = t.asked[i].key]
    BY <1>1 DEF Trust!SelectLastInSeq
  <2>2. I \subseteq 1 .. Len(t.asked) /\ Len(t.asked) \in Nat
    BY <1>2, LenProperties
  <2> HIDE DEF I
  <2>3. CASE I # {}
    <3>1. Trust!Max(I) \in 1 .. Len(t.asked)
      BY <2>2, <2>3, GreatestChosen
    <3>2. t.asked[Trust!Max(I)] \in Asked
      BY <1>2, <3>1, ElementOfSeq
    <3>3. row'[s] = [row[s] EXCEPT !.key = t.asked[Trust!Max(I)].key]
      BY <2>1, <2>2, <2>3, <3>1
    <3> QED
      BY <3>2, <3>3 DEF Asked, TrustInv, KeysReal, Trust!Row
  <2>4. CASE I = {}
    BY <2>1, <2>4 DEF TrustInv, KeysReal
  <2> QED
    BY <2>3, <2>4
<1>6. row' \in [Systems -> Trust!Row]
  BY <1>1, <1>5
<1> QED
  BY <1>1, <1>4, <1>6 DEF TrustInv, KeysReal

LEMMA StepOperate == ASSUME TrustInv, Trust!Operate PROVE TrustInv'
<1>1. PICK c \in Dials, s \in Systems :
        /\ Trust!Begin(c, [system |-> s, address |-> row[s].address, verify |-> row[s].verify],
                       row[s].key, <<>>, FALSE)
        /\ UNCHANGED <<row, hostKey, challenges, validated>>
  BY DEF Trust!Operate
<1>2. /\ [system |-> s, address |-> row[s].address, verify |-> row[s].verify] \in Trust!Config
      /\ row[s].key \in Trust!Keys \cup {None}
  BY DEF TrustInv, KeysReal, Trust!Row, Trust!Config
<1>3. <<>> \in Seq(Asked)
  OBVIOUS
<1>4. CallsTyped' /\ CallsSound'
  BY <1>1, <1>2, <1>3, CallBegins
<1> QED
  BY <1>1, <1>4 DEF TrustInv, KeysReal

LEMMA StepResolveChain ==
  ASSUME Trust!PathAssumption, TrustInv, NEW c \in Dials, Trust!ResolveChain(c) PROVE TrustInv'
<1> DEFINE k == connect[c]
           path == Path[k.config.system]
           hops == [i \in 1 .. Len(path) |->
                      IF i = Len(path)
                      THEN Trust!HopOf(path[i], k.config.address, k.config.verify, k.key)
                      ELSE Trust!HopOf(path[i], row[path[i]].address, row[path[i]].verify,
                                       row[path[i]].key)]
           new == [k EXCEPT !.phase = "dial", !.hops = hops]
<1> HIDE DEF path, hops, new
<1>1. k.phase = "permit" /\ k \in CallOK /\ Sound(k)
  <2>1. k.phase = "permit"
    BY Zenon DEF Trust!ResolveChain
  <2>2. k.phase # "idle"
    BY <2>1, Zenon
  <2> QED
    BY <2>1, <2>2, CallTyped, Zenon
<1>2. connect' = [connect EXCEPT ![c] = new]
  BY DEF Trust!ResolveChain, TrustInv, CallsTyped, new, hops, path
<1>3. path \in Seq(Systems) /\ Len(path) \in Nat \ {0}
  <2>1. k.config.system \in Systems
    BY <1>1 DEF CallOK, Trust!Config
  <2>2. Path[k.config.system] \in Seq(Systems) /\ Path[k.config.system] # <<>>
    BY <2>1 DEF Trust!PathAssumption
  <2> QED
    BY <2>2, EmptySeq DEF path
<1>4. ASSUME NEW i \in 1 .. Len(path)
      PROVE  hops[i] = IF i = Len(path) THEN Trust!HopOf(path[i], k.config.address, k.config.verify,
                                                         k.key)
                       ELSE Trust!HopOf(path[i], row[path[i]].address, row[path[i]].verify,
                                        row[path[i]].key)
  BY DEF hops
<1>5. hops \in Seq(HopOK) /\ Len(hops) = Len(path)
  <2>1. ASSUME NEW i \in 1 .. Len(path) PROVE hops[i] \in HopOK
    <3>1. path[i] \in Systems
      BY <1>3, ElementOfSeq
    <3>2. row[path[i]] \in Trust!Row
      BY <3>1 DEF TrustInv, KeysReal
    <3>3. /\ k.config.address \in Addresses /\ k.config.verify \in BOOLEAN
              /\ k.key \in Trust!Keys \cup {None}
          /\ row[path[i]].address \in Addresses /\ row[path[i]].verify \in BOOLEAN
          /\ row[path[i]].key \in Trust!Keys \cup {None}
      BY <1>1, <3>2 DEF CallOK, Trust!Config, Trust!Row
    <3>4. ASSUME NEW a \in Addresses, NEW v \in BOOLEAN, NEW key \in Trust!Keys \cup {None}
          PROVE  Trust!HopOf(path[i], a, v, key) \in HopOK
      BY <3>1 DEF HopOK, Trust!HopOf
    <3> QED
      BY <1>4, <3>3, <3>4
  <2>2. hops \in [1 .. Len(path) -> HopOK]
    BY <2>1 DEF hops
  <2>3. hops \in Seq(HopOK)
    BY <1>3, <2>2, SeqDef
  <2> QED
    BY <1>3, <2>2, <2>3, LenProperties
<1>6. hops # <<>> /\ Trust!Last(hops).address = k.config.address
  <2>1. Trust!Last(hops) = hops[Len(path)]
    BY <1>5 DEF Trust!Last
  <2>2. Len(path) \in 1 .. Len(path)
    BY <1>3
  <2>3. hops[Len(path)] = Trust!HopOf(path[Len(path)], k.config.address, k.config.verify, k.key)
    BY <1>4, <2>2
  <2>4. hops # <<>>
    BY <1>3, <1>5, EmptySeq
  <2>5. Trust!HopOf(path[Len(path)], k.config.address, k.config.verify,
                    k.key).address = k.config.address
    BY DEF Trust!HopOf
  <2> QED
    BY <2>1, <2>3, <2>4, <2>5
<1>7. new \in CallOK
  BY <1>1, <1>5 DEF CallOK, new
<1>8. Sound(new)
  <2>1. new.at = 1 /\ new.phase = "dial" /\ new.hops = hops /\ new.config = k.config
        /\ new.collected = k.collected /\ new.transient = k.transient /\ new.approvals = k.approvals
    BY <1>1 DEF CallOK, Sound, new
  <2>2. \A i \in 1 .. Len(hops) : ~ (i < 1)
    BY <1>5
  <2> QED
    BY <1>1, <1>6, <2>1, <2>2 DEF Sound
<1>9. CallsTyped' /\ CallsSound'
  BY <1>2, <1>7, <1>8, CallReplaced
<1> QED
  BY <1>9 DEF TrustInv, KeysReal, Trust!ResolveChain

LEMMA StepHopConnects ==
  ASSUME TrustInv, NEW c \in Dials, Trust!HopConnects(c) PROVE TrustInv'
<1> DEFINE k == connect[c]
           n == k.at
           key == hostKey[Trust!CurrentHop(c).address]
           hop == [k.hops[n] EXCEPT !.seen = key]
           hops == [k.hops EXCEPT ![n] = hop]
           new == [k EXCEPT !.hops = hops, !.at = n + 1]
<1>1. k.phase = "dial" /\ k \in CallOK /\ Sound(k)
  BY CallTyped DEF Trust!HopConnects
<1>2. connect' = [connect EXCEPT ![c] = new]
  BY DEF Trust!HopConnects, TrustInv, CallsTyped
<1>3. k.hops \in Seq(HopOK) /\ Len(k.hops) \in Nat /\ n \in 1 .. Len(k.hops)
  BY <1>1, LenProperties DEF CallOK, Trust!HopConnects
<1>4. Trust!Accepted(k.transient, k.hops[n], key)
  BY DEF Trust!HopConnects, Trust!CurrentHop
<1>5. k.hops[n] \in HopOK
  BY <1>3, ElementOfSeq
<1>6. key \in Trust!Keys
  BY <1>5 DEF Trust!CurrentHop, HopOK, TrustInv, KeysReal
<1>7. hop \in HopOK /\ hop.seen = key /\ hop.address = k.hops[n].address
      /\ hop.system = k.hops[n].system /\ hop.verify = k.hops[n].verify
      /\ hop.trusted = k.hops[n].trusted
  BY <1>5, <1>6 DEF HopOK
<1> HIDE DEF key, hop
<1>8. /\ hops \in Seq(HopOK) /\ Len(hops) = Len(k.hops)
      /\ \A j \in 1 .. Len(k.hops) : hops[j] = IF j = n THEN hop ELSE k.hops[j]
  BY <1>3, <1>7, ExceptSeq
<1> HIDE DEF hops
<1>9. new \in CallOK
  <2>1. n + 1 \in Nat \ {0}
    BY <1>3
  <2>2. [k EXCEPT !.hops = hops] \in CallOK
    BY <1>1, <1>8 DEF CallOK
  <2> QED
    BY <1>1, <1>8, <2>1 DEF CallOK
<1>10. /\ new.phase = "dial" /\ new.hops = hops /\ new.at = n + 1 /\ new.config = k.config
       /\ new.collected = k.collected /\ new.transient = k.transient
       /\ new.approvals = k.approvals
  BY <1>1 DEF CallOK
<1> HIDE DEF new
<1>11. hops # <<>> /\ Trust!Last(hops).address = k.config.address
  <2>1. k.hops # <<>> /\ Trust!Last(k.hops).address = k.config.address
    BY <1>1 DEF Sound
  <2>2. Len(k.hops) \in 1 .. Len(k.hops) /\ hops # <<>>
    BY <1>3, <1>8, EmptySeq
  <2>3. hops[Len(k.hops)].address = k.hops[Len(k.hops)].address
    BY <1>7, <1>8, <2>2
  <2> QED
    BY <1>8, <2>1, <2>2, <2>3 DEF Trust!Last
<1>12. ASSUME k.collected = <<>>, NEW i \in 1 .. Len(hops), i < n + 1
       PROVE  Trust!Accepted(k.approvals, hops[i], hops[i].seen)
  <2>1. k.transient = k.approvals
    BY <1>1, <1>12 DEF Sound
  <2>2. CASE i = n
    BY <1>3, <1>4, <1>7, <1>8, <2>1, <2>2, SameHop DEF Trust!Accepted, Trust!Expected
  <2>3. CASE i # n
    BY <1>1, <1>3, <1>8, <1>12, <2>3 DEF Sound
  <2> QED
    BY <2>2, <2>3
<1>13. Sound(new)
  BY <1>1, <1>10, <1>11, <1>12 DEF Sound
<1>14. CallsTyped' /\ CallsSound'
  BY <1>2, <1>9, <1>13, CallReplaced
<1> QED
  BY <1>14 DEF Trust!HopConnects, TrustInv, KeysReal

LEMMA StepHopRefused ==
  ASSUME TrustInv, NEW c \in Dials, Trust!HopRefused(c) PROVE TrustInv'
<1> DEFINE k == connect[c]
           asked == Trust!Challenge(Trust!CurrentHop(c))
           new == [k EXCEPT !.transient = Append(@, asked), !.collected = Append(@, asked)]
<1>1. k.phase = "dial" /\ k \in CallOK /\ Sound(k)
  BY CallTyped DEF Trust!HopRefused
<1>2. connect' = [connect EXCEPT ![c] = Trust!Idle] \/ connect' = [connect EXCEPT ![c] = new]
  BY DEF Trust!HopRefused, TrustInv, CallsTyped
<1>3. Trust!CurrentHop(c) \in HopOK
  BY <1>1, ElementOfSeq DEF CallOK, Trust!HopRefused, Trust!CurrentHop
<1>4. asked \in Asked
  BY <1>3 DEF Trust!Challenge, HopOK, Asked, TrustInv, KeysReal
<1> HIDE DEF asked
<1>5. new \in CallOK
  BY <1>1, <1>4, AppendProperties DEF CallOK
<1>6. /\ new.phase = "dial" /\ new.hops = k.hops /\ new.at = k.at /\ new.config = k.config
      /\ new.collected # <<>>
  BY <1>1, <1>4, AppendProperties, EmptySeq DEF CallOK
<1> HIDE DEF new
<1>7. Sound(new)
  BY <1>1, <1>6 DEF Sound
<1>8. CallsTyped' /\ CallsSound'
  BY <1>2, <1>5, <1>7, CallEnds, CallReplaced
<1>9. [config |-> k.config, asked |-> <<asked>>] \in [config : Trust!Config, asked : Seq(Asked)]
  BY <1>1, <1>4 DEF CallOK
<1>10. challenges' = challenges
         \/ challenges' = challenges \cup {[config |-> k.config, asked |-> <<asked>>]}
  BY DEF Trust!HopRefused, Trust!Asks, asked
<1>11. KeysReal'
  BY <1>9, <1>10 DEF Trust!HopRefused, TrustInv, KeysReal
<1> QED
  BY <1>8, <1>11 DEF TrustInv

LEMMA StepEnds ==
  ASSUME TrustInv, NEW c \in Dials, Trust!HopFails(c) \/ Trust!Disconnect(c) PROVE TrustInv'
<1>1. connect' = [connect EXCEPT ![c] = Trust!Idle]
        /\ UNCHANGED <<row, hostKey, challenges, validated>>
  BY DEF Trust!HopFails, Trust!Disconnect
<1>2. CallsTyped' /\ CallsSound'
  BY <1>1, CallEnds
<1> QED
  BY <1>1, <1>2 DEF TrustInv, KeysReal

LEMMA StepConnectRefuses ==
  ASSUME TrustInv, NEW c \in Dials, Trust!ConnectRefuses(c) PROVE TrustInv'
<1>1. connect[c] \in CallOK
  BY CallTyped DEF Trust!ConnectRefuses
<1>2. [config |-> connect[c].config, asked |-> connect[c].collected]
        \in [config : Trust!Config, asked : Seq(Asked)]
  BY <1>1 DEF CallOK
<1>3. KeysReal'
  BY <1>2 DEF Trust!ConnectRefuses, Trust!Asks, TrustInv, KeysReal
<1>4. CallsTyped' /\ CallsSound'
  BY CallEnds DEF Trust!ConnectRefuses
<1> QED
  BY <1>3, <1>4 DEF TrustInv

LEMMA StepConnectSucceeds ==
  ASSUME TrustInv, NEW c \in Dials, Trust!ConnectSucceeds(c) PROVE TrustInv'
<1> DEFINE k == connect[c]
           new == [k EXCEPT !.phase = "connected"]
           pass == [config |-> k.config, key |-> Trust!ApprovedKey(k.approvals, Trust!Last(k.hops))]
<1>1. k.phase = "dial" /\ k \in CallOK /\ Sound(k)
  BY CallTyped DEF Trust!ConnectSucceeds
<1>2. connect' = [connect EXCEPT ![c] = new]
  BY DEF Trust!ConnectSucceeds, TrustInv, CallsTyped
<1>3. new \in CallOK
  BY <1>1 DEF CallOK
<1>4. Sound(new)
  BY <1>1 DEF Sound, CallOK, Trust!ConnectSucceeds
<1> HIDE DEF new
<1>5. CallsTyped' /\ CallsSound'
  BY <1>2, <1>3, <1>4, CallReplaced
<1>6. Trust!Last(k.hops).address = k.config.address
  BY <1>1 DEF Sound
<1>7. /\ Trust!ApprovedKey(k.approvals, Trust!Last(k.hops)) \in KeysOf[k.config.address] \cup {None}
      /\ Trust!ApprovedKey(k.approvals, Trust!Last(k.hops)) \in Trust!Keys \cup {None}
  BY <1>1, <1>6, ApprovedKeyReal DEF CallOK
<1>8. pass \in {v \in [config : Trust!Config, key : Trust!Keys \cup {None}] :
                  v.key \in KeysOf[v.config.address] \cup {None}}
  BY <1>1, <1>7 DEF CallOK
<1>9. KeysReal'
  BY <1>8 DEF Trust!ConnectSucceeds, TrustInv, KeysReal
<1> QED
  BY <1>5, <1>9 DEF TrustInv

\* Rows are edited without a call being begun or ended.
LEMMA NoCall == ASSUME TrustInv, KeysReal', UNCHANGED connect PROVE TrustInv'
BY DEF TrustInv, CallsTyped, CallsSound, Sound

\* What a token says of a configuration is a key of its host.
LEMMA TokenKeyReal ==
  ASSUME TrustInv, NEW config \in Trust!Config,
         NEW key \in {v.key : v \in Trust!TokensFor(config)} \cup {None}
  PROVE  key \in Trust!Keys \cup {None} /\ key \in KeysOf[config.address] \cup {None}
BY DEF TrustInv, KeysReal, Trust!TokensFor

LEMMA StepEdit == ASSUME TrustInv, Trust!Edit PROVE TrustInv'
<1>1. PICK s \in Systems, config \in Trust!Config :
        /\ config.system = s
        /\ \E key \in {v.key : v \in Trust!TokensFor(config)} \cup {None} :
             row' = [row EXCEPT ![s] =
                       [address |-> config.address, verify |-> config.verify,
                        key |-> IF ~config.verify THEN None
                                ELSE IF key # None THEN key
                                ELSE IF config.address # row[s].address THEN None
                                ELSE row[s].key]]
        /\ UNCHANGED <<hostKey, challenges, validated, connect>>
  BY DEF Trust!Edit
<1>2. PICK key \in {v.key : v \in Trust!TokensFor(config)} \cup {None} :
        row' = [row EXCEPT ![s] =
                  [address |-> config.address, verify |-> config.verify,
                   key |-> IF ~config.verify THEN None
                           ELSE IF key # None THEN key
                           ELSE IF config.address # row[s].address THEN None
                           ELSE row[s].key]]
  BY <1>1
<1>3. key \in Trust!Keys \cup {None}
  BY TokenKeyReal
<1>4. row[s] \in Trust!Row
  BY DEF TrustInv, KeysReal
<1>5. row' \in [Systems -> Trust!Row]
  BY <1>2, <1>3, <1>4 DEF Trust!Row, Trust!Config, TrustInv, KeysReal
<1> QED
  BY <1>1, <1>5, NoCall DEF TrustInv, KeysReal

LEMMA StepOthers ==
  ASSUME TrustInv, Trust!Revoke \/ Trust!HostRekeys \/ Trust!TokenExpires \/ UNCHANGED Trust!vars
         PROVE TrustInv'
<1>1. CASE Trust!Revoke
  BY <1>1, NoCall DEF Trust!Revoke, TrustInv, KeysReal, Trust!Row
<1>2. CASE Trust!HostRekeys
  <2>1. PICK a \in Addresses : \E k \in KeysOf[a] : hostKey' = [hostKey EXCEPT ![a] = k]
    BY <1>2 DEF Trust!HostRekeys
  <2> PICK k \in KeysOf[a] : hostKey' = [hostKey EXCEPT ![a] = k]
    BY <2>1
  <2>2. k \in Trust!Keys
    BY DEF Trust!Keys
  <2> QED
    BY <1>2, <2>1, <2>2, NoCall DEF Trust!HostRekeys, TrustInv, KeysReal
<1>3. CASE Trust!TokenExpires
  BY <1>3, NoCall DEF Trust!TokenExpires, TrustInv, KeysReal
<1>4. CASE UNCHANGED Trust!vars
  BY <1>4, NoCall DEF Trust!vars, TrustInv, KeysReal
<1> QED
  BY <1>1, <1>2, <1>3, <1>4

LEMMA TrustStep == ASSUME Trust!PathAssumption, TrustInv, [Trust!Next]_Trust!vars PROVE TrustInv'
BY StepTest, StepApprove, StepOperate, StepResolveChain, StepHopConnects, StepHopRefused, StepEnds,
   StepConnectRefuses, StepConnectSucceeds, StepEdit, StepOthers DEF Trust!Next

LEMMA TrustVerifies == TrustInv => Trust!VerifiedConnections
<1> SUFFICES ASSUME TrustInv, NEW c \in Dials, connect[c].phase = "connected",
                    NEW i \in 1 .. Len(connect[c].hops), connect[c].hops[i].verify,
                    connect[c].hops[i].seen # connect[c].hops[i].trusted
             PROVE  [system |-> connect[c].hops[i].system, address |-> connect[c].hops[i].address,
                     key |-> connect[c].hops[i].seen] \in Trust!ToSet(connect[c].approvals)
  BY DEF Trust!VerifiedConnections
<1> DEFINE k == connect[c]
           hop == k.hops[i]
<1>1. k \in CallOK /\ Sound(k)
  BY CallTyped
<1>2. hop \in HopOK /\ i \in Nat /\ i < k.at
  BY <1>1, ElementOfSeq, LenProperties DEF Sound, CallOK
<1>3. Trust!Accepted(k.approvals, hop, hop.seen)
  BY <1>1, <1>2 DEF Sound
<1>4. Trust!ApprovedKey(k.approvals, hop) = hop.seen /\ Trust!ApprovedKey(k.approvals, hop) # None
  BY <1>3 DEF Trust!Accepted, Trust!Expected
<1>5. k.approvals \in Seq(Asked)
  BY <1>1 DEF CallOK
<1>6. PICK j \in 1 .. Len(k.approvals) :
        /\ k.approvals[j] \in Asked
        /\ k.approvals[j].system = hop.system
        /\ k.approvals[j].address = hop.address
        /\ k.approvals[j].key = hop.seen
  BY <1>4, <1>5, ApprovalFound
<1>7. k.approvals[j] = [system |-> hop.system, address |-> hop.address, key |-> hop.seen]
  BY <1>6 DEF Asked
<1> QED
  BY <1>7 DEF Trust!ToSet

LEMMA TrustForgets == ASSUME TrustInv, [Trust!Next]_Trust!vars PROVE Trust!ForgetsOldKeys
<1> SUFFICES ASSUME NEW s \in Systems, row'[s].address # row[s].address
             PROVE  row'[s].key \in KeysOf[row'[s].address] \cup {None}
  BY DEF Trust!ForgetsOldKeys
<1>1. CASE Trust!Edit
  <2>1. PICK t \in Systems, config \in Trust!Config :
        /\ config.system = t
        /\ \E key \in {v.key : v \in Trust!TokensFor(config)} \cup {None} :
             row' = [row EXCEPT ![t] =
                       [address |-> config.address, verify |-> config.verify,
                        key |-> IF ~config.verify THEN None
                                ELSE IF key # None THEN key
                                ELSE IF config.address # row[t].address THEN None
                                ELSE row[t].key]]
    BY <1>1 DEF Trust!Edit
  <2>2. PICK key \in {v.key : v \in Trust!TokensFor(config)} \cup {None} :
             row' = [row EXCEPT ![t] =
                       [address |-> config.address, verify |-> config.verify,
                        key |-> IF ~config.verify THEN None
                                ELSE IF key # None THEN key
                                ELSE IF config.address # row[t].address THEN None
                                ELSE row[t].key]]
    BY <2>1
  <2>3. key \in KeysOf[config.address] \cup {None}
    BY TokenKeyReal
  <2> QED
    BY <2>2, <2>3 DEF TrustInv, KeysReal
<1>2. CASE Trust!Approve
  <2>1. row'[s] = row[s] \/ \E k : row'[s] = [row[s] EXCEPT !.key = k]
    BY <1>2 DEF Trust!Approve
  <2>2. row[s] \in Trust!Row
    BY DEF TrustInv, KeysReal
  <2> QED
    BY <2>1, <2>2 DEF Trust!Row
<1>3. CASE Trust!Revoke
  BY <1>3 DEF Trust!Revoke, TrustInv, KeysReal, Trust!Row
<1>4. CASE UNCHANGED row
  BY <1>4
<1>5. \A c \in Dials : Trust!ResolveChain(c) \/ Trust!HopConnects(c) \/ Trust!HopRefused(c)
                       \/ Trust!HopFails(c)
                       \/ Trust!ConnectRefuses(c) \/ Trust!ConnectSucceeds(c) \/ Trust!Disconnect(c)
                         => UNCHANGED row
  BY DEF Trust!ResolveChain, Trust!HopConnects, Trust!HopRefused, Trust!HopFails,
         Trust!ConnectRefuses, Trust!ConnectSucceeds,
         Trust!Disconnect
<1>6. Trust!Test \/ Trust!Operate \/ Trust!HostRekeys \/ Trust!TokenExpires \/ UNCHANGED Trust!vars
        => UNCHANGED row
  BY DEF Trust!Test, Trust!Operate, Trust!HostRekeys, Trust!TokenExpires, Trust!vars
<1> QED
  BY <1>1, <1>2, <1>3, <1>4, <1>5, <1>6 DEF Trust!Next

(* Every returned connection went over hosts whose keys were trusted or    *)
(* approved, and no row carries a key to another address.                  *)
THEOREM TrustCorrect ==
  ASSUME Trust!PathAssumption PROVE Trust!Spec => []Trust!VerifiedConnections
         /\ Trust!NewAddressKnowsNoOldKey
<1>1. Trust!Init => TrustInv
  BY TrustInit
<1>2. TrustInv /\ [Trust!Next]_Trust!vars => TrustInv'
  BY TrustStep
<1>3. TrustInv => Trust!VerifiedConnections
  BY TrustVerifies
<1>4. TrustInv /\ [Trust!Next]_Trust!vars => [Trust!ForgetsOldKeys]_Trust!vars
  BY TrustForgets
<1> QED
  BY <1>1, <1>2, <1>3, <1>4, PTL DEF Trust!Spec, Trust!NewAddressKnowsNoOldKey
================================================================================
