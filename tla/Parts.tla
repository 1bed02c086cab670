--------------------------------- MODULE Parts ---------------------------------
(***************************************************************************)
(* The parts of the dashboard that share no state that matters to another  *)
(* one: the registry of systems and credentials, the upgrade groups, the   *)
(* trust in host keys, what the checks of one system leave behind (facts,  *)
(* cached and hidden updates, history), jobs of the HTTP API, MQTT         *)
(* discovery, the Telegram bot (its channels and its updates), the live    *)
(* output, the scripts, the schedules, the migrations of a start, and the   *)
(* pages of the browser.  A behaviour goes through one of them: the parts  *)
(* add up instead of multiplying, and have the variables v1 to v14 in      *)
(* common.                                                                 *)
(***************************************************************************)
EXTENDS SystemRegistry, TLAPS

CONSTANTS Some, Single,   \* the systems of the parts named Sys and Srv below
          Groups, Ungrouped, Default, MinPosition,
          Path, HostAddresses, KeysOf, Dials, MaxTrustEdits, MaxRekeys, MaxTestTokens,
          MaxBoots,
          UpdateManagers, UpdateManagerOf, Held,
          Limits, MaxRows,
          Calls, SystemOf, KindOf, BotCalls, BotSystemOf, BotKindOf, Awaited, Results,
          MaxRestarts,
          Reconcilers, MaxRecords, MaxMqttEdits, MaxQueued,
          Bots, Chats, Requests, MaxApiTokens, MaxLinks, MaxBotEdits,
          MaxUpdates, MaxConfirmations, MaxWorkers,
          Watchers, MaxMessages, MaxResets, MaxBreaks,
          Managers, Builtin, Scopes, ManagerOf, Supplied, Detection, MaxScripts,
          Schedules, Channels, Copies, MaxChanges,
          SecretPlaces, OldChannels, OldCrons, MaxCrashes,
          Packages, Versions, FullUpgrade, PageSessions, MaxForeign, MaxWire,
          Routes, MaxMoves, ReportSteps,
          PageSystems, PageGroups, DialogSessions,
          PageSchedules, Names, Masked, NoText, NoAuth, Token, ChannelSessions,
          MaxListed, ScheduleSessions,
          Custom, MaxEdited, EditorSessions

VARIABLES part,         \* the part a behaviour goes through
          v1, v2, v3, v4, v5, v6, v7, v8, v9, v10, v11, v12, v13, v14

\* The variables from one on, and that a part does without them.
from14 == <<v14>>
from13 == <<v13, from14>>
from12 == <<v12, from13>>
from11 == <<v11, from12>>
from10 == <<v10, from11>>
from9 == <<v9, from10>>
from8 == <<v8, from9>>
from7 == <<v7, from8>>
from6 == <<v6, from7>>
from5 == <<v5, from6>>
from4 == <<v4, from5>>
from3 == <<v3, from4>>
from2 == <<v2, from3>>
slots == <<v1, from2>>

Without14 == v14 = Absent
Without13 == v13 = Absent /\ Without14
Without12 == v12 = Absent /\ Without13
Without11 == v11 = Absent /\ Without12
Without10 == v10 = Absent /\ Without11
Without9 == v9 = Absent /\ Without10
Without8 == v8 = Absent /\ Without9
Without7 == v7 = Absent /\ Without8
Without6 == v6 = Absent /\ Without7
Without5 == v5 = Absent /\ Without6
Without4 == v4 = Absent /\ Without5
Without3 == v3 = Absent /\ Without4
Without2 == v2 = Absent /\ Without3

--------------------------------------------------------------------------------
(* The registry. *)

LEMMA TypeInit == Init => TypeOK
BY DEF Init, TypeOK

(* What saving a system does, whichever of the two handlers saves it.      *)
LEMMA SavedRow ==
  ASSUME TypeOK, NEW s \in Systems, NEW a \in Addresses, NEW c \in Credentials,
         NEW h \in Systems \cup {Absent}, Save(s, a, c, h)
  PROVE  LET r == [address |-> a, cred |-> c, hop |-> h, login |-> credential[c].login] IN
         /\ r \in SystemRow /\ r # Absent
         /\ system' = [system EXCEPT ![s] = r]
         /\ credential' = credential
<1>1. credential[c] \in CredentialRow
  BY DEF Save, Usable, TypeOK
<1>2. credential[c].login \in Logins
  BY <1>1 DEF CredentialRow
<1>3. [address |-> a, cred |-> c, hop |-> h, login |-> credential[c].login] \in SystemRow
  BY <1>2 DEF SystemRow
<1> QED
  BY <1>3, RegistryAssumption DEF Save

LEMMA TypeStep == ASSUME TypeOK, [Next]_vars PROVE TypeOK'
<1>1. ASSUME NEW s \in Systems, NEW a \in Addresses, NEW c \in Credentials,
             NEW h \in Systems \cup {Absent}, Save(s, a, c, h)
      PROVE  TypeOK'
  BY <1>1, SavedRow DEF TypeOK
<1>2. CASE CreateSystem \/ UpdateSystem
  BY <1>1, <1>2 DEF CreateSystem, UpdateSystem, Saved
<1>3. CASE DeleteSystem
  BY <1>3 DEF DeleteSystem, TypeOK
<1>4. CASE CreateCredential
  BY <1>4 DEF CreateCredential, TypeOK, CredentialRow
<1>5. CASE UpdateCredential
  BY <1>5 DEF UpdateCredential, TypeOK, CredentialRow
<1>6. CASE DeleteCredential
  BY <1>6 DEF DeleteCredential, TypeOK
<1>7. CASE UNCHANGED vars
  BY <1>7 DEF vars, TypeOK
<1> QED
  BY <1>2, <1>3, <1>4, <1>5, <1>6, <1>7 DEF Next

(* Type correctness, whatever rows are created, edited and deleted.        *)
THEOREM TypeCorrect == Spec => []TypeOK
<1> QED
  BY TypeInit, TypeStep, PTL DEF Spec

(* The walk a save makes over the hops leaves a set of saved systems, the  *)
(* edited one not among them, that nothing in it hops out of.              *)
LEMMA WalkIsClosed ==
  ASSUME NEW among, NEW h, NEW n \in Nat \ {0}, ChainEnds(h, n, among)
  PROVE  \E W \in SUBSET among : /\ h \in W
                                 /\ \A t \in W : system[t].hop \in W \cup {Absent}
<1>1. PICK chain \in [1 .. n -> among] :
        /\ chain[1] = h
        /\ \A i \in 1 .. n : system[chain[i]].hop = IF i = n THEN Absent ELSE chain[i + 1]
  BY DEF ChainEnds
<1> DEFINE W == {chain[i] : i \in 1 .. n}
<1>2. W \in SUBSET among
  BY <1>1
<1>3. h \in W
  BY <1>1
<1>4. ASSUME NEW i \in 1 .. n PROVE system[chain[i]].hop \in W \cup {Absent}
  <2>1. CASE i = n
    BY <2>1, <1>1
  <2>2. CASE i # n
    <3>1. i + 1 \in 1 .. n
      BY <2>2
    <3> QED
      BY <2>2, <3>1, <1>1
  <2> QED
    BY <2>1, <2>2
<1>5. \A t \in W : system[t].hop \in W \cup {Absent}
  BY <1>4
<1> QED
  BY <1>2, <1>3, <1>5

LEMMA ValidHopIsSaved ==
  ASSUME NEW h, NEW s, ValidHop(h, s), h # Absent
  PROVE  \E W \in SUBSET (Saved \ {s}) : /\ h \in W
                                         /\ \A t \in W : system[t].hop \in W \cup {Absent}
<1>1. PICK n \in 1 .. MaxDepth : ChainEnds(h, n, Saved \ {s})
  BY DEF ValidHop
<1>2. n \in Nat \ {0}
  BY <1>1, RegistryAssumption
<1> QED
  BY <1>1, <1>2, WalkIsClosed

(* A save adds its row and leaves the others: what they refer to is there  *)
(* still, and its own hop and credential are among the saved ones.         *)
LEMMA SaveKeepsRegistry ==
  ASSUME TypeOK, RowsSound, NEW s \in Systems, NEW a \in Addresses,
         NEW c \in Credentials, NEW h \in Systems \cup {Absent}, Save(s, a, c, h)
  PROVE  RowsSound'
<1> DEFINE r == [address |-> a, cred |-> c, hop |-> h, login |-> credential[c].login]
<1>1. r # Absent /\ system' = [system EXCEPT ![s] = r] /\ credential' = credential
  BY SavedRow
<1>2. r.address = a /\ r.cred = c /\ r.hop = h /\ r.login = credential[c].login
  OBVIOUS
<1> HIDE DEF r
<1>3. system'[s] = r /\ \A t \in Systems \ {s} : system'[t] = system[t]
  BY <1>1 DEF TypeOK
<1>4. Saved' = Saved \cup {s}
  BY <1>1, <1>3 DEF Saved
<1>5. h \in Saved \cup {Absent}
  BY ValidHopIsSaved DEF Save
<1>6. credential[c] # Absent
  BY DEF Save, Usable
<1>7. ReferencesExist'
  BY <1>1, <1>2, <1>3, <1>4, <1>5, <1>6 DEF RowsSound, ReferencesExist, Saved
<1>8. AccountsUnique'
  <2>1. \A t \in Saved \ {s} :
          <<system[t].address, system[t].login, system[t].hop>> # <<a, credential[c].login, h>>
    BY DEF Save, Unique
  <2>2. \A t \in Saved \ {s} :
          <<system'[t].address, system'[t].login, system'[t].hop>> # <<r.address, r.login, r.hop>>
    BY <2>1, <1>2, <1>3 DEF Saved
  <2>3. \A t, u \in Saved \ {s} : t # u =>
          <<system'[t].address, system'[t].login, system'[t].hop>>
            # <<system'[u].address, system'[u].login, system'[u].hop>>
    BY <1>3 DEF RowsSound, AccountsUnique, Unique, Saved
  <2> QED
    BY <2>2, <2>3, <1>3, <1>4 DEF AccountsUnique, Unique
<1> QED
  BY <1>7, <1>8 DEF RowsSound

LEMMA RegistryStep == ASSUME TypeOK, RowsSound, [Next]_vars PROVE RowsSound'
<1>1. CASE CreateSystem \/ UpdateSystem
  BY <1>1, SaveKeepsRegistry DEF CreateSystem, UpdateSystem, Saved
<1>2. CASE DeleteSystem
  <2>1. PICK s \in Saved : /\ \A t \in Saved : system[t].hop # s
                           /\ system' = [system EXCEPT ![s] = Absent]
                           /\ credential' = credential
    BY <1>2 DEF DeleteSystem
  <2>2. Saved' = Saved \ {s} /\ \A t \in Saved \ {s} : system'[t] = system[t]
    BY <2>1 DEF Saved, TypeOK
  <2> QED
    BY <2>1, <2>2 DEF RowsSound, ReferencesExist, AccountsUnique, Unique
<1>3. CASE CreateCredential
  <2>1. PICK c \in Credentials, l \in Logins :
          /\ credential[c] = Absent
          /\ credential' = [credential EXCEPT ![c] = [login |-> l, secret |-> TRUE]]
          /\ system' = system
    BY <1>3 DEF CreateCredential
  <2>2. \A d \in Credentials : credential[d] # Absent => credential'[d] # Absent
    BY <2>1 DEF TypeOK
  <2>3. \A t \in Saved : system[t].cred \in Credentials
    BY DEF TypeOK, Saved, SystemRow
  <2> QED
    BY <2>1, <2>2, <2>3 DEF RowsSound, ReferencesExist, AccountsUnique, Unique, Saved
<1>4. CASE UpdateCredential
  <2>1. PICK c \in Credentials, l \in Logins, kept \in BOOLEAN :
          /\ credential[c] # Absent
          /\ credential' = [credential EXCEPT ![c] = [login |-> l, secret |-> kept]]
          /\ system' = system
    BY <1>4 DEF UpdateCredential
  <2>2. [login |-> l, secret |-> kept] # Absent
    BY RegistryAssumption DEF CredentialRow
  <2>3. \A d \in Credentials : credential[d] # Absent => credential'[d] # Absent
    BY <2>1, <2>2 DEF TypeOK
  <2>4. \A t \in Saved : system[t].cred \in Credentials
    BY DEF TypeOK, Saved, SystemRow
  <2> QED
    BY <2>1, <2>3, <2>4 DEF RowsSound, ReferencesExist, AccountsUnique, Unique, Saved
<1>5. CASE DeleteCredential
  <2>1. PICK c \in Credentials :
          /\ \A s \in Saved : system[s].cred # c
          /\ credential' = [credential EXCEPT ![c] = Absent]
          /\ system' = system
    BY <1>5 DEF DeleteCredential
  <2>2. \A t \in Saved : system[t].cred \in Credentials
    BY DEF TypeOK, Saved, SystemRow
  <2>3. \A d \in Credentials \ {c} : credential'[d] = credential[d]
    BY <2>1 DEF TypeOK
  <2> QED
    BY <2>1, <2>2, <2>3 DEF RowsSound, ReferencesExist, AccountsUnique, Unique, Saved
<1>6. CASE UNCHANGED vars
  BY <1>6 DEF vars, RowsSound, ReferencesExist, AccountsUnique, Unique, Saved
<1> QED
  BY <1>1, <1>2, <1>3, <1>4, <1>5, <1>6 DEF Next

LEMMA RowsCorrect == Spec => []RowsSound
<1>1. Init => RowsSound
  BY DEF Init, RowsSound, ReferencesExist, AccountsUnique, Saved
<1>2. TypeOK /\ RowsSound /\ [Next]_vars => RowsSound'
  BY RegistryStep
<1> QED
  BY <1>1, <1>2, TypeCorrect, PTL DEF Spec

(* Suppose the systems C of the new state all hop into C.  The edited one  *)
(* is among them, or they did before.  Then so is its new hop, and those   *)
(* of C that the walk of the save visited hopped into each other before.   *)
LEMMA SaveKeepsChains ==
  ASSUME TypeOK, NoHopCycle, NEW s \in Systems, NEW a \in Addresses,
         NEW c \in Credentials, NEW h \in Systems \cup {Absent}, Save(s, a, c, h)
  PROVE  NoHopCycle'
<1> DEFINE r == [address |-> a, cred |-> c, hop |-> h, login |-> credential[c].login]
<1>1. system' = [system EXCEPT ![s] = r]
  BY SavedRow
<1>2. r.hop = h
  OBVIOUS
<1> HIDE DEF r
<1>3. system'[s] = r /\ \A t \in Systems \ {s} : system'[t] = system[t]
  BY <1>1 DEF TypeOK
<1> SUFFICES ASSUME NEW C \in SUBSET (Saved'), C # {}, \A t \in C : system'[t].hop \in C
             PROVE  FALSE
  BY DEF NoHopCycle
<1>4. \A t \in C \ {s} : t \in Saved /\ system[t].hop = system'[t].hop
  BY <1>3 DEF Saved
<1>5. CASE s \notin C
  BY <1>4, <1>5 DEF NoHopCycle
<1>6. CASE s \in C
  <2>1. h \in C
    BY <1>2, <1>3, <1>6
  <2>2. h # Absent
    BY <2>1, RegistryAssumption DEF Saved
  <2>3. PICK W \in SUBSET (Saved \ {s}) : /\ h \in W
                                          /\ \A t \in W : system[t].hop \in W \cup {Absent}
    BY <2>2, ValidHopIsSaved DEF Save
  <2>4. \A t \in C \cap W : system[t].hop \in C \cap W
    BY <2>3, <1>4, RegistryAssumption DEF Saved
  <2>5. C \cap W \in SUBSET Saved /\ C \cap W # {}
    BY <2>1, <2>3
  <2> QED
    BY <2>4, <2>5 DEF NoHopCycle
<1> QED
  BY <1>5, <1>6

LEMMA ChainsStep == ASSUME TypeOK, NoHopCycle, [Next]_vars PROVE NoHopCycle'
<1>1. CASE CreateSystem \/ UpdateSystem
  BY <1>1, SaveKeepsChains DEF CreateSystem, UpdateSystem, Saved
<1>2. CASE DeleteSystem
  <2>1. PICK s \in Saved : system' = [system EXCEPT ![s] = Absent]
    BY <1>2 DEF DeleteSystem
  <2>2. Saved' \subseteq Saved /\ \A t \in Saved' : system'[t] = system[t]
    BY <2>1 DEF Saved, TypeOK
  <2> QED
    BY <2>2 DEF NoHopCycle
<1>3. CASE UNCHANGED system
  BY <1>3 DEF NoHopCycle, Saved
<1>4. CreateCredential \/ UpdateCredential \/ DeleteCredential \/ UNCHANGED vars
        => UNCHANGED system
  BY DEF CreateCredential, UpdateCredential, DeleteCredential, vars
<1> QED
  BY <1>1, <1>2, <1>3, <1>4 DEF Next

(* No sequence of edits closes a cycle of jumps, although each looks along *)
(* the chain of its own hop only.                                          *)
THEOREM ChainsCorrect == Spec => []NoHopCycle
<1>1. Init => NoHopCycle
  BY DEF Init, NoHopCycle, Saved
<1>2. TypeOK /\ NoHopCycle /\ [Next]_vars => NoHopCycle'
  BY ChainsStep
<1> QED
  BY <1>1, <1>2, TypeCorrect, PTL DEF Spec

(* Hops and credentials of saved systems exist, no two rows stand for the  *)
(* same account of the same host behind the same jump, and every chain of  *)
(* jumps ends.                                                             *)
THEOREM RegistryCorrect == Spec => []RegistrySound
  BY RowsCorrect, ChainsCorrect, PTL DEF RegistrySound

--------------------------------------------------------------------------------
(* The other parts. *)

Sys == INSTANCE SystemPartsProofs WITH
  Systems <- Some, None <- Absent, Addresses <- HostAddresses, MaxTokens <- MaxTestTokens,
  Managers <- UpdateManagers, ManagerOf <- UpdateManagerOf, Bot <- {},
  position <- v1, group <- v2,
  row <- v1, hostKey <- v2, challenges <- v3, validated <- v4, connect <- v5, edits <- v6,
  rekeys <- v7,
  host <- v1, fact <- v2, issue <- v3, reading <- v4,
  offered <- v1, cache <- v2, hidden <- v3, disabled <- v4, autoHide <- v5, installed <- v6,
  wish <- v7, check <- v8,
  rows <- v1, limit <- v2, running <- v3, queued <- v4, clock <- v5, checked <- v6,
  jobs <- v1, given <- v2, call <- v3, ended <- v4, latest <- v5, marks <- v6,
  answer <- v7, restarts <- v8,
  now <- v1, data <- v2, session <- v3, fetch <- v4, wire <- v5, phase <- v6, dialog <- v7,
  mark <- v8, selected <- v9, menu <- v10, requests <- v11, foreign <- v12, fresh <- v13,
  kind <- v3, live <- v4, initial <- v5, form <- v6, shown <- v7, token <- v8, review <- v9,
  test <- v10, revoking <- v11, warning <- v12, saved <- v13, moves <- v14,
  run <- v2, pc <- v3, cancelled <- v4, told <- v5, outcome <- v6

Srv == INSTANCE ServicePartsProofs WITH
  Systems <- Single, None <- Absent, MaxTokens <- MaxApiTokens,
  mqtt <- v1, visible <- v2, client <- v3, record <- v4, reconciler <- v5, retained <- v6,
  mqttEdits <- v7, overlap <- v8,
  saved <- v1, bot <- v2, tokens <- v3, issued <- v4, links <- v5, op <- v6, botEdits <- v7,
  overtaken <- v8, late <- v9,
  enabled <- v1, sync <- v2, current <- v3, worker <- v4, sent <- v5, acked <- v6,
  pending <- v7, created <- v8, handled <- v9, executed <- v10, cancelled <- v11,
  restarts <- v12,
  stream <- v1, buffer <- v2, subscribed <- v3, pipe <- v4, screen <- v5, cleared <- v6,
  published <- v7, resets <- v8, breaks <- v9,
  managers <- v1, script <- v2, lastScript <- v3, override <- v4, detected <- v5,
  disabled <- v6, search <- v7,
  schedule <- v1, last <- v2, systems <- v3, channels <- v4, timers <- v5, boot <- v6,
  outdated <- v7, runs <- v8, changes <- v9,
  saltFile <- v1, table <- v2, copy <- v3, login <- v4, credential <- v5, stored <- v6,
  settings <- v7, channel <- v8, digests <- v9, startPc <- v10, startTodo <- v11,
  startCrashes <- v12, promised <- v13, legacy <- v14,
  columns <- v1, row <- v2, mail <- v3, refreshes <- v4, markers <- v5, alerts <- v6,
  had <- v7, pc <- v8, todo <- v9, crashes <- v10, first <- v11,
  server <- v1, data <- v2, session <- v3, told <- v4, wire <- v5, form <- v6, tested <- v7

Lists == INSTANCE ListPagesProofs WITH
  Systems <- PageSystems, None <- Absent, Groups <- PageGroups,
  MaxScripts <- MaxEdited, MaxSchedules <- MaxListed,
  server <- v1, data <- v2, session <- v3, pending <- v4, wire <- v5, modal <- v6,
  dialog <- v7, drag <- v8, sent <- v9,
  told <- v4, asked <- v5, editor <- v6, title <- v8, copying <- v9, hit <- v10,
  form <- v6, list <- v8, armed <- v9

\* The same once more, for jobs with calls of the bot.
SysOfBot == INSTANCE SystemPartsProofs WITH
  Systems <- Some, None <- Absent, Addresses <- HostAddresses, MaxTokens <- MaxTestTokens,
  Managers <- UpdateManagers, ManagerOf <- UpdateManagerOf,
  Bot <- BotCalls, SystemOf <- BotSystemOf, KindOf <- BotKindOf,
  position <- v1, group <- v2,
  row <- v1, hostKey <- v2, challenges <- v3, validated <- v4, connect <- v5, edits <- v6,
  rekeys <- v7,
  host <- v1, fact <- v2, issue <- v3, reading <- v4,
  offered <- v1, cache <- v2, hidden <- v3, disabled <- v4, autoHide <- v5, installed <- v6,
  wish <- v7, check <- v8,
  rows <- v1, limit <- v2, running <- v3, queued <- v4, clock <- v5, checked <- v6,
  jobs <- v1, given <- v2, call <- v3, ended <- v4, latest <- v5, marks <- v6,
  answer <- v7, restarts <- v8,
  now <- v1, data <- v2, session <- v3, fetch <- v4, wire <- v5, phase <- v6, dialog <- v7,
  mark <- v8, selected <- v9, menu <- v10, requests <- v11, foreign <- v12, fresh <- v13,
  kind <- v3, live <- v4, initial <- v5, form <- v6, shown <- v7, token <- v8, review <- v9,
  test <- v10, revoking <- v11, warning <- v12, saved <- v13, moves <- v14,
  run <- v2, pc <- v3, cancelled <- v4, told <- v5, outcome <- v6

\* What the proofs about the parts need of the constants.
ASSUME PartsAssumption ==
  /\ Sys!Ordering!GroupsAssumption
  /\ Sys!Trust!PathAssumption
  /\ Sys!Facts!BootsAssumption
  /\ Sys!Polling!JobsAssumption /\ SysOfBot!Polling!JobsAssumption
  /\ Srv!Binding!BindingAssumption
  /\ Srv!Scripting!ScriptsAssumption
  /\ Srv!Planning!SchedulesAssumption
  /\ Srv!Starting!MigrationsAssumption
  /\ Sys!Page!PageAssumption /\ Sys!Form!FormAssumption /\ Lists!Dialog!DialogAssumption
  /\ ReportSteps \in Nat
  /\ Srv!Receiving!ChannelFormAssumption
  /\ Lists!Timing!SchedulePageAssumption
  /\ Lists!Editing!ScriptEditorAssumption

(***************************************************************************)
(* Each part: its beginning, its steps, and what it leaves alone.          *)
(***************************************************************************)
PartsInit ==
  /\ Init
  /\ \/ part = "registry" /\ v1 = Absent /\ Without2
     \/ part = "ordering" /\ Sys!Ordering!Init /\ Without3
     \/ part = "trust" /\ Sys!Trust!Init /\ Without8
     \/ part = "facts" /\ Sys!Facts!Init /\ Without5
     \/ part = "updates" /\ Sys!Updating!Init /\ Without9
     \/ part = "history" /\ Sys!Keeping!Init /\ Without7
     \/ part = "jobs" /\ Sys!Polling!Init /\ Without9
     \/ part = "bot" /\ SysOfBot!Polling!Init /\ Without9
     \/ part = "discovery" /\ Srv!Discovery!Init /\ Without9
     \/ part = "binding" /\ Srv!Binding!Init /\ Without10
     \/ part = "commands" /\ Srv!Commands!Init /\ Without13
     \/ part = "output" /\ Srv!Output!Init /\ Without10
     \/ part = "scripts" /\ Srv!Scripting!Init /\ Without8
     \/ part = "schedules" /\ Srv!Planning!Init /\ Without10
     \/ part = "start" /\ Srv!Starting!Init
     \/ part = "schema" /\ Srv!Migrating!Init /\ Without12
     \/ part = "system page" /\ Sys!Page!Init /\ Without14
     \/ part = "system form" /\ Sys!Form!Init
     \/ part = "upgrade dialog" /\ Lists!Dialog!Init /\ Without10
     \/ part = "reports" /\ Sys!Reporting!Init /\ Without7
     \/ part = "channel form" /\ Srv!Receiving!Init /\ Without8
     \/ part = "schedule page" /\ Lists!Timing!Init /\ Without10
     \/ part = "script editor" /\ Lists!Editing!Init /\ Without11

PartsNext ==
  \/ part = "registry" /\ Next /\ UNCHANGED <<part, slots>>
  \/ /\ UNCHANGED <<part, vars>>
     /\ \/ part = "ordering" /\ Sys!Ordering!Next /\ UNCHANGED from3
        \/ part = "trust" /\ Sys!Trust!Next /\ UNCHANGED from8
        \/ part = "facts" /\ Sys!Facts!Next /\ UNCHANGED from5
        \/ part = "updates" /\ Sys!Updating!Next /\ UNCHANGED from9
        \/ part = "history" /\ Sys!Keeping!Next /\ UNCHANGED from7
        \/ part = "jobs" /\ Sys!Polling!Next /\ UNCHANGED from9
        \/ part = "bot" /\ SysOfBot!Polling!Next /\ UNCHANGED from9
        \/ part = "discovery" /\ Srv!Discovery!Next /\ UNCHANGED from9
        \/ part = "binding" /\ Srv!Binding!Next /\ UNCHANGED from10
        \/ part = "commands" /\ Srv!Commands!Next /\ UNCHANGED from13
        \/ part = "output" /\ Srv!Output!Next /\ UNCHANGED from10
        \/ part = "scripts" /\ Srv!Scripting!Next /\ UNCHANGED from8
        \/ part = "schedules" /\ Srv!Planning!Next /\ UNCHANGED from10
        \/ part = "start" /\ Srv!Starting!Next
        \/ part = "schema" /\ Srv!Migrating!Next /\ UNCHANGED from12
        \/ part = "system page" /\ Sys!Page!Next /\ UNCHANGED from14
        \/ part = "system form" /\ Sys!Form!Next
        \/ part = "upgrade dialog" /\ Lists!Dialog!Next /\ UNCHANGED from10
        \/ part = "reports" /\ Sys!Reporting!Next /\ UNCHANGED from7
        \/ part = "channel form" /\ Srv!Receiving!Next /\ UNCHANGED from8
        \/ part = "schedule page" /\ Lists!Timing!Next /\ UNCHANGED from10
        \/ part = "script editor" /\ Lists!Editing!Next /\ UNCHANGED from11

PartsSpec == PartsInit /\ [][PartsNext]_<<part, vars, slots>>

\* See UpgradeGroups: members and positions.
GroupsSound == part = "ordering" => Sys!Ordering!GroupsSound
\* See HostTrust: what a returned connection went over.
VerifiedConnections == part = "trust" => Sys!Trust!VerifiedConnections
\* See HostTrust: keys do not follow a row to another address.
NewAddressKnowsNoOldKey == [][part = "trust" => Sys!Trust!ForgetsOldKeys]_slots
KeyOfItsHost == part = "trust" => Sys!Trust!KeyOfItsHost
\* See SystemFacts: a dismissal holds for one boot.
DismissalOfThisBoot == part = "facts" => Sys!Facts!DismissalOfThisBoot
DismissalsLast == [][part = "facts" => Sys!Facts!StaysDismissed]_slots
\* See UpdateCache: what is hidden from the counts.
HiddenSound == part = "updates" => Sys!Updating!HiddenSound
CacheOfEnabledManagers == part = "updates" => Sys!Updating!CacheOfEnabledManagers
\* See History: the latest check.
LatestCheckKept == part = "history" => Sys!Keeping!LatestCheckKept
ShownCheckKept == part = "history" => Sys!Keeping!ShownCheckKept
QueuedRowKept == part = "history" => Sys!Keeping!QueuedRowKept
\* See MqttRuntime: the channel at rest, its client and what it published.
SettledMatchesRow == part = "discovery" => Srv!Discovery!SettledMatchesRow
SettledPublished == part = "discovery" => Srv!Discovery!SettledPublished
SettledClient == part = "discovery" => Srv!Discovery!SettledClient
NoTopicLeft == part = "discovery" => Srv!Discovery!NoTopicLeft
SettledTopicsThere == part = "discovery" => Srv!Discovery!SettledTopicsThere
\* See TelegramChannel: the token commands run with.
CommandTokenValid == part = "binding" => Srv!Binding!CommandTokenValid
StoredTokenValid == part = "binding" => Srv!Binding!StoredTokenValid
NoTokenLeft == part = "binding" => Srv!Binding!NoTokenLeft
BoundStays == [][part = "binding" => Srv!Binding!KeepsChat]_slots
\* See TelegramUpdates: redelivered confirmations, acknowledged updates.
UpdatesSound == part = "commands" => Srv!Commands!UpdatesSound
WorkerOfEnabled == part = "commands" => Srv!Commands!WorkerOfEnabled
\* See LiveOutput: nothing of the operation is missing from a page.
ShowsWholeOperation == part = "output" => Srv!Output!ShowsWholeOperation
ShowsOnlyOperation == part = "output" => Srv!Output!ShowsOnlyOperation
\* See Scripts: overrides, defaults, and what a deletion leaves.
ScriptsSound == part = "scripts" => Srv!Scripting!ScriptsSound
UsedScriptsStay == [][part = "scripts" => Srv!Scripting!SparesUsed]_slots
EveryUsedScriptStays == [][part = "scripts" => Srv!Scripting!SparesEveryUsed]_slots
DetectedKnown == part = "scripts" => Srv!Scripting!DetectedKnown
\* See Jobs: results are those of the operation that was asked for.
ToldOfOwnJob ==
  /\ part = "jobs" => Sys!Polling!ToldOfOwnJob
  /\ part = "bot" => SysOfBot!Polling!ToldOfOwnJob
ErrorsAreReal == part = "jobs" => Sys!Polling!ErrorsAreReal
UnknownAfterRestart == part = "jobs" => Sys!Polling!UnknownAfterRestart
MarkedUntilOver == part = "jobs" => Sys!Polling!MarkedUntilOver
\* See StartupMigrations: credentials and channels of an older version.
CredentialsKept == part = "start" => Srv!Starting!CredentialsKept
ChannelsKept == [][part = "start" => Srv!Starting!BecomesRow]_slots
\* See Schedules: timers, runs and channels.
SchedulesSound == part = "schedules" => Srv!Planning!SchedulesSound
\* See StartupMigrations (secrets and digests of an older version) and
\* SchemaMigrations (what it had set and sent).
MigrationsSound ==
  /\ part = "start" => Srv!Starting!MigrationsSound
  /\ part = "schema" => Srv!Migrating!SchemaSound
\* See SystemPage (what is selected, disabled and closed), SystemForm (what is tested,
\* reviewed and saved), UpgradeDialog (what is shown, saved and queued), OperationReports
\* (what is told of the end of an operation), ChannelForm (what a save leaves as it was),
\* SchedulePage (what is stored of schedules and their order) and ScriptEditor (what is
\* stored of a script).
PagesHold ==
  /\ part = "system page" => Sys!Page!SystemPageSound
  /\ part = "system form" => Sys!Form!SystemFormSound
  /\ part = "upgrade dialog" => Lists!Dialog!UpgradeDialogSound
  /\ part = "reports" => Sys!Reporting!ReportsSound
  /\ part = "channel form" => Srv!Receiving!ChannelFormSound
  /\ part = "schedule page" => Lists!Timing!SchedulePageSound
  /\ part = "script editor" => Lists!Editing!ScriptEditorSound

-------------------------------------------------------------------------------
(* A behaviour begins in one part, and every step is one of that part.     *)
LEMMA PartBegins ==
  ASSUME PartsInit
  PROVE  /\ Init
         /\ part = "ordering" => Sys!Ordering!Init
         /\ part = "trust" => Sys!Trust!Init
         /\ part = "facts" => Sys!Facts!Init
         /\ part = "updates" => Sys!Updating!Init
         /\ part = "history" => Sys!Keeping!Init
         /\ part = "jobs" => Sys!Polling!Init
         /\ part = "bot" => SysOfBot!Polling!Init
         /\ part = "discovery" => Srv!Discovery!Init
         /\ part = "binding" => Srv!Binding!Init
         /\ part = "commands" => Srv!Commands!Init
         /\ part = "output" => Srv!Output!Init
         /\ part = "scripts" => Srv!Scripting!Init
         /\ part = "schedules" => Srv!Planning!Init
         /\ part = "start" => Srv!Starting!Init
         /\ part = "schema" => Srv!Migrating!Init
         /\ part = "system page" => Sys!Page!Init
         /\ part = "system form" => Sys!Form!Init
         /\ part = "upgrade dialog" => Lists!Dialog!Init
         /\ part = "reports" => Sys!Reporting!Init
         /\ part = "channel form" => Srv!Receiving!Init
         /\ part = "schedule page" => Lists!Timing!Init
         /\ part = "script editor" => Lists!Editing!Init
BY DEF PartsInit

LEMMA PartSteps ==
  ASSUME [PartsNext]_<<part, vars, slots>>
  PROVE  /\ part' = part
         /\ [Next]_vars
         /\ part = "ordering" => [Sys!Ordering!Next]_Sys!Ordering!vars
         /\ part = "trust" => [Sys!Trust!Next]_Sys!Trust!vars
         /\ part = "facts" => [Sys!Facts!Next]_Sys!Facts!vars
         /\ part = "updates" => [Sys!Updating!Next]_Sys!Updating!vars
         /\ part = "history" => [Sys!Keeping!Next]_Sys!Keeping!vars
         /\ part = "jobs" => [Sys!Polling!Next]_Sys!Polling!vars
         /\ part = "bot" => [SysOfBot!Polling!Next]_SysOfBot!Polling!vars
         /\ part = "discovery" => [Srv!Discovery!Next]_Srv!Discovery!vars
         /\ part = "binding" => [Srv!Binding!Next]_Srv!Binding!vars
         /\ part = "commands" => [Srv!Commands!Next]_Srv!Commands!vars
         /\ part = "output" => [Srv!Output!Next]_Srv!Output!vars
         /\ part = "scripts" => [Srv!Scripting!Next]_Srv!Scripting!vars
         /\ part = "schedules" => [Srv!Planning!Next]_Srv!Planning!vars
         /\ part = "start" => [Srv!Starting!Next]_Srv!Starting!vars
         /\ part = "schema" => [Srv!Migrating!Next]_Srv!Migrating!vars
         /\ part = "system page" => [Sys!Page!Next]_Sys!Page!vars
         /\ part = "system form" => [Sys!Form!Next]_Sys!Form!vars
         /\ part = "upgrade dialog" => [Lists!Dialog!Next]_Lists!Dialog!vars
         /\ part = "reports" => [Sys!Reporting!Next]_Sys!Reporting!vars
         /\ part = "channel form" => [Srv!Receiving!Next]_Srv!Receiving!vars
         /\ part = "schedule page" => [Lists!Timing!Next]_Lists!Timing!vars
         /\ part = "script editor" => [Lists!Editing!Next]_Lists!Editing!vars
<1>1. CASE PartsNext
  BY <1>1 DEF PartsNext
<1>2. CASE UNCHANGED <<part, vars, slots>>
  <2>1. UNCHANGED <<v1, v2, v3, v4, v5, v6, v7, v8, v9, v10, v11, v12, v13, v14>>
    BY <1>2 DEF slots, from2, from3, from4, from5, from6, from7, from8, from9, from10,
       from11, from12, from13, from14
  <2> QED
    BY <1>2, <2>1 DEF Sys!Ordering!vars, Sys!Trust!vars, Sys!Facts!vars, Sys!Updating!vars,
       Sys!Keeping!vars, Sys!Polling!vars, SysOfBot!Polling!vars, Srv!Discovery!vars,
       Srv!Binding!vars, Srv!Commands!vars, Srv!Output!vars, Srv!Scripting!vars,
       Srv!Planning!vars, Srv!Starting!vars, Srv!Migrating!vars,
       Srv!Migrating!database,
       Sys!Page!vars, Sys!Page!page, Sys!Form!vars, Sys!Form!fields, Lists!Dialog!vars,
       Lists!Dialog!page, Sys!Reporting!vars, Srv!Receiving!vars, Lists!Timing!vars,
       Lists!Editing!vars
<1> QED
  BY <1>1, <1>2

(* Hops and credentials exist and chains of jumps end (SystemRegistry), in *)
(* the whole of which the registry is a part.                              *)
THEOREM RegistryAlwaysSound == PartsSpec => []RegistrySound
<1>1. PartsSpec => Spec
  BY PartBegins, PartSteps, PTL DEF PartsSpec, Spec
<1> QED
  BY <1>1, RegistryCorrect

(* Every system's group exists and no two groups share a position          *)
(* (UpgradeGroups), in the whole of which the groups are a part.           *)
THEOREM GroupsAlwaysSound == PartsSpec => []GroupsSound
<1> DEFINE Inv == part = "ordering" => Sys!Ordering!TypeOK /\ Sys!Ordering!GroupsSound
<1>1. PartsInit => Inv
  BY PartBegins, PartsAssumption, Sys!GroupsInit
<1>2. Inv /\ [PartsNext]_<<part, vars, slots>> => Inv'
  BY PartSteps, PartsAssumption, Sys!GroupsStep
<1>3. Inv => GroupsSound
  BY DEF GroupsSound
<1> QED
  BY <1>1, <1>2, <1>3, PTL DEF PartsSpec

(* A dismissed reboot warning holds for the boot it was dismissed in       *)
(* (SystemFacts).                                                          *)
THEOREM DismissalAlwaysOfThisBoot == PartsSpec => []DismissalOfThisBoot
<1> DEFINE Inv == part = "facts" => Sys!Facts!TypeOK /\ Sys!Facts!DismissalOfThisBoot
<1>1. PartsInit => Inv
  BY PartBegins, PartsAssumption, Sys!FactsTypeInit, Sys!DismissalInit
<1>2. Inv /\ [PartsNext]_<<part, vars, slots>> => Inv'
  BY PartSteps, PartsAssumption, Sys!FactsTypeStep, Sys!DismissalStep
<1>3. Inv => DismissalOfThisBoot
  BY DEF DismissalOfThisBoot
<1> QED
  BY <1>1, <1>2, <1>3, PTL DEF PartsSpec

(* Connections that were returned went over verified hosts, and no row     *)
(* carries a key to another address (HostTrust).                           *)
LEMMA TrustAlways == PartsSpec => [](part = "trust" => Sys!TrustInv)
<1> DEFINE Inv == part = "trust" => Sys!TrustInv
<1>1. PartsInit => Inv
  BY PartBegins, Sys!TrustInit
<1>2. Inv /\ [PartsNext]_<<part, vars, slots>> => Inv'
  BY PartSteps, PartsAssumption, Sys!TrustStep
<1> QED
  BY <1>1, <1>2, PTL DEF PartsSpec

THEOREM ConnectionsAlwaysVerified == PartsSpec => []VerifiedConnections
<1>1. (part = "trust" => Sys!TrustInv) => VerifiedConnections
  BY Sys!TrustVerifies DEF VerifiedConnections
<1> QED
  BY <1>1, TrustAlways, PTL

THEOREM OldKeysForgotten == PartsSpec => NewAddressKnowsNoOldKey
<1>1. (part = "trust" => Sys!TrustInv) /\ [PartsNext]_<<part, vars, slots>>
        => [part = "trust" => Sys!Trust!ForgetsOldKeys]_slots
  BY PartSteps, Sys!TrustForgets
<1> QED
  BY <1>1, TrustAlways, PTL DEF PartsSpec, NewAddressKnowsNoOldKey

(* What is hidden from the counts was hidden by the operator, or is kept   *)
(* back (UpdateCache).                                                     *)
THEOREM HiddenAlwaysSound == PartsSpec => []HiddenSound
<1> DEFINE Inv == part = "updates" => Sys!UpdatesInv
<1>1. PartsInit => Inv
  BY PartBegins, Sys!UpdatesInit
<1>2. Inv /\ [PartsNext]_<<part, vars, slots>> => Inv'
  BY PartSteps, Sys!UpdatesStep
<1>3. Inv => HiddenSound
  BY Sys!UpdatesHold DEF HiddenSound
<1> QED
  BY <1>1, <1>2, <1>3, PTL DEF PartsSpec

(* A caller of the HTTP API, a tab or the bot, is told the result of the   *)
(* operation it asked for (Jobs).                                          *)
LEMMA TabsTold == PartsSpec => [](part = "jobs" => Sys!Polling!ToldOfOwnJob)
<1> DEFINE Inv == part = "jobs" => Sys!JobsInv
<1>1. PartsInit => Inv
  BY PartBegins, PartsAssumption, Sys!JobsInit
<1>2. Inv /\ [PartsNext]_<<part, vars, slots>> => Inv'
  BY PartSteps, PartsAssumption, Sys!JobsStep
<1>3. Inv => (part = "jobs" => Sys!Polling!ToldOfOwnJob)
  BY Sys!JobsTell
<1> QED
  BY <1>1, <1>2, <1>3, PTL DEF PartsSpec

LEMMA BotTold == PartsSpec => [](part = "bot" => SysOfBot!Polling!ToldOfOwnJob)
<1> DEFINE Inv == part = "bot" => SysOfBot!JobsInv
<1>1. PartsInit => Inv
  BY PartBegins, PartsAssumption, SysOfBot!JobsInit
<1>2. Inv /\ [PartsNext]_<<part, vars, slots>> => Inv'
  BY PartSteps, PartsAssumption, SysOfBot!JobsStep
<1>3. Inv => (part = "bot" => SysOfBot!Polling!ToldOfOwnJob)
  BY SysOfBot!JobsTell
<1> QED
  BY <1>1, <1>2, <1>3, PTL DEF PartsSpec

THEOREM AlwaysToldOfOwnJob == PartsSpec => []ToldOfOwnJob
BY TabsTold, BotTold, PTL DEF ToldOfOwnJob

(* However its reconciliations, edits, syncs and connections interleave,   *)
(* an MQTT channel at rest has no client when it is not to run, and one    *)
(* that is connected knows as published what Home Assistant is to see,     *)
(* unless its last subscription was refused; after an edit that met no     *)
(* reconciliation in progress it has the client its row asks for           *)
(* (MqttRuntime).                                                          *)
THEOREM AlwaysSettlesOnRow == PartsSpec => []SettledMatchesRow
<1> DEFINE Inv == part = "discovery" => Srv!DiscoveryInv
<1>1. PartsInit => Inv
  BY PartBegins, Srv!DiscoveryInit
<1>2. Inv /\ [PartsNext]_<<part, vars, slots>> => Inv'
  BY PartSteps, Srv!DiscoveryStep
<1>3. Inv => SettledMatchesRow
  BY Srv!DiscoverySettles DEF SettledMatchesRow
<1> QED
  BY <1>1, <1>2, <1>3, PTL DEF PartsSpec

(* Commands of a bound chat run with a token that is valid, whatever the   *)
(* requests and the workers do, but for a token that a request brings back *)
(* which another one overtook while it asked for the name of the bot       *)
(* (TelegramChannel).                                                      *)
THEOREM CommandTokenAlwaysValid == PartsSpec => []CommandTokenValid
<1> DEFINE Inv == part = "binding" => Srv!BindingInv
<1>1. PartsInit => Inv
  BY PartBegins, PartsAssumption, Srv!BindingInit
<1>2. Inv /\ [PartsNext]_<<part, vars, slots>> => Inv'
  BY PartSteps, PartsAssumption, Srv!BindingStep
<1>3. Inv => CommandTokenValid
  BY Srv!BindingHolds DEF CommandTokenValid
<1> QED
  BY <1>1, <1>2, <1>3, PTL DEF PartsSpec

(* A confirmed command starts at most once, and Telegram forgets no update *)
(* that was not handled (TelegramUpdates).                                 *)
THEOREM UpdatesAlwaysSound == PartsSpec => []UpdatesSound
<1> DEFINE Inv == part = "commands" => Srv!CommandsInv
<1>1. PartsInit => Inv
  BY PartBegins, Srv!CommandsInit
<1>2. Inv /\ [PartsNext]_<<part, vars, slots>> => Inv'
  BY PartSteps, Srv!CommandsStep
<1>3. Inv => UpdatesSound
  BY Srv!CommandsHold DEF UpdatesSound
<1> QED
  BY <1>1, <1>2, <1>3, PTL DEF PartsSpec

(* The last check that was over stays in the history of its system, with  *)
(* whatever retention prunes of the other rows (History).                  *)
THEOREM LatestCheckAlwaysKept == PartsSpec => []LatestCheckKept
<1> DEFINE Inv == part = "history" => Sys!HistoryInv
<1>1. PartsInit => Inv
  BY PartBegins, Sys!HistoryInit
<1>2. Inv /\ [PartsNext]_<<part, vars, slots>> => Inv'
  BY PartSteps, Sys!HistoryStep
<1>3. Inv => LatestCheckKept
  BY Sys!HistoryKeeps DEF LatestCheckKept
<1> QED
  BY <1>1, <1>2, <1>3, PTL DEF PartsSpec

(* A connected page ends up with the whole output of the operation         *)
(* (LiveOutput).                                                           *)
THEOREM WholeOperationAlwaysShown == PartsSpec => []ShowsWholeOperation
<1> DEFINE Inv == part = "output" => Srv!OutputInv
<1>1. PartsInit => Inv
  BY PartBegins, Srv!OutputInit
<1>2. Inv /\ [PartsNext]_<<part, vars, slots>> => Inv'
  BY PartSteps, Srv!OutputStep
<1>3. Inv => ShowsWholeOperation
  BY Srv!OutputShows DEF ShowsWholeOperation
<1> QED
  BY <1>1, <1>2, <1>3, PTL DEF PartsSpec

(* The invariant of the scripts, which both theorems about them use.       *)
LEMMA ScriptsAlways == PartsSpec => [](part = "scripts" => Srv!ScriptsInv)
<1> DEFINE Inv == part = "scripts" => Srv!ScriptsInv
<1>1. PartsInit => Inv
  BY PartBegins, PartsAssumption, Srv!ScriptsInit
<1>2. Inv /\ [PartsNext]_<<part, vars, slots>> => Inv'
  BY PartSteps, PartsAssumption, Srv!ScriptsStep
<1> QED
  BY <1>1, <1>2, PTL DEF PartsSpec

(* Each operation has at most one default script, and overrides are of     *)
(* scripts that exist (Scripts).                                           *)
THEOREM ScriptsAlwaysSound == PartsSpec => []ScriptsSound
<1>1. (part = "scripts" => Srv!ScriptsInv) => ScriptsSound
  BY Srv!ScriptsAreSound DEF ScriptsSound
<1> QED
  BY <1>1, ScriptsAlways, PTL

(* A script that a system relies on is not deleted, but for the two ways   *)
(* that Scripts names.                                                     *)
THEOREM UsedScriptsAlwaysStay == PartsSpec => UsedScriptsStay
<1>1. (part = "scripts" => Srv!ScriptsInv) /\ [PartsNext]_<<part, vars, slots>>
        => [part = "scripts" => Srv!Scripting!SparesUsed]_slots
  BY PartSteps, PartsAssumption, Srv!ScriptsSpare
<1> QED
  BY <1>1, ScriptsAlways, PTL DEF PartsSpec, UsedScriptsStay

(* Timers, runs and channels agree with the stored schedules (Schedules).  *)
THEOREM SchedulesAlwaysSound == PartsSpec => []SchedulesSound
<1> DEFINE Inv == part = "schedules" => Srv!SchedulesInv
<1>1. PartsInit => Inv
  BY PartBegins, PartsAssumption, Srv!SchedulesInit
<1>2. Inv /\ [PartsNext]_<<part, vars, slots>> => Inv'
  BY PartSteps, PartsAssumption, Srv!SchedulesStep
<1>3. Inv => SchedulesSound
  BY Srv!SchedulesHold DEF SchedulesSound
<1> QED
  BY <1>1, <1>2, <1>3, PTL DEF PartsSpec
\* The migrations of a start (StartupMigrations) and of the schema (SchemaMigrations).
LEMMA StartKept == PartsSpec => [](part = "start" => Srv!Starting!MigrationsSound)
<1> DEFINE Inv == part = "start" => Srv!MigrationsInv
<1>1. PartsInit => Inv
  BY PartBegins, PartsAssumption, Srv!MigrationsInit
<1>2. Inv /\ [PartsNext]_<<part, vars, slots>> => Inv'
  BY PartSteps, PartsAssumption, Srv!MigrationsStep
<1>3. Inv => (part = "start" => Srv!Starting!MigrationsSound)
  BY Srv!MigrationsHold
<1> QED
  BY <1>1, <1>2, <1>3, PTL DEF PartsSpec

LEMMA SchemaKept == PartsSpec => [](part = "schema" => Srv!Migrating!SchemaSound)
<1> DEFINE Inv == part = "schema" => Srv!SchemaInv
<1>1. PartsInit => Inv
  BY PartBegins, Srv!SchemaInit
<1>2. Inv /\ [PartsNext]_<<part, vars, slots>> => Inv'
  BY PartSteps, Srv!SchemaStep
<1>3. Inv => (part = "schema" => Srv!Migrating!SchemaSound)
  BY Srv!SchemaHolds
<1> QED
  BY <1>1, <1>2, <1>3, PTL DEF PartsSpec

(* However often a start dies: digests serve the channels they served, the *)
(* schema's rows are set and sent as before, and each secret is encrypted  *)
(* once, under the salt in use, but for the credentials made of logins     *)
(* under the old salt, which the program loses.                            *)
THEOREM MigrationsAlwaysSound == PartsSpec => []MigrationsSound
BY StartKept, SchemaKept, PTL DEF MigrationsSound

(* What is selected, disabled and closed on the page of a system           *)
(* (SystemPage).                                                           *)
LEMMA SystemPageHolds == PartsSpec => [](part = "system page" => Sys!Page!SystemPageSound)
<1> DEFINE Inv == part = "system page" => Sys!PageInv
<1>1. PartsInit => Inv
  BY PartBegins, PartsAssumption, Sys!PageInit
<1>2. Inv /\ [PartsNext]_<<part, vars, slots>> => Inv'
  BY PartSteps, PartsAssumption, Sys!PageStep
<1>3. Inv => (part = "system page" => Sys!Page!SystemPageSound)
  BY PartsAssumption, Sys!PageHolds
<1> QED
  BY <1>1, <1>2, <1>3, PTL DEF PartsSpec

(* What the form of a system tests, reviews and saves (SystemForm).        *)
LEMMA SystemFormHolds == PartsSpec => [](part = "system form" => Sys!Form!SystemFormSound)
<1> DEFINE Inv == part = "system form" => Sys!FormInv
<1>1. PartsInit => Inv
  BY PartBegins, PartsAssumption, Sys!FormInit
<1>2. Inv /\ [PartsNext]_<<part, vars, slots>> => Inv'
  BY PartSteps, PartsAssumption, Sys!FormStep
<1>3. Inv => (part = "system form" => Sys!Form!SystemFormSound)
  BY PartsAssumption, Sys!FormHolds
<1> QED
  BY <1>1, <1>2, <1>3, PTL DEF PartsSpec

(* What the dialog of Upgrade All shows, saves and queues (UpgradeDialog). *)
LEMMA UpgradeDialogHolds == PartsSpec => [](part = "upgrade dialog" => Lists!Dialog!UpgradeDialogSound)
<1> DEFINE Inv == part = "upgrade dialog" => Lists!DialogInv
<1>1. PartsInit => Inv
  BY PartBegins, PartsAssumption, Lists!DialogInit
<1>2. Inv /\ [PartsNext]_<<part, vars, slots>> => Inv'
  BY PartSteps, PartsAssumption, Lists!DialogStep
<1>3. Inv => (part = "upgrade dialog" => Lists!Dialog!UpgradeDialogSound)
  BY PartsAssumption, Lists!DialogHolds
<1> QED
  BY <1>1, <1>2, <1>3, PTL DEF PartsSpec

(* What is told of the end of an operation (OperationReports).             *)
LEMMA ReportsHold == PartsSpec => [](part = "reports" => Sys!Reporting!ReportsSound)
<1> DEFINE Inv == part = "reports" => Sys!ReportsInv
<1>1. PartsInit => Inv
  BY PartBegins, PartsAssumption, Sys!ReportsInit
<1>2. Inv /\ [PartsNext]_<<part, vars, slots>> => Inv'
  BY PartSteps, PartsAssumption, Sys!ReportsStep
<1>3. Inv => (part = "reports" => Sys!Reporting!ReportsSound)
  BY DEF Sys!ReportsInv
<1> QED
  BY <1>1, <1>2, <1>3, PTL DEF PartsSpec

(* What a save of the form of a channel leaves as it was (ChannelForm).    *)
LEMMA ChannelFormHolds == PartsSpec => [](part = "channel form" => Srv!Receiving!ChannelFormSound)
<1> DEFINE Inv == part = "channel form" => Srv!ChannelInv
<1>1. PartsInit => Inv
  BY PartBegins, PartsAssumption, Srv!ChannelInit
<1>2. Inv /\ [PartsNext]_<<part, vars, slots>> => Inv'
  BY PartSteps, PartsAssumption, Srv!ChannelStep
<1>3. Inv => (part = "channel form" => Srv!Receiving!ChannelFormSound)
  BY PartsAssumption, Srv!ChannelHolds
<1> QED
  BY <1>1, <1>2, <1>3, PTL DEF PartsSpec

(* What is stored of schedules and of their order (SchedulePage).          *)
LEMMA SchedulePageHolds == PartsSpec => [](part = "schedule page" => Lists!Timing!SchedulePageSound)
<1> DEFINE Inv == part = "schedule page" => Lists!TimingInv
<1>1. PartsInit => Inv
  BY PartBegins, PartsAssumption, Lists!TimingInit
<1>2. Inv /\ [PartsNext]_<<part, vars, slots>> => Inv'
  BY PartSteps, PartsAssumption, Lists!TimingStep
<1>3. Inv => (part = "schedule page" => Lists!Timing!SchedulePageSound)
  BY PartsAssumption, Lists!TimingHolds
<1> QED
  BY <1>1, <1>2, <1>3, PTL DEF PartsSpec

(* What is stored of a script (ScriptEditor).                              *)
LEMMA ScriptEditorHolds == PartsSpec => [](part = "script editor" => Lists!Editing!ScriptEditorSound)
<1> DEFINE Inv == part = "script editor" => Lists!EditorInv
<1>1. PartsInit => Inv
  BY PartBegins, PartsAssumption, Lists!EditorInit
<1>2. Inv /\ [PartsNext]_<<part, vars, slots>> => Inv'
  BY PartSteps, PartsAssumption, Lists!EditorStep
<1>3. Inv => (part = "script editor" => Lists!Editing!ScriptEditorSound)
  BY PartsAssumption, Lists!EditorHolds
<1> QED
  BY <1>1, <1>2, <1>3, PTL DEF PartsSpec

(* The pages of the browser say and do what they are for, whatever their   *)
(* requests meet on the server.                                            *)
THEOREM PagesAlwaysHold == PartsSpec => []PagesHold
BY SystemPageHolds, SystemFormHolds, UpgradeDialogHolds, ReportsHold, ChannelFormHolds,
   SchedulePageHolds, ScriptEditorHolds, PTL DEF PagesHold
================================================================================
