---------------------------- MODULE SystemRegistry ----------------------------
(***************************************************************************)
(* The rows an operator edits before anything is connected to: systems,    *)
(* each reached directly or through another system (ProxyJump), and the    *)
(* credentials they log in with (services/system-service.ts,               *)
(* services/credential-service.ts and their routes).  Every handler runs   *)
(* to its end without an await once its body is read, so each is one step. *)
(***************************************************************************)
EXTENDS Integers

CONSTANTS Systems, Credentials,
          Addresses,    \* hostname and port of a system
          Logins,       \* user names
          MaxDepth,     \* MAX_PROXY_JUMP_DEPTH
          Absent        \* no such row, and no hop

SystemRow == [address : Addresses, login : Logins,
              cred : Credentials, hop : Systems \cup {Absent}]
CredentialRow == [login : Logins, secret : BOOLEAN]

ASSUME RegistryAssumption ==
  /\ Absent \notin Systems \cup Credentials \cup SystemRow \cup CredentialRow
  /\ MaxDepth \in Nat \ {0}

VARIABLES system,       \* the row of each id: address, login, cred, hop
          credential    \* the row of each id: login and whether the secret is stored

vars == <<system, credential>>

TypeOK ==
  /\ system \in [Systems -> SystemRow \cup {Absent}]
  /\ credential \in [Credentials -> CredentialRow \cup {Absent}]

Saved == {s \in Systems : system[s] # Absent}

Init ==
  /\ system = [s \in Systems |-> Absent]
  /\ credential = [c \in Credentials |-> Absent]

(* The walk from s along the hops ends after n systems, all among these.   *)
ChainEnds(s, n, among) ==
  \E chain \in [1 .. n -> among] :
    /\ chain[1] = s
    /\ \A i \in 1 .. n : system[chain[i]].hop = IF i = n THEN Absent ELSE chain[i + 1]

\* Mutant: the edited system itself is not among those the walk must not meet.
ValidHopForgetsEdited(hop, edited) ==
  \/ hop = Absent
  \/ hop # edited /\ hop \in Saved

(* The walk from the hop a form names: it has to end, at rows that exist,  *)
(* without meeting the edited system, after at most MaxDepth systems.      *)
ValidHop(hop, edited) ==
  \/ hop = Absent
  \/ \E n \in 1 .. MaxDepth : ChainEnds(hop, n, Saved \ {edited})

\* A credential that resolves to a login: the row has its secret.
Usable(c) == credential[c] # Absent /\ credential[c].secret

Unique(address, login, hop, edited) ==
  \A s \in Saved \ {edited} :
    <<system[s].address, system[s].login, system[s].hop>> # <<address, login, hop>>

(* Creating and updating a system store the same columns; the login name   *)
(* is copied from the credential.                                          *)
Save(s, address, c, hop) ==
  /\ Usable(c)
  /\ ValidHop(hop, s)
  /\ Unique(address, credential[c].login, hop, s)
  /\ system' = [system EXCEPT ![s] = [address |-> address, cred |-> c, hop |-> hop,
                                      login |-> credential[c].login]]
  /\ UNCHANGED credential

CreateSystem ==
  \E s \in Systems \ Saved, a \in Addresses, c \in Credentials, h \in Systems \cup {Absent} :
    Save(s, a, c, h)

UpdateSystem ==
  \E s \in Saved, a \in Addresses, c \in Credentials, h \in Systems \cup {Absent} :
    Save(s, a, c, h)

\* Mutant: a system is deleted under those that jump through it.
DeleteSystemInUse ==
  \E s \in Saved :
    /\ system' = [system EXCEPT ![s] = Absent]
    /\ UNCHANGED credential

DeleteSystem ==
  \E s \in Saved :
    /\ \A t \in Saved : system[t].hop # s
    /\ system' = [system EXCEPT ![s] = Absent]
    /\ UNCHANGED credential

CreateCredential ==
  \E c \in Credentials, l \in Logins :
    /\ credential[c] = Absent
    /\ credential' = [credential EXCEPT ![c] = [login |-> l, secret |-> TRUE]]
    /\ UNCHANGED system

\* A form without the secret is accepted when one is stored.
AcceptsForm(c, kept) == kept \/ credential[c].secret

(* A form may leave the secret out when one is stored, and only the value  *)
(* "(stored)" keeps it: kept is FALSE when it was left out.  The login     *)
(* names copied into the systems' rows stay as they are.                   *)
UpdateCredential ==
  \E c \in Credentials, l \in Logins, kept \in BOOLEAN :
    /\ credential[c] # Absent
    /\ AcceptsForm(c, kept)
    /\ credential' = [credential EXCEPT ![c] = [login |-> l, secret |-> kept]]
    /\ UNCHANGED system

DeleteCredential ==
  \E c \in Credentials :
    /\ credential[c] # Absent
    /\ \A s \in Saved : system[s].cred # c
    /\ credential' = [credential EXCEPT ![c] = Absent]
    /\ UNCHANGED system

Next == CreateSystem \/ UpdateSystem \/ DeleteSystem
        \/ CreateCredential \/ UpdateCredential \/ DeleteCredential

Spec == Init /\ [][Next]_vars

(* What the rows refer to exists: a hop whose row is gone, or a credential *)
(* deleted under a system, would leave systems nobody can connect to.      *)
ReferencesExist ==
  \A s \in Saved : /\ system[s].hop \in Saved \cup {Absent}
                   /\ credential[system[s].cred] # Absent

(* No two rows stand for the same account of the same host behind the same *)
(* jump, whichever was created, edited or redirected last.                 *)
AccountsUnique ==
  \A s \in Saved : Unique(system[s].address, system[s].login, system[s].hop, s)

(* A chain of jumps ends: among any systems there is one whose hop is none *)
(* of them.  Each edit looks along its own chain only, yet no sequence of  *)
(* edits closes a cycle (resolveChain would refuse every system on it).    *)
NoHopCycle == \A C \in (SUBSET Saved) \ {{}} : \E s \in C : system[s].hop \notin C

(* Not so: resolveChain counts the target too and so allows one jump less  *)
(* than the walk above, and an edit of a hop lengthens the chains of the   *)
(* systems behind it unseen.  Such a system cannot be connected to.        *)
SavedSystemsResolve == \A s \in Saved : \E n \in 1 .. MaxDepth : ChainEnds(s, n, Saved)

RowsSound == ReferencesExist /\ AccountsUnique

\* What connections rely on, after any sequence of edits.
RegistrySound == RowsSound /\ NoHopCycle
===============================================================================
