------------------------------- MODULE HostTrust -------------------------------
(***************************************************************************)
(* Host keys: what a test of a connection asks the operator to approve,    *)
(* what an approval stores, what an edit of the system clears, and what    *)
(* connect verifies on each hop (ssh/connection.ts, the test-connection    *)
(* and update handlers of routes/systems.ts,                               *)
(* services/system-connection-validation.ts).  Hosts may change their key, *)
(* and rows may be edited, between any two answers of the network.         *)
(***************************************************************************)
EXTENDS Integers, FiniteSets, Sequences, SequencesExt

CONSTANTS Systems,
          Path,         \* per system, the sequence of hops that ends in itself
          Addresses,
          KeysOf,       \* the keys the host at an address has had or will have
          Calls,        \* calls of connect in progress
          None,
          MaxEdits, MaxRekeys,   \* bounds: edits of rows, changes of a host's key
          MaxTokens              \* bound: tokens the operator has when a test begins

\* What the proofs need of the constants.
PathAssumption ==
  /\ Path \in [Systems -> Seq(Systems)]
  /\ \A s \in Systems : Path[s] # <<>> /\ Last(Path[s]) = s

VARIABLES row,          \* address, whether keys are verified, the trusted key
          hostKey,      \* the key the host at an address presents
          challenges,   \* trustChallenges: tested configuration and its challenges
          validated,    \* validatedConfigs: tested configuration and approved target key
          call,         \* each call of connect
          edits, rekeys

vars == <<row, hostKey, challenges, validated, call, edits, rekeys>>

Keys == UNION {KeysOf[a] : a \in Addresses}
Row == [address : Addresses, verify : BOOLEAN, key : Keys \cup {None}]
Config == [system : Systems, address : Addresses, verify : BOOLEAN]

\* A hop as resolveChain reads it, and the key it presented once it is connected.
HopOf(s, address, verify, key) ==
  [system |-> s, address |-> address, verify |-> verify, trusted |-> key, seen |-> None]

Idle == [phase |-> "idle"]

Init ==
  /\ row \in [Systems -> {[address |-> a, verify |-> TRUE, key |-> None] : a \in Addresses}]
  /\ hostKey \in {k \in [Addresses -> Keys] : \A a \in Addresses : k[a] \in KeysOf[a]}
  /\ challenges = {} /\ validated = {}
  /\ call = [c \in Calls |-> Idle]
  /\ edits = 0 /\ rekeys = 0

Begin(c, config, key, approvals, test) ==
  call' = [call EXCEPT ![c] =
             [phase |-> "permit", config |-> config, key |-> key, test |-> test,
              approvals |-> approvals,      \* approved by the operator
              transient |-> approvals,      \* with those connect adds to look further
              collected |-> <<>>, hops |-> <<>>, at |-> 1]]

(* The target of a test is the form's configuration, with the stored key   *)
(* if the address is still the stored one.                                 *)
KeyForTest(config) ==
  IF row[config.system].address = config.address THEN row[config.system].key ELSE None

Test ==
  \E c \in Calls, config \in Config :
    /\ call[c].phase = "idle"
    /\ Cardinality(challenges) + Cardinality(validated) < MaxTokens
    /\ Begin(c, config, KeyForTest(config), <<>>, TRUE)
    /\ UNCHANGED <<row, hostKey, challenges, validated, edits, rekeys>>

(* The operator sends the challenges back as approvals: each is stored on  *)
(* the row it names, and the challenge is used up.  The key of the target  *)
(* was read before.                                                        *)
Approve ==
  \E c \in Calls, t \in challenges :
    /\ call[c].phase = "idle"
    /\ Begin(c, t.config, KeyForTest(t.config), t.asked, TRUE)
    /\ row' = [s \in Systems |->
                 LET i == SelectLastInSeq(t.asked, LAMBDA a : a.system = s)
                 IN IF i = 0 THEN row[s] ELSE [row[s] EXCEPT !.key = t.asked[i].key]]
    /\ challenges' = challenges \ {t}
    /\ UNCHANGED <<hostKey, validated, edits, rekeys>>

\* An operation connects to a stored system, which it has just read.
Operate ==
  \E c \in Calls, s \in Systems :
    /\ call[c].phase = "idle"
    /\ Begin(c, [system |-> s, address |-> row[s].address, verify |-> row[s].verify],
             row[s].key, <<>>, FALSE)
    /\ UNCHANGED <<row, hostKey, challenges, validated, edits, rekeys>>

(* Once the permit is there, the hops before the target are read.          *)
ResolveChain(c) ==
  /\ call[c].phase = "permit"
  /\ call' = [call EXCEPT
       ![c].phase = "dial",
       ![c].hops =
         LET path == Path[call[c].config.system]
         IN [i \in 1 .. Len(path) |->
               IF i = Len(path)
               THEN HopOf(path[i], call[c].config.address, call[c].config.verify, call[c].key)
               ELSE HopOf(path[i], row[path[i]].address, row[path[i]].verify, row[path[i]].key)]]
  /\ UNCHANGED <<row, hostKey, challenges, validated, edits, rekeys>>

\* findApprovedHostKey takes the first approval for the hop at its address.
ApprovedKey(list, hop) ==
  LET i == SelectInSeq(list, LAMBDA a : a.system = hop.system /\ a.address = hop.address)
  IN IF i = 0 THEN None ELSE list[i].key

Expected(list, hop) ==
  IF ApprovedKey(list, hop) # None THEN ApprovedKey(list, hop) ELSE hop.trusted

Accepted(list, hop, key) == hop.verify => Expected(list, hop) = key

\* What the operator is asked: the hop, its address and the key it presented.
Challenge(hop) ==
  [system |-> hop.system, address |-> hop.address, key |-> hostKey[hop.address]]

CurrentHop(c) == call[c].hops[call[c].at]

\* A hop is connected through the one before it.
HopConnects(c) ==
  /\ call[c].phase = "dial" /\ call[c].at <= Len(call[c].hops)
  /\ LET key == hostKey[CurrentHop(c).address]
     IN /\ Accepted(call[c].transient, CurrentHop(c), key)
        /\ call' = [call EXCEPT ![c].hops[call[c].at].seen = key, ![c].at = @ + 1]
  /\ UNCHANGED <<row, hostKey, challenges, validated, edits, rekeys>>

\* A test that ends for challenges answers with a token for the operator.
Asks(c, asked) ==
  challenges' = IF call[c].test
                THEN challenges \cup {[config |-> call[c].config, asked |-> asked]}
                ELSE challenges

(* A key that is not expected becomes a challenge, and the hop is tried    *)
(* again as if it were approved, to learn the challenges of the hops       *)
(* behind it; the same challenge twice ends the call with it alone.        *)
HopRefused(c) ==
  /\ call[c].phase = "dial" /\ call[c].at <= Len(call[c].hops)
  /\ LET hop == CurrentHop(c)
         asked == Challenge(hop)
     IN /\ ~Accepted(call[c].transient, hop, asked.key)
        /\ IF asked \in ToSet(call[c].transient)
           THEN call' = [call EXCEPT ![c] = Idle] /\ Asks(c, <<asked>>)
           ELSE /\ call' = [call EXCEPT ![c].transient = Append(@, asked),
                                        ![c].collected = Append(@, asked)]
                /\ UNCHANGED challenges
  /\ UNCHANGED <<row, hostKey, validated, edits, rekeys>>

\* Any hop may fail for another reason; the clients opened so far are ended.
HopFails(c) ==
  /\ call[c].phase = "dial" /\ call[c].at <= Len(call[c].hops)
  /\ call' = [call EXCEPT ![c] = Idle]
  /\ UNCHANGED <<row, hostKey, challenges, validated, edits, rekeys>>

\* Challenges met on the way fail the call.
ConnectRefuses(c) ==
  /\ call[c].phase = "dial" /\ call[c].at > Len(call[c].hops)
  /\ call[c].collected # <<>>
  /\ Asks(c, call[c].collected)
  /\ call' = [call EXCEPT ![c] = Idle]
  /\ UNCHANGED <<row, hostKey, validated, edits, rekeys>>

\* Mutant: the challenges met on the way are not looked at again at the end.
ConnectSucceedsUnasked(c) ==
  /\ call[c].phase = "dial" /\ call[c].at > Len(call[c].hops)
  /\ call' = [call EXCEPT ![c].phase = "connected"]
  /\ UNCHANGED <<row, hostKey, challenges, validated, edits, rekeys>>

(* A successful test answers with a token for the configuration; the       *)
(* detection of package managers connects once more, which changes nothing *)
(* here.                                                                   *)
ConnectSucceeds(c) ==
  /\ call[c].phase = "dial" /\ call[c].at > Len(call[c].hops)
  /\ call[c].collected = <<>>
  /\ call' = [call EXCEPT ![c].phase = "connected"]
  /\ validated' =
       IF call[c].test
       THEN validated \cup
              {[config |-> call[c].config,
                key |-> ApprovedKey(call[c].approvals, Last(call[c].hops))]}
       ELSE validated
  /\ UNCHANGED <<row, hostKey, challenges, edits, rekeys>>

Disconnect(c) ==
  /\ call[c].phase = "connected"
  /\ call' = [call EXCEPT ![c] = Idle]
  /\ UNCHANGED <<row, hostKey, challenges, validated, edits, rekeys>>

\* Mutant: the token counts for the system, whatever was tested.
TokensForSystem(config) == {v \in validated : v.config.system = config.system}

\* getValidatedConfig: a token counts for the configuration that was tested.
TokensFor(config) == {v \in validated : v.config = config}

(* Saving a system: another address forgets the key, verification off      *)
(* forgets it too, otherwise the key of the token, if one is given.        *)
Edit ==
  \E s \in Systems, config \in Config :
    /\ edits < MaxEdits /\ edits' = edits + 1
    /\ config.system = s
    /\ \E key \in {v.key : v \in TokensFor(config)} \cup {None} :
         row' = [row EXCEPT ![s] =
                   [address |-> config.address, verify |-> config.verify,
                    key |-> IF ~config.verify THEN None
                            ELSE IF key # None THEN key
                            ELSE IF config.address # row[s].address THEN None
                            ELSE row[s].key]]
    /\ UNCHANGED <<hostKey, challenges, validated, call, rekeys>>

Revoke ==
  \E s \in Systems :
    /\ row[s].key # None
    /\ row' = [row EXCEPT ![s].key = None]
    /\ UNCHANGED <<hostKey, challenges, validated, call, edits, rekeys>>

\* A host is installed anew, and tokens are over after five minutes.
HostRekeys ==
  \E a \in Addresses : \E k \in KeysOf[a] :
    /\ rekeys < MaxRekeys /\ rekeys' = rekeys + 1
    /\ k # hostKey[a]
    /\ hostKey' = [hostKey EXCEPT ![a] = k]
    /\ UNCHANGED <<row, challenges, validated, call, edits>>

TokenExpires ==
  /\ \/ \E t \in challenges : challenges' = challenges \ {t} /\ UNCHANGED validated
     \/ \E v \in validated : validated' = validated \ {v} /\ UNCHANGED challenges
  /\ UNCHANGED <<row, hostKey, call, edits, rekeys>>

Next ==
  \/ Test \/ Approve \/ Operate \/ Edit \/ Revoke \/ HostRekeys \/ TokenExpires
  \/ \E c \in Calls :
       \/ ResolveChain(c) \/ HopConnects(c) \/ HopRefused(c) \/ HopFails(c)
       \/ ConnectRefuses(c) \/ ConnectSucceeds(c) \/ Disconnect(c)

Spec == Init /\ [][Next]_vars

(* A connection that was returned went over hosts that each presented a    *)
(* key its row trusted when it was read, or one the operator approved for  *)
(* that hop: what connect accepts on the way to collect challenges is not  *)
(* enough.                                                                 *)
VerifiedConnections ==
  \A c \in Calls :
    call[c].phase = "connected" =>
      \A i \in 1 .. Len(call[c].hops) :
        LET hop == call[c].hops[i]
        IN \/ ~hop.verify
           \/ hop.seen = hop.trusted
           \/ [system |-> hop.system, address |-> hop.address, key |-> hop.seen]
                \in ToSet(call[c].approvals)

(* A row that gets another address keeps no key of the one before: what it *)
(* trusts from then on is nothing, or the key the operator approved in a   *)
(* test of that very address.                                              *)
ForgetsOldKeys ==
  \A s \in Systems :
    row'[s].address # row[s].address => row'[s].key \in KeysOf[row'[s].address] \cup {None}
NewAddressKnowsNoOldKey == [][ForgetsOldKeys]_vars

(* Not so: an approval is stored on the row it names, whatever address     *)
(* that row has by then, or has never had because the tested form was not  *)
(* saved.  The stored system is then refused until its key is revoked.     *)
KeyOfItsHost ==
  \A s \in Systems : row[s].key \in KeysOf[row[s].address] \cup {None}
===============================================================================
