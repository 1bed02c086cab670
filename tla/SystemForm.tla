------------------------------- MODULE SystemForm -------------------------------
(***************************************************************************)
(* The form of a system (client/components/systems/SystemForm.tsx): the    *)
(* connection it describes, the host key it shows as approved, the test of *)
(* a connection with the review of the key the host presented, and what a  *)
(* save stores.  Fields may be edited while a test is under way, the page  *)
(* behind may read the system again, and others approve and revoke keys.   *)
(* HostTrust has the server's side hop by hop; here a test is one step of  *)
(* the server, over a chain that has the target only.                      *)
(***************************************************************************)
EXTENDS Integers

CONSTANTS Addresses, KeysOf,   \* the keys the host at an address has had or will have
          Routes,              \* a credential and a jump host
          Absent,
          MaxMoves             \* bound: edits of fields, tests, and what others do

VARIABLES kind,      \* the form is of a new system, of this one, or of a copy of it
          row,       \* the system, or the one that is copied
          hostKey,   \* the key the host at an address presents
          live,      \* the server's tokens: of challenges and of validated configurations
          initial,   \* what the page behind the form has read of the row
          form,      \* the fields of the connection
          shown,     \* approvedHostKey and hostKeyStatus
          token,     \* validatedConfigToken
          review,    \* pendingTrustChallenge
          test,      \* testConnection, until its answer is here
          revoking,  \* revokeHostKey is pending
          warning,   \* showUnapprovedSaveWarning
          saved,     \* the token of the save that closed the form, if it had one
          moves      \* edits and tests so far, and what others did

fields == <<form, shown, token, review, warning>>
vars == <<kind, row, hostKey, live, initial, fields, test, revoking, saved, moves>>

Keys == UNION {KeysOf[a] : a \in Addresses}
KeyOrNot == Keys \cup {Absent}
Config == [address : Addresses \cup {Absent}, route : Routes, verify : BOOLEAN]
HostKeyStatus == {"verified", "verification_disabled", "needs_approval"}
Shown == [key : KeyOrNot, status : HostKeyStatus]
Validated == [config : Config, key : KeyOrNot, late : BOOLEAN]
Challenge == [config : Config, key : Keys, late : BOOLEAN]
Answers == {"none", "validated", "challenge", "failed", "error"}

TypeOK ==
  /\ kind \in {"new", "edit", "duplicate"}
  /\ row \in [address : Addresses \cup {Absent}, verify : BOOLEAN, key : KeyOrNot]
  /\ \A a \in Addresses : hostKey[a] \in KeysOf[a]
  /\ \A t \in live : t.what \in {"challenge", "validated"} /\ t.config \in Config
  /\ initial \in [address : Addresses \cup {Absent}, key : KeyOrNot, status : HostKeyStatus]
  /\ form \in Config /\ shown \in Shown
  /\ token \in Validated \cup {Absent} /\ review \in Challenge \cup {Absent}
  /\ test # Absent => test.config \in Config /\ test.answer \in Answers
  /\ revoking \in {"no", "sent", "done"} /\ warning \in BOOLEAN
  /\ moves.own \in 0 .. MaxMoves /\ moves.foreign \in 0 .. MaxMoves

Testing == [config : Config, approved : Challenge \cup {Absent}, was : Shown, late : BOOLEAN,
            answer : Answers, key : KeyOrNot]

\* What the proofs need of the constants: a host has a key, and no record is Absent.
FormAssumption ==
  /\ \A a \in Addresses : KeysOf[a] # {}
  /\ Absent \notin Keys /\ Absent \notin Testing
  /\ Absent \notin [warned : BOOLEAN, token : Validated \cup {Absent}]

(* deriveDisplayedHostKeyStatus: a key the last check met another one for  *)
(* has to be approved again.                                               *)
StatusesOf(r) ==
  IF ~r.verify THEN {"verification_disabled"}
  ELSE IF r.key = Absent THEN {"needs_approval"}
  ELSE IF r.address # Absent /\ hostKey[r.address] # r.key THEN {"verified", "needs_approval"}
  ELSE {"verified"}

ReadOf(r) == {[address |-> r.address, key |-> r.key, status |-> s] : s \in StatusesOf(r)}

Init ==
  /\ kind \in {"new", "edit", "duplicate"}
  /\ hostKey = [a \in Addresses |-> CHOOSE k \in KeysOf[a] : TRUE]   \* keys are names only
  /\ row \in [address : IF kind = "new" THEN {Absent} ELSE Addresses, verify : BOOLEAN, key : KeyOrNot]
  /\ kind = "new" => row.verify /\ row.key = Absent
  /\ row.key # Absent => row.verify /\ row.key \in KeysOf[row.address]
  /\ initial \in ReadOf(row)
  /\ \E route \in Routes : form = [address |-> row.address, route |-> route, verify |-> row.verify]
  /\ shown = [key |-> initial.key, status |-> initial.status]
  /\ live = {} /\ token = Absent /\ review = Absent
  /\ test = Absent /\ revoking = "no" /\ warning = FALSE /\ saved = Absent
  /\ moves = [own |-> 0, foreign |-> 0]

Open == saved = Absent

More == moves.own + moves.foreign < MaxMoves

-------------------------------------------------------------------------------
(* The effects of a render. *)

\* Verification was switched, or another key is shown.
Normal(f, s) ==
  IF ~f.verify THEN "verification_disabled"
  ELSE IF s.status = "verification_disabled"
  THEN IF s.key # Absent THEN "verified" ELSE "needs_approval"
  ELSE s.status

\* Away from the address that was read nothing is approved.
Elsewhere(f) == f.address # initial.address

AfterEdit(f) ==
  IF (f.address # form.address \/ f.verify # form.verify) /\ Elsewhere(f)
  THEN [key |-> Absent, status |-> IF f.verify THEN "needs_approval" ELSE "verification_disabled"]
  ELSE IF f.verify # form.verify THEN [shown EXCEPT !.status = Normal(f, shown)]
  ELSE shown

\* Another key is shown: the effect on the status runs once more.
Show(s) == shown' = IF s.key # shown.key THEN [s EXCEPT !.status = Normal(form, s)] ELSE s

-------------------------------------------------------------------------------
(* The user. *)

Still == UNCHANGED <<kind, row, hostKey, live, initial, saved>>

\* Mutant: the effect does not depend on the credential and the jump host.
ResetsUnlessRouted(f) == f.address # form.address \/ f.verify # form.verify

Resets(f) == f # form

\* The fields, and resetValidatedState.
Edit ==
  /\ Open /\ ~warning /\ More
  /\ \E f \in [address : Addresses, route : Routes, verify : BOOLEAN] :
       /\ f # form
       /\ \/ f.route = form.route /\ f.verify = form.verify
          \/ f.address = form.address /\ (f.route = form.route \/ f.verify = form.verify)
       /\ form' = f
       /\ shown' = AfterEdit(f)
       /\ IF Resets(f) THEN token' = Absent /\ review' = Absent ELSE UNCHANGED <<token, review>>
  /\ test' = IF test = Absent THEN Absent ELSE [test EXCEPT !.late = TRUE]
  /\ moves' = [moves EXCEPT !.own = @ + 1]
  /\ Still /\ UNCHANGED <<revoking, warning>>

\* validateSystemForm
Complete == form.address # Absent

Sent(approved) ==
  /\ More /\ moves' = [moves EXCEPT !.own = @ + 1]
  /\ test' = [config |-> form, approved |-> approved, was |-> shown, late |-> FALSE,
              answer |-> "none", key |-> Absent]

\* The button of the footer, or while approval is needed the one that fetches the key.
TestConnection ==
  /\ Open /\ ~warning /\ test = Absent /\ Complete
  /\ form.verify => review = Absent
  /\ Sent(Absent)
  /\ Still /\ UNCHANGED <<fields, revoking>>

\* The token and the challenges of the review, with the fields as they are now.
Approve ==
  /\ Open /\ ~warning /\ form.verify /\ review # Absent /\ test = Absent
  /\ Sent(review)
  /\ Still /\ UNCHANGED <<fields, revoking>>

Discard ==
  /\ Open /\ ~warning /\ form.verify /\ review # Absent /\ test = Absent
  /\ review' = Absent
  /\ Still /\ UNCHANGED <<form, shown, token, test, revoking, warning, moves>>

Revoke ==
  /\ Open /\ ~warning /\ kind = "edit" /\ form.verify
  /\ shown.key # Absent /\ review = Absent /\ revoking = "no"
  /\ revoking' = "sent"
  /\ Still /\ UNCHANGED <<fields, test, moves>>

\* A save without an approved key asks first.
Warn ==
  /\ Open /\ ~warning /\ form.verify /\ shown.key = Absent
  /\ warning' = TRUE
  /\ Still /\ UNCHANGED <<form, shown, token, review, test, revoking, moves>>

CloseWarning ==
  /\ Open /\ warning /\ warning' = FALSE
  /\ Still /\ UNCHANGED <<form, shown, token, review, test, revoking, moves>>

-------------------------------------------------------------------------------
(* The server. *)

Known(what, config, key) == [what |-> what, config |-> config, key |-> key] \in live

\* Mutant: a token counts whatever it was issued for.
AcceptedAnyway(t, f) == t = Absent \/ \E c \in Config : Known("validated", c, t.key)

\* getValidatedConfig
Accepted(t, f) == t = Absent \/ (t.config = f /\ Known("validated", f, t.key))

\* createSystem, which takes the key of the token only.
Created(f, key) ==
  [address |-> f.address, verify |-> f.verify, key |-> IF f.verify THEN key ELSE Absent]

\* updateSystem
Updated(f, key) ==
  [address |-> f.address, verify |-> f.verify,
   key |-> IF ~f.verify THEN Absent
           ELSE IF key # Absent THEN key
           ELSE IF f.address # row.address THEN Absent ELSE row.key]

\* With a token that does not count the save is refused, and the form stays.
Save ==
  /\ Open /\ Complete
  /\ warning \/ ~form.verify \/ shown.key # Absent
  /\ warning' = FALSE
  /\ IF Accepted(token, form)
     THEN /\ saved' = [warned |-> warning, token |-> token]
          /\ LET key == IF token = Absent THEN Absent ELSE token.key
             IN row' = IF kind = "edit" THEN Updated(form, key) ELSE Created(form, key)
     ELSE UNCHANGED <<saved, row>>
  /\ UNCHANGED <<kind, hostKey, live, initial, form, shown, token, review, test, revoking, moves>>

Answered(answer, key, tokens) ==
  /\ test' = [test EXCEPT !.answer = answer, !.key = key]
  /\ live' = tokens

Presented == hostKey[test.config.address]

\* The key of the row the form was opened for, at its own address.
Expected ==
  IF test.approved # Absent THEN test.approved.key
  ELSE IF kind # "new" /\ row.address = test.config.address THEN row.key ELSE Absent

\* What the server makes of a test: an approval is stored on the system it names.
Connects(left) ==
  IF ~test.config.verify \/ Expected = Presented
  THEN LET key == IF test.approved = Absent THEN Absent ELSE test.approved.key
       IN Answered("validated", key,
            left \cup {[what |-> "validated", config |-> test.config, key |-> key]})
  ELSE Answered("challenge", Presented,
         left \cup {[what |-> "challenge", config |-> test.config, key |-> Presented]})

Tested ==
  /\ Open /\ test # Absent /\ test.answer = "none"
  /\ IF test.approved = Absent
     THEN /\ Connects(live) \/ Answered("failed", Absent, live)
          /\ UNCHANGED row
     ELSE LET asked == [what |-> "challenge", config |-> test.config, key |-> test.approved.key]
          IN IF test.approved.config = test.config /\ asked \in live
             THEN /\ Connects(live \ {asked}) \/ Answered("failed", Absent, live \ {asked})
                  /\ row' = IF kind = "edit" THEN [row EXCEPT !.key = test.approved.key] ELSE row
             ELSE Answered("error", Absent, live) /\ UNCHANGED row
  /\ UNCHANGED <<kind, hostKey, initial, fields, revoking, saved, moves>>

Revoked ==
  /\ Open /\ revoking = "sent"
  /\ \/ revoking' = "done" /\ row' = [row EXCEPT !.key = Absent]
     \/ revoking' = "no" /\ UNCHANGED row
  /\ UNCHANGED <<kind, hostKey, live, initial, fields, test, saved, moves>>

\* A token is over after five minutes.
Expire ==
  /\ Open /\ \E t \in live : live' = live \ {t}
  /\ UNCHANGED <<kind, row, hostKey, initial, fields, test, revoking, saved, moves>>

\* Others, and the host.
Foreign ==
  /\ Open /\ More /\ moves' = [moves EXCEPT !.foreign = @ + 1]
  /\ \/ \E a \in Addresses : \E k \in KeysOf[a] :
          hostKey[a] # k /\ hostKey' = [hostKey EXCEPT ![a] = k] /\ UNCHANGED row
     \/ /\ row.address # Absent /\ row.verify
        /\ \E k \in {Absent, hostKey[row.address]} : row.key # k /\ row' = [row EXCEPT !.key = k]
        /\ UNCHANGED hostKey
  /\ UNCHANGED <<kind, live, initial, fields, test, revoking, saved>>

-------------------------------------------------------------------------------
(* What comes back. *)

(* The callbacks are of the render that sent the test: they see what was   *)
(* shown then.                                                             *)
Approving == test.approved # Absent

ShownAfter(success) ==
  [key |-> IF Approving THEN test.approved.key ELSE shown.key,
   status |-> IF success /\ test.config.verify
              THEN IF test.was.key # Absent \/ Approving THEN "verified" ELSE test.was.status
              ELSE IF Approving THEN "verified" ELSE shown.status]

ToReview ==
  /\ test.answer = "challenge"
  /\ token' = Absent
  /\ review' = [config |-> test.config, key |-> test.key, late |-> test.late]
  /\ shown' = [shown EXCEPT !.status = "needs_approval"]

Result ==
  /\ test.answer \in {"validated", "failed"}
  /\ review' = Absent
  /\ token' = IF test.answer = "validated"
              THEN [config |-> test.config, key |-> test.key, late |-> test.late] ELSE token
  /\ Show(ShownAfter(test.answer = "validated"))

Refused ==
  /\ test.answer = "error"
  /\ token' = Absent /\ review' = Absent /\ UNCHANGED shown

Answer ==
  /\ Open /\ test # Absent /\ test' = Absent
  /\ ToReview \/ Result \/ Refused
  /\ Still /\ UNCHANGED <<form, revoking, warning, moves>>

RevokeAnswer ==
  /\ Open /\ revoking = "done" /\ revoking' = "no"
  /\ Show([key |-> Absent, status |-> "needs_approval"]) /\ token' = Absent
  /\ Still /\ UNCHANGED <<form, review, test, warning, moves>>

\* The page of a system reads it again; what it read replaces what is shown.
Read ==
  /\ Open /\ kind = "edit"
  /\ \E read \in ReadOf(row) :
       /\ read # initial /\ initial' = read
       /\ Show([key |-> read.key, status |-> read.status])
  /\ UNCHANGED <<kind, row, hostKey, live, form, token, review, warning, test, revoking, saved, moves>>

Next ==
  \/ Edit \/ TestConnection \/ Approve \/ Discard \/ Revoke \/ Warn \/ CloseWarning \/ Save
  \/ Tested \/ Revoked \/ Expire \/ Foreign \/ Answer \/ RevokeAnswer \/ Read

Spec == Init /\ [][Next]_vars

-------------------------------------------------------------------------------
\* The token the form holds, and the challenge it shows, are of the connection
\* its fields describe, unless they were edited while the test was under way.
HoldsItsOwn ==
  /\ token # Absent /\ ~token.late => token.config = form
  /\ review # Absent /\ ~review.late => review.config = form

\* An edit that is saved with a token trusts the key that was shown, and one of
\* that address, if nobody else changed it and no revocation is on its way.
SavedAsShown ==
  saved # Absent /\ kind = "edit" /\ moves.foreign = 0 /\ revoking = "no" /\ form.verify
    /\ saved.token # Absent /\ shown.key # Absent
    => row.key = shown.key /\ row.key \in KeysOf[row.address]

SystemFormSound == HoldsItsOwn /\ SavedAsShown

\* Not so: a copy shows the key of its source, which is not copied, and the key
\* of an approval stays shown when the credential is edited, which drops the
\* token that would have stored it.  The save does not warn, although the form
\* says that the key will be saved.
UnwarnedIsTrusted ==
  saved # Absent /\ form.verify /\ ~saved.warned /\ moves.foreign = 0 => row.key # Absent
================================================================================
