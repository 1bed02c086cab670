------------------------------- MODULE ChannelForm ------------------------------
(***************************************************************************)
(* The form of a notification channel (client/pages/Notifications.tsx), in *)
(* which a channel is edited, copied or made, and the requests it sends    *)
(* (server/routes/notifications.ts): the systems and schedules it is for,  *)
(* and its secrets, which the form never sees.  A stored secret is shown   *)
(* as Masked, and stays when it comes back as Masked.                      *)
(*                                                                         *)
(* The channel is a webhook, with a list of headers (the fields of its     *)
(* body are treated alike) and a bearer token; the secrets of the other    *)
(* providers are treated like the token.  A header is sent under a name,   *)
(* and the value that belongs to it is written as the name.                *)
(***************************************************************************)
EXTENDS Integers, SequencesExt

CONSTANTS Systems, Schedules, Names,
          Masked,     \* "(stored)"
          Blank,      \* the empty string
          NoAuth,     \* no authentication
          Token,      \* the token that the receiver knows
          Absent,
          Sessions    \* bound: what the form is for, what the user does in it, and how often

VARIABLES server,     \* rows by id, systems that are visible, schedules
          data,       \* what the page has read of them
          form,
          wire,       \* the request of the form: a save, a test or a new schedule
          told,       \* what the last save was told to store, unless others changed it since
          tested,     \* the answer to the last test
          session     \* what is left of it

vars == <<server, data, form, wire, told, tested, session>>

Channel == 1
Copy == 2

Values == Names \cup {Blank, Masked}
Header == [name : Names \cup {Blank}, secret : BOOLEAN, value : Values]

IsConfig(c) == c.headers \in Seq(Header) /\ c.auth \in {NoAuth, Blank, Masked, Token}
IsScope(c) == c.all \in BOOLEAN /\ c.systems \subseteq Systems /\ c.schedules \subseteq Schedules

TypeOK ==
  /\ \A known \in {server, data} :
       /\ DOMAIN known.rows \subseteq {Channel, Copy}
       /\ \A c \in DOMAIN known.rows : IsConfig(known.rows[c]) /\ IsScope(known.rows[c])
       /\ known.visible \subseteq Systems /\ known.schedules \subseteq Schedules
  /\ form # Absent => IsConfig(form) /\ IsScope(form) /\ IsConfig(form.initial)
  /\ wire # Absent => wire.what \in {"save", "test", "schedule"}
  /\ tested \in {"never", "sent", "refused"}

\* What the proofs need of the constants: what a field may hold differs, and a
\* session begins with a channel that was saved.
ChannelFormAssumption ==
  /\ Blank \notin Names /\ Masked \notin Names \cup {Blank}
  /\ Masked \notin {NoAuth, Token} /\ Blank \notin {NoAuth, Token} /\ NoAuth # Token
  /\ \A t \in Sessions :
       /\ {"mode", "regular", "schedules"} \subseteq DOMAIN t /\ t.mode \in {"new", "edit", "copy"}
       /\ t.headers \in Seq(Header) /\ t.auth \in {NoAuth, Token}
       /\ \A i \in DOMAIN t.headers : t.headers[i].name # Blank /\ t.headers[i].value \in {Blank, t.headers[i].name}
       /\ t.all \in BOOLEAN /\ t.systems \subseteq Systems /\ t.schedules \subseteq Schedules
  /\ Absent \notin [what : {"save"}, mode : {"new", "edit", "copy"},
                   ask : [headers : Seq(Header), auth : {NoAuth, Blank, Token, Masked}, all : BOOLEAN,
                          systems : SUBSET Systems, schedules : SUBSET Schedules],
                   shown : [all : BOOLEAN, systems : SUBSET Systems, schedules : SUBSET Schedules],
                   answer : {"ok"}]

-------------------------------------------------------------------------------
(* Secrets on the server (services/notifications/webhook.ts). *)

Hidden(h) == IF h.secret /\ h.value # Blank THEN [h EXCEPT !.value = Masked] ELSE h

\* maskWebhookConfig
Mask(row) ==
  [row EXCEPT !.headers = [i \in DOMAIN @ |-> Hidden(@[i])],
              !.auth = IF @ \in {NoAuth, Blank} THEN @ ELSE Masked]

\* mergeSensitiveFields: by position.
MergedHeaders(stored, incoming) ==
  [i \in DOMAIN incoming |->
     IF /\ incoming[i].secret /\ incoming[i].value = Masked
        /\ i \in DOMAIN stored /\ stored[i].secret
     THEN [incoming[i] EXCEPT !.value = stored[i].value] ELSE incoming[i]]

\* Mutant: the token is taken as it comes.
MergedOfHeaders(stored, incoming) ==
  [incoming EXCEPT !.headers = MergedHeaders(stored.headers, @)]

\* mergeWebhookConfig
Merged(stored, incoming) ==
  [incoming EXCEPT !.headers = MergedHeaders(stored.headers, @),
                   !.auth = IF @ = Masked /\ stored.auth # NoAuth THEN stored.auth ELSE @]

\* validateWebhookConfig
Valid(config) == config.auth # Blank

-------------------------------------------------------------------------------
(* What the page reads.  A list that is not there yet counts as empty. *)

Init ==
  /\ \E t \in Sessions :
       /\ session = [t EXCEPT !.regular = TRUE]
       /\ server = [rows |-> [c \in {Channel} |->
                              [headers |-> t.headers, auth |-> t.auth, all |-> t.all,
                               systems |-> t.systems, schedules |-> t.schedules]],
                    visible |-> Systems, schedules |-> t.schedules]
  /\ \E seen \in {{}, Systems} :
       data = [rows |-> [c \in {Channel} |-> Mask(server.rows[c])],
               visible |-> seen, schedules |-> server.schedules]
  /\ form = Absent /\ wire = Absent /\ told = Absent /\ tested = "never"

\* Mutant: systems that are not listed any more stay selected.
NarrowedNever(f, visible) == f

\* The effect on the selected systems.
Narrowed(f, visible) == IF f.all THEN f ELSE [f EXCEPT !.systems = @ \cap visible]

\* The form that edits is given the row as it was read last, and goes with it; what
\* was entered stays.
Kept(f, read) ==
  CASE f = Absent -> Absent
    [] f # Absent /\ f.mode = "edit" /\ Channel \notin DOMAIN read.rows -> Absent
    [] f # Absent /\ f.mode = "edit" /\ Channel \in DOMAIN read.rows ->
         Narrowed([f EXCEPT !.initial = read.rows[Channel]], read.visible)
    [] OTHER -> Narrowed(f, read.visible)

Read ==
  /\ \/ data' = [data EXCEPT !.rows = [c \in DOMAIN server.rows |-> Mask(server.rows[c])]]
     \/ data' = [data EXCEPT !.visible = server.visible]
     \/ data' = [data EXCEPT !.schedules = server.schedules]
  /\ data' # data
  /\ form' = Kept(form, data')
  /\ UNCHANGED <<server, wire, told, tested, session>>

-------------------------------------------------------------------------------
(* The form. *)

Empty == [headers |-> <<>>, auth |-> NoAuth, all |-> FALSE, systems |-> {}, schedules |-> {}]

\* What the page has read of the secrets and of the schedules is how they are stored.
Current ==
  /\ data.schedules = server.schedules
  /\ \A c \in DOMAIN data.rows \cap DOMAIN server.rows :
       /\ data.rows[c].headers = Mask(server.rows[c]).headers
       /\ data.rows[c].auth = Mask(server.rows[c]).auth

\* NotificationForm mounts; a copy is made of what is listed (buildDuplicateNotification).
\* Bound: not while the answer to a test or about a schedule of the last form is awaited.
Open ==
  /\ form = Absent /\ (wire # Absent => wire.what = "save") /\ session.opens > 0
  /\ session.mode # "new" => Channel \in DOMAIN data.rows
  /\ session.mode # "edit" => Copy \notin DOMAIN server.rows
  /\ LET initial == IF session.mode = "new" THEN Empty ELSE data.rows[Channel]
     IN form' = Narrowed([headers |-> initial.headers, auth |-> initial.auth, all |-> initial.all,
                          systems |-> initial.systems, schedules |-> initial.schedules,
                          scheduled |-> initial.schedules # {}, made |-> {},
                          mode |-> session.mode, initial |-> initial], data.visible)
  /\ session' = [session EXCEPT !.opens = @ - 1, !.regular = @ /\ Current]
  /\ tested' = "never"
  /\ UNCHANGED <<server, data, wire, told>>

Options == data.schedules \cup form.made

Edit(kind, changed) ==
  /\ form # Absent /\ kind \in session.kinds /\ session.edits > 0
  /\ session' = [session EXCEPT !.edits = @ - 1, !.regular = @ /\ kind # "remove"]
  /\ form' = Narrowed(changed, data.visible)
  /\ UNCHANGED <<server, data, wire, told, tested>>

Toggled(set, x) == IF x \in set THEN set \ {x} ELSE set \cup {x}

ToggleSystem(s) ==
  /\ form # Absent /\ ~form.all /\ s \in data.visible
  /\ Edit("systems", [form EXCEPT !.systems = Toggled(@, s)])

ToggleAll == Edit("systems", [form EXCEPT !.all = ~@])

ToggleSchedule(d) ==
  /\ form # Absent /\ form.scheduled /\ d \in Options
  /\ Edit("schedules", [form EXCEPT !.schedules = Toggled(@, d)])

SetDelivery == Edit("schedules", [form EXCEPT !.scheduled = ~@])

\* The rows of the editor: a value typed or cleared, the mark of a secret (without it, what
\* is masked is lost), a new row, a row that is removed or loses its name.
EditRow(i) ==
  /\ form # Absent /\ i \in DOMAIN form.headers
  /\ LET h == form.headers[i] IN
     \/ \E v \in {h.name, Blank} :
          v # h.value /\ Edit("values", [form EXCEPT !.headers[i] = [h EXCEPT !.value = v]])
     \/ Edit("secrets", [form EXCEPT !.headers[i] =
                [h EXCEPT !.secret = ~@, !.value = IF h.secret /\ @ = Masked THEN Blank ELSE @]])
     \/ Edit("remove", [form EXCEPT !.headers = RemoveAt(@, i)])
     \/ h.name # Blank /\ Edit("remove", [form EXCEPT !.headers[i].name = Blank])

AddRow(n) ==
  /\ form # Absent /\ \A i \in DOMAIN form.headers : form.headers[i].name # n
  /\ Edit("rows", [form EXCEPT !.headers = Append(@, [name |-> n, secret |-> FALSE, value |-> Blank])])

EditAuth ==
  /\ form # Absent
  /\ \E a \in (IF form.auth = NoAuth THEN {Blank} ELSE {NoAuth, Blank, Token}) :
       a # form.auth /\ Edit("auth", [form EXCEPT !.auth = a])

\* Also while a save is on its way, whose answer closes the form that is open then.
Cancel ==
  /\ form # Absent /\ form' = Absent
  /\ UNCHANGED <<server, data, wire, told, tested, session>>

-------------------------------------------------------------------------------
(* What is sent. *)

\* preserveSensitiveValue
Preserved(value, before, secret) ==
  CASE ~secret \/ value # Blank -> value [] OTHER -> IF before = Masked THEN Masked ELSE Blank

\* A row without a name is left out.
Named(headers) ==
  IF \A i \in DOMAIN headers : headers[i].name # Blank THEN headers
  ELSE SelectSeq(headers, LAMBDA h : h.name # Blank)

\* finalizeWebhookFields
Finalized(headers, before) ==
  LET named == Named(headers) IN
  [i \in DOMAIN named |->
     [named[i] EXCEPT !.value =
        Preserved(@, IF i \in DOMAIN before THEN before[i].value ELSE Blank, named[i].secret)]]

\* buildConfig
Built ==
  [headers |-> Finalized(form.headers, form.initial.headers),
   auth |-> IF form.auth = NoAuth THEN NoAuth
            ELSE Preserved(form.auth, form.initial.auth, TRUE)]

Sent ==
  [headers |-> Built.headers, auth |-> Built.auth,
   all |-> form.all, systems |-> IF form.all THEN {} ELSE form.systems,
   schedules |-> IF form.scheduled THEN form.schedules ELSE {}]

\* What the boxes of the form show.
Ticked ==
  [all |-> form.all, systems |-> IF form.all THEN {} ELSE form.systems \cap data.visible,
   schedules |-> IF form.scheduled THEN form.schedules \cap Options ELSE {}]

\* handleSubmit
Submit ==
  /\ form # Absent /\ wire = Absent
  /\ Valid(Built) /\ (form.scheduled => form.schedules # {})
  /\ wire' = [what |-> "save", mode |-> form.mode, ask |-> Sent, shown |-> Ticked, answer |-> "none"]
  /\ UNCHANGED <<server, data, form, told, tested, session>>

\* handleInlineTest: of a copy with the id 0.
Test ==
  /\ form # Absent /\ wire = Absent /\ "test" \in session.kinds /\ tested = "never"
  /\ Valid(Built)
  /\ wire' = [what |-> "test", mode |-> form.mode, ask |-> Sent, answer |-> "none"]
  /\ UNCHANGED <<server, data, form, told, tested, session>>

\* handleCreateSchedule
NewSchedule ==
  /\ form # Absent /\ wire = Absent /\ form.scheduled /\ "new" \in session.kinds
  /\ wire' = [what |-> "schedule", answer |-> "none"]
  /\ UNCHANGED <<server, data, form, told, tested, session>>

-------------------------------------------------------------------------------
(* The server. *)

Source(r) == IF r.mode = "new" THEN Empty ELSE server.rows[Channel]

\* Mutant: a schedule that is gone is passed over.
AcceptsAnySchedule(r) == r.mode # "new" => Channel \in DOMAIN server.rows

\* The checks of POST and PUT /notifications: validateScheduleIds, validateProviderConfig
Accepts(r) ==
  /\ r.mode # "new" => Channel \in DOMAIN server.rows
  /\ r.ask.schedules \subseteq server.schedules
  /\ Valid(Merged(Source(r), r.ask))

\* createNotification, updateNotification
Save(r) ==
  LET to == IF r.mode = "edit" THEN Channel ELSE Copy
      row == [Merged(Source(r), r.ask) EXCEPT !.schedules = @ \cap server.schedules]
  IN /\ server' = [server EXCEPT !.rows = [c \in DOMAIN @ \cup {to} |-> IF c = to THEN row ELSE @[c]]]
     /\ told' = [of |-> to, shown |-> r.shown]

Serve ==
  /\ wire # Absent /\ wire.answer = "none"
  /\ \/ /\ wire.what = "save" /\ Accepts(wire) /\ Save(wire)
        /\ wire' = [wire EXCEPT !.answer = "ok"] /\ UNCHANGED <<tested, session>>
     \/ /\ wire.what = "test"
        /\ tested' = IF wire.mode # "copy" /\ (wire.mode = "edit" => Channel \in DOMAIN server.rows)
                     THEN "sent" ELSE "refused"
        /\ wire' = [wire EXCEPT !.answer = "ok"] /\ UNCHANGED <<server, told, session>>
     \/ /\ wire.what = "schedule"   \* an id is not used again
        /\ \E d \in Schedules \ session.schedules :
             /\ server' = [server EXCEPT !.schedules = @ \cup {d}]
             /\ session' = [session EXCEPT !.schedules = @ \cup {d}]
             /\ wire' = [what |-> "schedule", answer |-> "ok", id |-> d]
        /\ UNCHANGED <<told, tested>>
     \/ wire' = [wire EXCEPT !.answer = "error"] /\ UNCHANGED <<server, told, tested, session>>
  /\ UNCHANGED <<data, form>>

\* onSuccess, onError: a save closes the form, a new schedule is an option and selected.
Answer ==
  /\ wire # Absent /\ wire.answer # "none" /\ wire' = Absent
  /\ form' = CASE wire.answer = "ok" /\ wire.what = "save" -> Absent
               [] wire.answer = "ok" /\ wire.what = "schedule" /\ form # Absent ->
                    [form EXCEPT !.made = @ \cup {wire.id}, !.schedules = @ \cup {wire.id},
                                 !.scheduled = TRUE]
               [] OTHER -> form
  /\ UNCHANGED <<server, data, told, tested, session>>

Without(row, d) == [row EXCEPT !.schedules = @ \ {d}]

\* Others hide or show a system, delete a schedule, which leaves its channels, or delete the
\* channel.
Others ==
  /\ session.events > 0 /\ session' = [session EXCEPT !.events = @ - 1]
  /\ \/ \E s \in Systems :
          server' = [server EXCEPT !.visible = Toggled(@, s)] /\ UNCHANGED told
     \/ \E d \in server.schedules :
          /\ server' = [server EXCEPT !.schedules = @ \ {d},
                          !.rows = [c \in DOMAIN @ |-> Without(@[c], d)]]
          /\ told' = Absent
     \/ /\ Channel \in DOMAIN server.rows
        /\ server' = [server EXCEPT !.rows = [c \in DOMAIN @ \ {Channel} |-> @[c]]]
        /\ told' = Absent
  /\ UNCHANGED <<data, form, wire, tested>>

Next ==
  \/ Read \/ Open \/ ToggleAll \/ SetDelivery \/ EditAuth \/ Cancel
  \/ \E s \in Systems : ToggleSystem(s)
  \/ \E d \in Schedules : ToggleSchedule(d)
  \/ \E i \in DOMAIN (IF form = Absent THEN <<>> ELSE form.headers) : EditRow(i)
  \/ \E n \in Names : AddRow(n)
  \/ Submit \/ Test \/ NewSchedule \/ Serve \/ Answer \/ Others

Spec == Init /\ [][Next]_vars

-------------------------------------------------------------------------------
\* A header is sent with a value that was entered for it or none.
OfTheirRows(row) ==
  /\ \A i \in DOMAIN row.headers : row.headers[i].value \in {Blank, row.headers[i].name}
  /\ row.auth \in {NoAuth, Token}

\* A secret that the user did not touch survives every edit and every copy, and is
\* never replaced by the mask or by another header's: as long as no row of the
\* headers is removed, and each form is opened on the channel as it is.
SecretsStay == session.regular => \A c \in DOMAIN server.rows : OfTheirRows(server.rows[c])

\* What a save stored is what the boxes of the form showed, although what they are
\* chosen from changed while it was open, and others hid or deleted some of it; of
\* the schedules, as long as each form is opened on those there are.
SavedAsShown ==
  told # Absent => /\ server.rows[told.of].all = told.shown.all
                   /\ server.rows[told.of].systems = told.shown.systems
                   /\ session.regular
                        => server.rows[told.of].schedules = told.shown.schedules

ChannelFormSound == SecretsStay /\ SavedAsShown

\* Not so: behind a row that was removed, a secret that the form shows as unchanged
\* is replaced by that of another header, or by the mask; and a form that is opened
\* after a save, but before the channel is read again, may store the mask.
SecretsOfTheirRows == \A c \in DOMAIN server.rows : OfTheirRows(server.rows[c])

\* Not so: a form that is saved before the systems are read, or while some of them are
\* hidden, takes them off the channel, although nobody touched them.
UntouchedSystemsStay ==
  "systems" \notin session.kinds /\ session.mode = "edit" /\ Channel \in DOMAIN server.rows
    => server.rows[Channel].systems = session.systems

\* Not so: the test of a copy is refused, because a copy has the id 0.
CopyCanBeTested == tested # "refused" \/ Channel \notin DOMAIN server.rows
================================================================================
