---------------------------- MODULE ListPagesProofs ----------------------------
(***************************************************************************)
(* The pages on which lists are put in order by dragging, proved for every *)
(* number of their rows: the Upgrade All dialog, the editor of scripts and *)
(* the page of the schedules.                                              *)
(***************************************************************************)
EXTENDS Integers, FiniteSets, FiniteSetTheorems, Sequences, SequenceTheorems,
        WellFoundedInduction, TLAPS

CONSTANTS Systems, None,
          Groups, Ungrouped, DialogSessions,                        \* UpgradeDialog
          Builtin, Custom, MaxScripts, EditorSessions,              \* ScriptEditor
          Channels, MaxSchedules, ScheduleSessions                  \* SchedulePage

VARIABLES server, data, modal, pending, drag, dialog, wire, sent, session,
          editor, title, asked, copying, told, hit,
          list, armed, form

(* one.                                                                    *)
LEMMA HasLeast ==
  ASSUME NEW S, S \subseteq Nat, S # {} PROVE \E x \in S : \A y \in S : x <= y
<1> DEFINE R == OpToRel(<, Nat)
<1>1. IsWellFoundedOn(R, Nat)
  BY NatLessThanWellFounded
<1>2. \A y, x \in Nat : y < x => <<y, x>> \in R
  BY Zenon DEF OpToRel
<1> HIDE DEF R
<1>3. PICK x \in S : \A y \in S : ~ (<<y, x>> \in R)
  BY <1>1, WFMin
<1>4. \A y \in S : ~ (y < x)
  BY <1>2, <1>3
<1>5. \A y \in S : x <= y
  BY <1>4
<1> QED
  BY <1>5

LEMMA HasGreatest ==
  ASSUME NEW n \in Nat, NEW S, S \subseteq 1 .. n, S # {} PROVE \E z \in S : \A y \in S : z >= y
<1> DEFINE T == {n - y : y \in S}
<1>1. \A y \in S : y \in 1 .. n /\ n - y \in Nat /\ n - y \in T
  OBVIOUS
<1>2. T \subseteq Nat /\ T # {}
  BY <1>1
<1>3. PICK x \in T : \A y \in T : x <= y
  BY <1>2, HasLeast
<1>4. PICK z \in S : x = n - z
  BY <1>3
<1> HIDE DEF T
<1>5. \A y \in S : z >= y
  BY <1>1, <1>3, <1>4
<1> QED
  BY <1>5

LEMMA HasOrder ==
  ASSUME NEW S, IsFiniteSet(S), NEW R,
         \A a, b \in S : a # b => <<a, b>> \in R \/ <<b, a>> \in R,
         \A a, b, c \in S : <<a, b>> \in R /\ <<b, c>> \in R => <<a, c>> \in R
  PROVE  \E q \in [1 .. Cardinality(S) -> S] :
           /\ \A k, l \in 1 .. Cardinality(S) : k < l => <<q[k], q[l]>> \in R
           /\ \A x \in S : \E k \in 1 .. Cardinality(S) : q[k] = x
<1> DEFINE Listing(T, n) ==
             \E q \in [1 .. n -> T] :
               /\ \A k, l \in 1 .. n : k < l => <<q[k], q[l]>> \in R
               /\ \A x \in T : \E k \in 1 .. n : q[k] = x
           Bad == {n \in Nat : \E T \in SUBSET S : Cardinality(T) = n /\ ~ Listing(T, n)}
<1>1. Cardinality(S) \in Nat
  BY FS_CardinalityType
<1>2. SUFFICES Bad = {}
  BY <1>1
<1>3. SUFFICES ASSUME Bad # {} PROVE FALSE
  OBVIOUS
<1>4. PICK n \in Bad : \A m \in Bad : n <= m
  <2>1. Bad \subseteq Nat
    OBVIOUS
  <2> QED
    BY <1>3, <2>1, HasLeast
<1>5. PICK T \in SUBSET S : Cardinality(T) = n /\ ~ Listing(T, n)
  OBVIOUS
<1>6. n \in Nat /\ IsFiniteSet(T)
  BY FS_Subset
<1>7. T # {}
  <2> SUFFICES ASSUME T = {} PROVE FALSE
    OBVIOUS
  <2>1. n = 0
    BY <1>5, FS_EmptySet
  <2>2. [i \in 1 .. n |-> i] \in [1 .. n -> T]
    BY <2>1
  <2>3. 1 .. n = {}
    BY <2>1
  <2> QED
    BY <1>5, <2>2, <2>3, T = {}
<1>8. PICK x \in T : TRUE
  BY <1>7
<1> DEFINE U == T \ {x}
<1>9. IsFiniteSet(U) /\ Cardinality(U) = n - 1
  BY <1>5, <1>6, FS_RemoveElement
<1>10. n - 1 \in Nat /\ U \in SUBSET S
  BY <1>9, FS_CardinalityType
<1>11. n - 1 \notin Bad
  <2> HIDE DEF Bad
  <2>1. ~ (n <= n - 1)
    BY <1>6
  <2> QED
    BY <1>4, <2>1
<1>12. Listing(U, n - 1)
  <2> HIDE DEF U
  <2> QED
    BY <1>9, <1>10, <1>11
<1> HIDE DEF U
<1>13. PICK p \in [1 .. n - 1 -> U] :
          /\ \A k, l \in 1 .. n - 1 : k < l => <<p[k], p[l]>> \in R
          /\ \A y \in U : \E k \in 1 .. n - 1 : p[k] = y
  BY <1>12
<1> USE DEF U
<1> DEFINE A == {k \in 1 .. n - 1 : <<p[k], x>> \in R}
<1>14. PICK m \in 0 .. n - 1 :
          /\ \A k \in 1 .. n - 1 : k <= m => <<p[k], x>> \in R
          /\ \A k \in 1 .. n - 1 : k > m => <<x, p[k]>> \in R
  <2>1. \A k \in 1 .. n - 1 : p[k] \in S /\ p[k] # x /\ (k \notin A => <<x, p[k]>> \in R)
    BY <1>8, <1>13
  <2>2. CASE A = {}
    <3>1. \A k \in 1 .. n - 1 : k \notin A /\ <<x, p[k]>> \in R
      BY <2>1, <2>2
    <3>2. 0 \in 0 .. n - 1 /\ \A k \in 1 .. n - 1 : ~ (k <= 0) /\ k > 0
      BY <1>10
    <3> QED
      BY <3>1, <3>2
  <2>3. CASE A # {}
    <3>1. A \subseteq 1 .. n - 1 /\ \A k \in 1 .. n - 1 : k \in A <=> <<p[k], x>> \in R
      OBVIOUS
    <3> HIDE DEF A
    <3>2. PICK m \in A : \A k \in A : m >= k
      BY <1>10, <2>3, <3>1, HasGreatest, Zenon
    <3>3. m \in 1 .. n - 1 /\ <<p[m], x>> \in R
      BY <3>1, <3>2
    <3>4. ASSUME NEW k \in 1 .. n - 1, k <= m PROVE <<p[k], x>> \in R
      <4>1. CASE k = m
        BY <3>3, <4>1
      <4>2. CASE k < m
        BY <1>13, <2>1, <3>3, <4>2, <1>8
      <4> QED
        BY <1>10, <3>3, <3>4, <4>1, <4>2
    <3>5. ASSUME NEW k \in 1 .. n - 1, k > m PROVE <<x, p[k]>> \in R
      <4>1. k \notin A
        BY <1>10, <3>2, <3>3, <3>5
      <4> QED
        BY <2>1, <4>1
    <3>6. m \in 0 .. n - 1
      BY <1>10, <3>3
    <3> QED
      BY <3>4, <3>5, <3>6
  <2> QED
    BY <2>2, <2>3
<1> DEFINE q == [k \in 1 .. n |-> IF k <= m THEN p[k] ELSE IF k = m + 1 THEN x ELSE p[k - 1]]
<1>15. q \in [1 .. n -> T]
  BY <1>6, <1>8, <1>10, <1>13
<1>16. ASSUME NEW k \in 1 .. n, NEW l \in 1 .. n, k < l PROVE <<q[k], q[l]>> \in R
  BY <1>6, <1>13, <1>14, <1>16
<1>17. ASSUME NEW y \in T PROVE \E k \in 1 .. n : q[k] = y
  <2>1. CASE y = x
    <3>1. m + 1 \in 1 .. n /\ ~ (m + 1 <= m)
      BY <1>6, <1>14
    <3> QED
      BY <2>1, <3>1
  <2>2. CASE y # x
    <3>1. PICK k \in 1 .. n - 1 : p[k] = y
      BY <1>13, <2>2
    <3>2. CASE k <= m
      <4>1. k \in 1 .. n
        BY <1>6
      <4> QED
        BY <3>1, <3>2, <4>1
    <3>3. CASE ~ (k <= m)
      <4>1. k + 1 \in 1 .. n /\ ~ (k + 1 <= m) /\ k + 1 # m + 1 /\ (k + 1) - 1 = k
        BY <1>6, <3>3
      <4> QED
        BY <3>1, <4>1
    <3> QED
      BY <3>2, <3>3
  <2> QED
    BY <2>1, <2>2
<1> HIDE DEF q
<1> QED
  BY <1>5, <1>15, <1>16, <1>17

(* Something is left out of a sequence.                                    *)
LEMMA LeavingOut ==
  ASSUME NEW S, NEW s \in Seq(S), NEW i \in 1 .. Len(s),
         NEW t, t = SubSeq(s, 1, i - 1) \o SubSeq(s, i + 1, Len(s))
  PROVE  /\ t \in Seq(S) /\ Len(t) = Len(s) - 1
         /\ \A k \in 1 .. Len(s) - 1 : t[k] = IF k < i THEN s[k] ELSE s[k + 1]
<1> DEFINE a == SubSeq(s, 1, i - 1)
           b == SubSeq(s, i + 1, Len(s))
<1>1. Len(s) \in Nat /\ i \in Int /\ \A k \in 1 .. Len(s) : s[k] \in S
  BY ElementOfSeq, LenProperties
<1>2. a \in Seq(S) /\ Len(a) = i - 1 /\ \A k \in 1 .. i - 1 : a[k] = s[k]
  <2>1. 1 \in Int /\ i - 1 \in Int /\ \A k \in 1 .. i - 1 : s[k] \in S
    BY <1>1
  <2>2. /\ a \in Seq(S) /\ Len(a) = IF 1 <= i - 1 THEN i - 1 - 1 + 1 ELSE 0
        /\ \A k \in 1 .. i - 1 - 1 + 1 : a[k] = s[1 + k - 1]
    BY <2>1, SubSeqProperties
  <2> HIDE DEF a
  <2> QED
    BY <1>1, <2>2
<1>3. b \in Seq(S) /\ Len(b) = Len(s) - i /\ \A k \in 1 .. Len(s) - i : b[k] = s[i + k]
  <2>1. i + 1 \in Int /\ Len(s) \in Int /\ \A k \in i + 1 .. Len(s) : s[k] \in S
    BY <1>1
  <2>2. /\ b \in Seq(S) /\ Len(b) = IF i + 1 <= Len(s) THEN Len(s) - (i + 1) + 1 ELSE 0
        /\ \A k \in 1 .. Len(s) - (i + 1) + 1 : b[k] = s[i + 1 + k - 1]
    BY <2>1, SubSeqProperties
  <2> HIDE DEF b
  <2>3. Len(b) = Len(s) - i
    BY <1>1, <2>2
  <2>4. ASSUME NEW k \in 1 .. Len(s) - i PROVE b[k] = s[i + k]
    <3>1. k \in 1 .. Len(s) - (i + 1) + 1 /\ i + 1 + k - 1 = i + k
      BY <1>1
    <3> QED
      BY <2>2, <3>1
  <2> QED
    BY <2>2, <2>3, <2>4
<1> HIDE DEF a, b
<1>4. /\ a \o b \in Seq(S) /\ Len(a \o b) = Len(a) + Len(b)
      /\ \A k \in 1 .. Len(a) + Len(b) : (a \o b)[k] = IF k <= Len(a) THEN a[k] ELSE b[k - Len(a)]
  BY <1>2, <1>3, ConcatProperties
<1>5. ASSUME NEW k \in 1 .. Len(s) - 1 PROVE (a \o b)[k] = IF k < i THEN s[k] ELSE s[k + 1]
  <2>1. k \in 1 .. Len(a) + Len(b) /\ (a \o b)[k] = IF k < i THEN a[k] ELSE b[k - i + 1]
    BY <1>1, <1>2, <1>3, <1>4
  <2>2. CASE k < i
    BY <1>1, <1>2, <2>1, <2>2
  <2>3. CASE k >= i
    <3> DEFINE j == k - i + 1
    <3>1. j \in 1 .. Len(s) - i /\ i + j = k + 1 /\ ~ (k < i)
      BY <1>1, <2>3
    <3>2. (a \o b)[k] = b[j]
      BY <2>1, <3>1
    <3> HIDE DEF j
    <3>3. b[j] = s[k + 1]
      BY <1>3, <3>1
    <3> QED
      BY <3>1, <3>2, <3>3, Zenon
  <2>4. k < i \/ k >= i
    BY <1>1
  <2> QED
    BY <2>2, <2>3, <2>4, Zenon
<1>6. Len(a \o b) = Len(s) - 1
  BY <1>1, <1>2, <1>3, <1>4
<1>7. t = a \o b
  BY DEF a, b
<1> QED
  BY <1>4, <1>5, <1>6, <1>7

(* What climbs from 0 to n - 1 in n steps takes one at a time.             *)
LEMMA Climbing ==
  ASSUME NEW n \in Nat, NEW f \in [1 .. n -> Int],
         \A k \in 1 .. n : 0 <= f[k] /\ f[k] <= n - 1,
         \A k, l \in 1 .. n : k < l => f[k] < f[l]
  PROVE  \A k \in 1 .. n : f[k] = k - 1
<1> DEFINE Low == {k \in 1 .. n : f[k] < k - 1}
           High == {k \in 1 .. n : f[k] > k - 1}
<1>1. Low = {}
  <2> SUFFICES ASSUME Low # {} PROVE FALSE
    OBVIOUS
  <2>1. Low \subseteq Nat
    OBVIOUS
  <2>2. PICK k \in Low : \A j \in Low : k <= j
    BY <2>1, HasLeast
  <2>3. k \in 1 .. n /\ f[k] < k - 1 /\ k # 1
    BY <2>2
  <2>4. k - 1 \in 1 .. n /\ f[k - 1] < f[k]
    BY <2>3
  <2>5. k - 1 \in Low
    BY <2>3, <2>4
  <2> QED
    BY <2>2, <2>3, <2>5
<1>2. High = {}
  <2> SUFFICES ASSUME High # {} PROVE FALSE
    OBVIOUS
  <2>1. High \subseteq 1 .. n
    OBVIOUS
  <2>2. PICK k \in High : \A j \in High : k >= j
    BY <2>1, HasGreatest
  <2>3. k \in 1 .. n /\ f[k] > k - 1 /\ k # n
    BY <2>2
  <2>4. k + 1 \in 1 .. n /\ f[k] < f[k + 1]
    BY <2>3
  <2>5. k + 1 \in High
    BY <2>3, <2>4
  <2> QED
    BY <2>2, <2>3, <2>5
<1>3. \A k \in 1 .. n : f[k] \in Int /\ k - 1 \in Int /\ ~ (f[k] < k - 1) /\ ~ (f[k] > k - 1)
  BY <1>1, <1>2
<1> QED
  BY <1>3

LEMMA PuttingIn ==
  ASSUME NEW S, NEW s \in Seq(S), NEW i \in 1 .. Len(s) + 1, NEW x \in S,
         NEW t, t = SubSeq(s, 1, i - 1) \o <<x>> \o SubSeq(s, i, Len(s))
  PROVE  t \in Seq(S)
<1>1. Len(s) \in Nat /\ \A k \in 1 .. Len(s) : s[k] \in S
  BY LenProperties, ElementOfSeq
<1> DEFINE a == SubSeq(s, 1, i - 1)
           b == SubSeq(s, i, Len(s))
           c == <<x>>
<1>2. i - 1 \in Int /\ i \in Int /\ (\A k \in 1 .. i - 1 : s[k] \in S) /\ \A k \in i .. Len(s) : s[k] \in S
  BY <1>1
<1>3. a \in Seq(S) /\ b \in Seq(S)
  BY <1>1, <1>2, SubSeqProperties
<1>4. c \in Seq(S)
  OBVIOUS
<1>5. t = a \o c \o b
  OBVIOUS
<1> HIDE DEF a, b, c
<1>6. a \o c \in Seq(S)
  BY <1>3, <1>4, ConcatProperties
<1>7. a \o c \o b \in Seq(S)
  BY <1>3, <1>6, ConcatProperties
<1> QED
  BY <1>5, <1>7

--------------------------------------------------------------------------------
Dialog == INSTANCE UpgradeDialog WITH Absent <- None, Sessions <- DialogSessions

(***************************************************************************)
(* UpgradeDialog.                                                          *)
(***************************************************************************)
Given == server.made \cup {Ungrouped}
Placement == [group : Given, order : Nat]
Listed == [group : Given, order : Nat, updates : BOOLEAN]
Known == [group : Given, order : Nat, excluded : BOOLEAN, full : BOOLEAN, state : {"updates"}]

(* Whatever happens to the systems. *)

Requestish(r) ==
  /\ r \in [what : Dialog!Kinds, ask : {r.ask}, undo : {r.undo}, latest : BOOLEAN,
            answer : {"none", "ok", "error"}]
  /\ r.what = "exclude" => r.ask \in [system : Systems, excluded : BOOLEAN]
  /\ r.what = "mode" => r.ask \in [system : Systems, full : BOOLEAN] /\ r.undo \in BOOLEAN
  /\ r.what = "delete" => r.ask \in Groups

Shaped ==
  /\ server \in [sys : {server.sys}, order : {server.order}, made : {server.made}]
  /\ server.sys \in [Systems -> {server.sys[s] : s \in Systems}]
  /\ \A s \in Systems :
       server.sys[s] \in [group : {server.sys[s].group}, order : {server.sys[s].order},
                          excluded : BOOLEAN, full : BOOLEAN, state : Dialog!States]
  /\ data \in [sys : {data.sys}, order : {data.order}]
  /\ modal # None => modal \in [edit : BOOLEAN, list : {modal.list}, order : {modal.order},
                                chosen : SUBSET Systems, full : {modal.full}, regular : BOOLEAN]
  /\ dialog # None => dialog \in [what : {"rename", "delete"}, group : Groups]
  /\ session \in [kinds : {session.kinds}, requests : {session.requests}, events : {session.events},
                  alone : BOOLEAN]
  /\ \A r \in wire : Requestish(r)

\* There is one request of the kind at most, and its callbacks are called.
AtMostOne(what) ==
  /\ \A q, r \in wire : q.what = what /\ r.what = what => q = r
  /\ \A r \in wire : r.what = what => r.latest

Regular == modal # None /\ modal.regular

\* A system that is checked is saved as included, or is being included.
CheckedIsIncluded ==
  /\ \A s \in Systems : s \in modal.chosen /\ server.sys[s].excluded =>
       \E r \in wire : r.what = "exclude" /\ r.ask = [system |-> s, excluded |-> FALSE]
  /\ \A r \in wire : r.what = "exclude" =>
       /\ r.ask.excluded =>
            /\ r.ask.system \notin modal.chosen
            /\ r.answer # "ok" => ~server.sys[r.ask.system].excluded
       /\ ~r.ask.excluded /\ r.answer = "ok" => ~server.sys[r.ask.system].excluded

(* As long as nothing happens to the systems. *)

Dragish(d) ==
  \/ d.what = "place" /\ d \in [what : {"place"}, of : Systems, before : [Systems -> Listed],
                                to : [Systems -> Placement] \cup {<<>>}]
  \/ d.what = "order" /\ d \in [what : {"order"}, of : Given, before : Seq(Given), to : Seq(Given)]

TypedServer ==
  /\ server.sys \in [Systems -> Known] /\ server.order \in Seq(Given)
     /\ server.made \subseteq Groups
  /\ Ungrouped \in Dialog!ToSet(server.order)
     /\ \A s \in Systems : server.sys[s].group \in Dialog!ToSet(server.order)

TypedData == data.sys \in [Systems -> Known] /\ data.order \in Seq(Given)

TypedModal ==
  modal # None => /\ modal.list \in [Systems -> Listed] /\ modal.full \in [Systems -> BOOLEAN]
                  /\ modal.order \in Seq(Given) \cup {None}

TypedPending == DOMAIN pending \subseteq Systems /\ pending \in [DOMAIN pending -> Placement]

TypedDrag ==
  drag # None => /\ Dragish(drag) /\ modal # None /\ modal.edit
                 /\ \A r \in wire : r.what # "place"

TypedWire ==
  \A r \in wire : /\ r.what = "place"
                      => r.ask \in [Systems -> Placement] /\ r.undo \in [Systems -> Listed]
                  /\ r.what = "order" => r.ask \in Seq(Given) /\ r.undo \in Seq(Given)

Typed == TypedServer /\ TypedData /\ TypedModal /\ TypedPending /\ TypedDrag /\ TypedWire

\* The boxes show what is saved, or what is being saved.
ChosenIsSaved ==
  /\ \A s \in Systems : (\A r \in wire : r.what = "exclude" => r.ask.system # s)
       => (s \in modal.chosen) = ~server.sys[s].excluded
  /\ \A r \in wire : r.what = "exclude" =>
       /\ (r.ask.system \in modal.chosen) = ~r.ask.excluded
       /\ server.sys[r.ask.system].excluded = ((r.answer = "ok") = r.ask.excluded)

ModeIsSaved ==
  /\ AtMostOne("mode")
  /\ \A s \in Systems : (\A r \in wire : r.what = "mode" => r.ask.system # s)
       => modal.full[s] = server.sys[s].full
  /\ \A r \in wire : r.what = "mode" =>
       /\ modal.full[r.ask.system] = r.ask.full /\ r.undo = ~r.ask.full
       /\ server.sys[r.ask.system].full = ((r.answer = "ok") = r.ask.full)

Same(p, q) == p.group = q.group /\ p.order = q.order

Gone(k) == k \notin Dialog!ToSet(server.order)

\* The saved placement of a system, or that in a group which was deleted.
Fits(p, s) ==
  /\ p.order = server.sys[s].order
  /\ p.group = server.sys[s].group \/ (server.sys[s].group = Ungrouped /\ Gone(p.group))

Moving == drag # None /\ drag.what = "place"

Fitting ==
  /\ \A s \in DOMAIN pending : Fits(pending[s], s)
  /\ modal.edit => \A s \in Systems :
       \/ Fits(modal.list[s], s)
       \/ Moving /\ drag.to # <<>> /\ Same(modal.list[s], drag.to[s])

DialogAsked(r) ==
  \/ \E s \in Systems : Gone(r.ask[s].group)
  \/ /\ \A s \in DOMAIN pending : pending[s] = r.ask[s]
     /\ \A s \in Systems \ DOMAIN pending : Same(server.sys[s], r.ask[s])
     /\ modal.edit => \A s \in Systems : Same(modal.list[s], r.ask[s])

PlaceIsSaved ==
  /\ (\A r \in wire : r.what = "place" => r.answer = "ok") => Fitting
  /\ \A r \in wire : r.what = "place" =>
       /\ r.answer # "ok" => \A s \in Systems : Fits(r.undo[s], s)
       /\ r.answer = "none" => DialogAsked(r)
  /\ Moving => \A s \in Systems : Fits(drag.before[s], s)

DialogInv ==
  /\ Shaped /\ AtMostOne("exclude") /\ (Regular /\ sent = None => CheckedIsIncluded)
  /\ session.alone =>
       /\ Typed /\ AtMostOne("place")
       /\ Regular => ChosenIsSaved /\ ModeIsSaved /\ PlaceIsSaved
  /\ Dialog!QueuedAsIncluded

-------------------------------------------------------------------------------
LEMMA SeqGrows == ASSUME NEW A, NEW B, A \subseteq B, NEW s \in Seq(A) PROVE s \in Seq(B)
<1>1. s \in [1 .. Len(s) -> A] /\ Len(s) \in Nat
  BY LenProperties
<1>2. s \in [1 .. Len(s) -> B]
  BY <1>1
<1> QED
  BY <1>1, <1>2, IsASeq

\* Cardinality as the module of the dialog has it is the one the library theorems speak of.
LEMMA DialogCount ==
  \A S : /\ Dialog!Cardinality(S) = Cardinality(S)
         /\ Dialog!IsFiniteSet(S) = IsFiniteSet(S)
BY DEF Dialog!Cardinality, Dialog!IsFiniteSet, Cardinality, IsFiniteSet

\* The list that is left, in its order.
LEMMA KeptIs ==
  ASSUME NEW S, NEW entries \in Seq(S), NEW keys
  PROVE  /\ Dialog!Kept(entries, keys) \in Seq(S \cap keys)
         /\ Dialog!ToSet(Dialog!Kept(entries, keys)) = Dialog!ToSet(entries) \cap keys
<1> DEFINE at == {i \in DOMAIN entries : entries[i] \in keys}
           n == Dialog!Cardinality(at)
           Listing(p) == p \in [1 .. n -> at] /\ \A k, l \in 1 .. n : k < l => p[k] < p[l]
           R == {p \in at \X at : p[1] < p[2]}
<1>1. DOMAIN entries = 1 .. Len(entries) /\ Len(entries) \in Nat
  BY LenProperties
<1>2. IsFiniteSet(at)
  <2>1. IsFiniteSet(1 .. Len(entries))
    BY <1>1, FS_Interval
  <2> QED
    BY <1>1, <2>1, FS_Subset
<1>3. at \subseteq Nat /\ n = Cardinality(at)
  BY <1>1, DialogCount
<1> DEFINE q == CHOOSE p \in [1 .. n -> at] : \A k, l \in 1 .. n : k < l => p[k] < p[l]
<1>4. n \in Nat
  BY <1>2, <1>3, FS_CardinalityType
<1> HIDE DEF at, n
<1>5. /\ \A a, b \in at : a # b => <<a, b>> \in R \/ <<b, a>> \in R
      /\ \A a, b, c \in at : <<a, b>> \in R /\ <<b, c>> \in R => <<a, c>> \in R
      /\ \A a, b \in at : <<a, b>> \in R => a < b
  BY <1>3
<1> HIDE DEF R
<1>6. \E p \in [1 .. n -> at] : \A k, l \in 1 .. n : k < l => p[k] < p[l]
  <2>1. PICK p \in [1 .. n -> at] : \A k, l \in 1 .. n : k < l => <<p[k], p[l]>> \in R
    BY <1>2, <1>3, <1>5, HasOrder
  <2>2. \A k \in 1 .. n : p[k] \in at
    OBVIOUS
  <2>3. \A k, l \in 1 .. n : k < l => p[k] < p[l]
    BY <1>5, <2>1, <2>2
  <2> QED
    BY <2>3
<1>7. q \in [1 .. n -> at] /\ \A k, l \in 1 .. n : k < l => q[k] < q[l]
  BY <1>6
<1> HIDE DEF q
<1>8. \A a \in at : \E k \in 1 .. n : q[k] = a
  <2>1. \A k, l \in 1 .. n : k # l => q[k] # q[l]
    <3> SUFFICES ASSUME NEW k \in 1 .. n, NEW l \in 1 .. n, k # l PROVE q[k] # q[l]
      OBVIOUS
    <3>1. q[k] \in Nat /\ q[l] \in Nat
      BY <1>3, <1>7
    <3>2. k < l \/ l < k
      BY <1>4
    <3> QED
      BY <1>7, <3>1, <3>2
  <2>2. q \in Injection(1 .. n, at)
    BY <1>7, <2>1 DEF Injection, IsInjective
  <2>3. IsFiniteSet(1 .. n) /\ Cardinality(1 .. n) = n
    BY <1>4, FS_Interval
  <2>4. q \in Surjection(1 .. n, at)
    BY <1>2, <1>3, <2>2, <2>3, FS_Injection
  <2> QED
    BY <2>4 DEF Surjection
<1> DEFINE r == [k \in 1 .. n |-> entries[q[k]]]
<1>9. Dialog!Kept(entries, keys) = r
  BY DEF Dialog!Kept, at, q, n
<1>10. \A k \in 1 .. n : entries[q[k]] \in S \cap keys
  BY <1>1, <1>7, ElementOfSeq DEF at
<1>11. r \in [1 .. n -> S \cap keys]
  BY <1>10
<1>12. r \in Seq(S \cap keys) /\ DOMAIN r = 1 .. n
  BY <1>4, <1>11, IsASeq
<1>13. ASSUME NEW it \in Dialog!ToSet(entries) \cap keys PROVE it \in Dialog!ToSet(r)
  <2>1. PICK i \in DOMAIN entries : entries[i] = it
    BY DEF Dialog!ToSet
  <2>2. i \in at
    BY <2>1 DEF at
  <2>3. PICK k \in 1 .. n : q[k] = i
    BY <1>8, <2>2
  <2>4. r[k] = it
    BY <2>1, <2>3
  <2> HIDE DEF r
  <2> QED
    BY <1>12, <2>4 DEF Dialog!ToSet
<1>14. ASSUME NEW it \in Dialog!ToSet(r) PROVE it \in Dialog!ToSet(entries) \cap keys
  <2>1. PICK k \in 1 .. n : r[k] = it
    BY <1>12 DEF Dialog!ToSet
  <2>2. it = entries[q[k]] /\ q[k] \in at
    BY <1>7, <2>1
  <2> QED
    BY <2>2 DEF at, Dialog!ToSet
<1> QED
  BY <1>9, <1>12, <1>13, <1>14

-------------------------------------------------------------------------------
(* Requests. *)

Alike(q, r) == q.what = r.what /\ q.ask = r.ask /\ q.undo = r.undo /\ q.answer = r.answer

\* The same requests of a kind are on their way.
Mirrored(what) ==
  /\ \A q \in wire' : q.what = what => \E r \in wire : Alike(q, r)
  /\ \A r \in wire : r.what = what => \E q \in wire' : Alike(q, r)

SessionKept ==
  /\ session' \in [kinds : {session'.kinds}, requests : {session'.requests},
                   events : {session'.events},
                   alone : BOOLEAN]
  /\ session'.alone = session.alone

LEMMA SameMirrored == ASSUME UNCHANGED wire, NEW what PROVE Mirrored(what)
BY DEF Mirrored, Alike

LEMMA SentIs ==
  ASSUME Shaped, NEW request, Requestish(request), request.latest, Dialog!Send(request)
  PROVE  /\ request \in wire' /\ SessionKept
         /\ \A q \in wire' : Requestish(q) /\ (q = request \/ \E r \in wire : Alike(q, r))
         /\ \A what : what # request.what => Mirrored(what) /\ (AtMostOne(what) => AtMostOne(what)')
         /\ (\A r \in wire : r.what # request.what) =>
              AtMostOne(request.what)' /\ \A q \in wire' : q.what = request.what => q = request
<1> DEFINE old(r) == [r EXCEPT !.latest = r.latest /\ r.what # request.what]
<1>1. wire' = {old(r) : r \in wire} \cup {request}
        /\ session' = [session EXCEPT !.requests = session.requests - 1]
  BY DEF Dialog!Send
<1>2. ASSUME NEW r \in wire
      PROVE  Requestish(old(r)) /\ Alike(old(r), r) /\ (r.what # request.what => old(r) = r)
  <2>1. Requestish(r)
    BY DEF Shaped
  <2>2. PICK b \in BOOLEAN : b = (r.latest /\ r.what # request.what)
    OBVIOUS
  <2> DEFINE q == [r EXCEPT !.latest = b]
  <2>3. old(r) = q
    BY <2>2
  <2>4. /\ q \in [what : {q.what}, ask : {q.ask}, undo : {q.undo}, latest : BOOLEAN,
                  answer : {"none", "ok", "error"}]
        /\ Alike(q, r) /\ q.latest = b
    BY <2>1 DEF Requestish, Alike
  <2>5. r.what # request.what => q = r
    <3> SUFFICES ASSUME r.what # request.what PROVE q = r
      OBVIOUS
    <3>1. b = r.latest
      BY <2>1, <2>2 DEF Requestish
    <3> QED
      BY <2>1, <3>1 DEF Requestish
  <2> HIDE DEF q, old
  <2>6. Requestish(q)
    BY <2>1, <2>4 DEF Requestish, Alike
  <2> QED
    BY <2>3, <2>4, <2>5, <2>6
<1> HIDE DEF old
<1>3. ASSUME NEW q \in wire'
      PROVE  Requestish(q) /\ (q = request \/ \E r \in wire : q = old(r) /\ Alike(q, r))
  BY <1>1, <1>2
<1>4. SessionKept
  BY <1>1 DEF SessionKept, Shaped
<1>5. ASSUME NEW what, what # request.what
      PROVE  Mirrored(what) /\ (AtMostOne(what) => AtMostOne(what)')
  <2>1. ASSUME NEW q \in wire', q.what = what PROVE q \in wire /\ Alike(q, q)
    <3>1. PICK r \in wire : q = old(r) /\ Alike(q, r)
      BY <1>3, <1>5, <2>1
    <3> QED
      BY <1>2, <1>5, <2>1, <3>1 DEF Alike
  <2>2. ASSUME NEW r \in wire, r.what = what PROVE r \in wire' /\ Alike(r, r)
    BY <1>1, <1>2, <1>5, <2>2 DEF Alike
  <2> QED
    BY <2>1, <2>2 DEF Mirrored, AtMostOne
<1>6. ASSUME \A r \in wire : r.what # request.what, NEW q \in wire', q.what = request.what
      PROVE  q = request
  BY <1>3, <1>6 DEF Alike
<1>7. ASSUME \A r \in wire : r.what # request.what PROVE AtMostOne(request.what)'
  BY <1>6, <1>7 DEF AtMostOne
<1> QED
  BY <1>1, <1>3, <1>4, <1>5, <1>6, <1>7

LEMMA PassedIs ==
  ASSUME Shaped, NEW r \in wire, wire' = wire \ {r}
  PROVE  /\ \A q \in wire' : Requestish(q) /\ q \in wire
         /\ \A what : /\ what # r.what => Mirrored(what)
                      /\ AtMostOne(what) => AtMostOne(what)'
                         /\ (what = r.what => \A q \in wire' : q.what # what)
BY DEF Shaped, Mirrored, Alike, AtMostOne

LEMMA AnsweredIs ==
  ASSUME Shaped, NEW r \in wire, NEW a \in {"none", "ok", "error"}, NEW it,
         it = [r EXCEPT !.answer = a],
         wire' = (wire \ {r}) \cup {it}
  PROVE  /\ Requestish(it) /\ it \in wire' /\ it.what = r.what /\ it.ask = r.ask /\ it.undo = r.undo
         /\ it.latest = r.latest /\ it.answer = a
         /\ \A q \in wire' : Requestish(q) /\ (q = it \/ q \in wire)
         /\ \A what : /\ what # r.what => Mirrored(what)
                      /\ AtMostOne(what) => AtMostOne(what)'
                         /\ (what = r.what => \A q \in wire' : q.what = what => q = it)
<1>1. Requestish(r) /\ \A q \in wire : Requestish(q)
  BY DEF Shaped
<1>2. /\ it \in [what : {it.what}, ask : {it.ask}, undo : {it.undo}, latest : BOOLEAN,
                answer : {"none", "ok", "error"}]
      /\ it.what = r.what /\ it.ask = r.ask /\ it.undo = r.undo /\ it.latest = r.latest
         /\ it.answer = a
  BY <1>1 DEF Requestish
<1>4. Requestish(it)
  BY <1>1, <1>2 DEF Requestish
<1>5. \A q \in wire' : Requestish(q) /\ (q = it \/ q \in wire)
  BY <1>1, <1>4
<1>6. ASSUME NEW what, what # r.what PROVE Mirrored(what)
  BY <1>2, <1>6 DEF Mirrored, Alike
<1>7. ASSUME NEW what, AtMostOne(what), what = r.what, NEW q \in wire', q.what = what PROVE q = it
  BY <1>7 DEF AtMostOne
<1>8. ASSUME NEW what, AtMostOne(what) PROVE AtMostOne(what)'
  <2>1. CASE what = r.what
    <3>1. r.latest
      BY <1>8, <2>1 DEF AtMostOne
    <3> QED
      BY <1>2, <1>7, <1>8, <2>1, <3>1 DEF AtMostOne
  <2>2. CASE what # r.what
    <3>1. \A q \in wire' : q.what = what => q \in wire
      BY <1>2, <1>5, <2>2
    <3> QED
      BY <1>8, <3>1 DEF AtMostOne
  <2> QED
    BY <2>1, <2>2
<1>9. it \in wire'
  OBVIOUS
<1> QED
  BY <1>2, <1>4, <1>5, <1>6, <1>7, <1>8, <1>9

(* What is kept. *)

SameBoxes == \A s \in Systems : server'.sys[s].excluded = server.sys[s].excluded

SameModes == \A s \in Systems : server'.sys[s].full = server.sys[s].full

LEMMA CheckedKept ==
  ASSUME Shaped, CheckedIsIncluded, modal'.chosen \subseteq modal.chosen, SameBoxes,
         Mirrored("exclude")
  PROVE  CheckedIsIncluded'
<1>1. ASSUME NEW s \in Systems, s \in modal'.chosen, server'.sys[s].excluded
      PROVE  \E q \in wire' : q.what = "exclude" /\ q.ask = [system |-> s, excluded |-> FALSE]
  <2>1. PICK r \in wire : r.what = "exclude" /\ r.ask = [system |-> s, excluded |-> FALSE]
    BY <1>1 DEF CheckedIsIncluded, SameBoxes
  <2>2. PICK q \in wire' : Alike(q, r)
    BY <2>1 DEF Mirrored
  <2> QED
    BY <2>1, <2>2 DEF Alike
<1>2. ASSUME NEW q \in wire', q.what = "exclude"
      PROVE  /\ q.ask.excluded =>
                  /\ q.ask.system \notin modal'.chosen
                  /\ q.answer # "ok" => ~server'.sys[q.ask.system].excluded
             /\ ~q.ask.excluded /\ q.answer = "ok" => ~server'.sys[q.ask.system].excluded
  <2>1. PICK r \in wire : Alike(q, r)
    BY <1>2 DEF Mirrored
  <2>2. r.what = "exclude" /\ r.ask.system \in Systems
    BY <1>2, <2>1 DEF Alike, Shaped, Requestish
  <2> QED
    BY <2>1, <2>2 DEF Alike, CheckedIsIncluded, SameBoxes
<1> QED
  BY <1>1, <1>2 DEF CheckedIsIncluded

LEMMA ChosenKept ==
  ASSUME Shaped, ChosenIsSaved, modal'.chosen = modal.chosen, SameBoxes, Mirrored("exclude")
  PROVE  ChosenIsSaved'
<1>1. ASSUME NEW s \in Systems, \A q \in wire' : q.what = "exclude" => q.ask.system # s
      PROVE  (s \in modal'.chosen) = ~server'.sys[s].excluded
  <2>1. \A r \in wire : r.what = "exclude" => r.ask.system # s
    BY <1>1 DEF Mirrored, Alike
  <2> QED
    BY <2>1 DEF ChosenIsSaved, SameBoxes
<1>2. ASSUME NEW q \in wire', q.what = "exclude"
      PROVE  /\ (q.ask.system \in modal'.chosen) = ~q.ask.excluded
             /\ server'.sys[q.ask.system].excluded = ((q.answer = "ok") = q.ask.excluded)
  <2>1. PICK r \in wire : Alike(q, r)
    BY <1>2 DEF Mirrored
  <2>2. r.what = "exclude" /\ r.ask.system \in Systems
    BY <1>2, <2>1 DEF Alike, Shaped, Requestish
  <2>3. /\ (r.ask.system \in modal.chosen) = ~r.ask.excluded
        /\ server.sys[r.ask.system].excluded = ((r.answer = "ok") = r.ask.excluded)
    BY <2>2 DEF ChosenIsSaved
  <2>4. q.ask = r.ask /\ q.answer = r.answer
    BY <2>1 DEF Alike
  <2> QED
    BY <2>2, <2>3, <2>4 DEF SameBoxes
<1> QED
  BY <1>1, <1>2 DEF ChosenIsSaved

LEMMA ModeKept ==
  ASSUME Shaped, ModeIsSaved, modal'.full = modal.full, SameModes, Mirrored("mode"),
         AtMostOne("mode")'
  PROVE  ModeIsSaved'
<1>1. ASSUME NEW s \in Systems, \A q \in wire' : q.what = "mode" => q.ask.system # s
      PROVE  modal'.full[s] = server'.sys[s].full
  <2>1. \A r \in wire : r.what = "mode" => r.ask.system # s
    BY <1>1 DEF Mirrored, Alike
  <2> QED
    BY <2>1 DEF ModeIsSaved, SameModes
<1>2. ASSUME NEW q \in wire', q.what = "mode"
      PROVE  /\ modal'.full[q.ask.system] = q.ask.full /\ q.undo = ~q.ask.full
             /\ server'.sys[q.ask.system].full = ((q.answer = "ok") = q.ask.full)
  <2>1. PICK r \in wire : Alike(q, r)
    BY <1>2 DEF Mirrored
  <2>2. r.what = "mode" /\ r.ask.system \in Systems
    BY <1>2, <2>1 DEF Alike, Shaped, Requestish
  <2>3. /\ modal.full[r.ask.system] = r.ask.full /\ r.undo = ~r.ask.full
        /\ server.sys[r.ask.system].full = ((r.answer = "ok") = r.ask.full)
    BY <2>2 DEF ModeIsSaved
  <2>4. q.ask = r.ask /\ q.answer = r.answer /\ q.undo = r.undo
    BY <2>1 DEF Alike
  <2> QED
    BY <2>2, <2>3, <2>4 DEF SameModes
<1> QED
  BY <1>1, <1>2 DEF ModeIsSaved

GroupsKept ==
  /\ server.made \subseteq server'.made /\ Ungrouped \in Dialog!ToSet(server'.order)
  /\ \A k \in Given : Gone(k) => k \notin Dialog!ToSet(server'.order)

PlacesKept ==
  \A s \in Systems :
    /\ server'.sys[s].order = server.sys[s].order
    /\ \/ server'.sys[s].group = server.sys[s].group
       \/ server'.sys[s].group = Ungrouped /\ server.sys[s].group \notin Dialog!ToSet(server'.order)

FitsThen(p, s) ==
  /\ p.order = server'.sys[s].order
  /\ p.group = server'.sys[s].group
       \/ (server'.sys[s].group = Ungrouped /\ p.group \notin Dialog!ToSet(server'.order))

LEMMA FitKept ==
  ASSUME TypedServer, GroupsKept, PlacesKept, NEW s \in Systems, NEW p, p.group \in Given,
         Fits(p, s)
  PROVE  FitsThen(p, s)
<1>1. server'.sys[s].order = server.sys[s].order
  BY DEF PlacesKept
<1>2. Gone(p.group) => p.group \notin Dialog!ToSet(server'.order)
  BY DEF GroupsKept
<1>3. CASE p.group = server.sys[s].group
  BY <1>1, <1>3 DEF PlacesKept, Fits, FitsThen
<1>4. CASE server.sys[s].group = Ungrouped /\ Gone(p.group)
  <2>1. server'.sys[s].group = Ungrouped
    BY <1>4 DEF PlacesKept
  <2> QED
    BY <1>1, <1>2, <1>4, <2>1 DEF Fits, FitsThen
<1> QED
  BY <1>3, <1>4 DEF Fits

LEMMA SamePlaces == ASSUME UNCHANGED server, TypedServer PROVE GroupsKept /\ PlacesKept
BY DEF GroupsKept, PlacesKept, TypedServer, Gone

LEMMA PlaceKept ==
  ASSUME Typed, PlaceIsSaved, modal # None, GroupsKept, PlacesKept, Mirrored("place"),
         pending' = pending, modal'.edit => modal.edit, modal'.list = modal.list,
         drag' = drag \/ (~Moving /\ ~Moving')
  PROVE  PlaceIsSaved'
<1>1. TypedServer /\ modal.list \in [Systems -> Listed] /\ TypedPending /\ TypedDrag /\ TypedWire
  BY DEF Typed, TypedModal
<1>2. ASSUME NEW s \in Systems PROVE modal.list[s].group \in Given
  BY <1>1 DEF Listed
<1>3. ASSUME NEW s \in DOMAIN pending PROVE pending[s].group \in Given /\ s \in Systems
  BY <1>1 DEF TypedPending, Placement
<1>4. ASSUME \A q \in wire' : q.what = "place" => q.answer = "ok" PROVE Fitting'
  <2>1. \A r \in wire : r.what = "place" => r.answer = "ok"
    BY <1>4 DEF Mirrored, Alike
  <2>2. Fitting
    BY <2>1 DEF PlaceIsSaved
  <2>3. ASSUME NEW s \in DOMAIN pending' PROVE Fits(pending[s], s)'
    <3>1. s \in DOMAIN pending /\ s \in Systems /\ pending[s].group \in Given /\ Fits(pending[s], s)
      BY <1>3, <2>2, <2>3 DEF Fitting
    <3>2. FitsThen(pending[s], s)
      BY <1>1, <3>1, FitKept
    <3> QED
      BY <3>2 DEF FitsThen, Fits, Gone
  <2>4. ASSUME modal'.edit, NEW s \in Systems
        PROVE  \/ Fits(modal.list[s], s)'
               \/ Moving' /\ drag'.to # <<>> /\ Same(modal.list[s], drag.to[s])'
    <3>1. \/ Fits(modal.list[s], s)
          \/ Moving /\ drag.to # <<>> /\ Same(modal.list[s], drag.to[s])
      BY <2>2, <2>4 DEF Fitting
    <3>2. CASE Fits(modal.list[s], s)
      <4>1. FitsThen(modal.list[s], s)
        BY <1>1, <1>2, <3>2, FitKept
      <4> QED
        BY <4>1 DEF FitsThen, Fits, Gone
    <3>3. CASE Moving /\ drag.to # <<>> /\ Same(modal.list[s], drag.to[s])
      BY <3>3 DEF Moving, Same
    <3> QED
      BY <3>1, <3>2, <3>3
  <2> QED
    BY <2>3, <2>4 DEF Fitting
<1>5. ASSUME NEW q \in wire', q.what = "place"
      PROVE  /\ q.answer # "ok" => \A s \in Systems : Fits(q.undo[s], s)'
             /\ q.answer = "none" => DialogAsked(q)'
  <2>1. PICK r \in wire : Alike(q, r)
    BY <1>5 DEF Mirrored
  <2>2. r.what = "place" /\ r.ask = q.ask /\ r.undo = q.undo /\ r.answer = q.answer
    BY <1>5, <2>1 DEF Alike
  <2>3. r.ask \in [Systems -> Placement] /\ r.undo \in [Systems -> Listed]
    BY <1>1, <2>2 DEF TypedWire
  <2>4. ASSUME q.answer # "ok", NEW s \in Systems PROVE Fits(q.undo[s], s)'
    <3>1. Fits(r.undo[s], s) /\ r.undo[s].group \in Given
      BY <2>2, <2>3, <2>4 DEF PlaceIsSaved, Listed
    <3>2. FitsThen(r.undo[s], s)
      BY <1>1, <3>1, FitKept
    <3> QED
      BY <2>2, <3>2 DEF FitsThen, Fits, Gone
  <2>5. ASSUME q.answer = "none" PROVE DialogAsked(q)'
    <3>1. DialogAsked(r)
      BY <2>2, <2>5 DEF PlaceIsSaved
    <3>2. CASE \E s \in Systems : Gone(r.ask[s].group)
      <4>1. PICK s \in Systems : Gone(r.ask[s].group)
        BY <3>2
      <4>2. r.ask[s].group \in Given
        BY <2>3 DEF Placement
      <4>3. r.ask[s].group \notin Dialog!ToSet(server'.order)
        BY <4>1, <4>2 DEF GroupsKept
      <4> QED
        BY <2>2, <4>3 DEF DialogAsked, Gone
    <3>3. CASE \E s \in Systems : r.ask[s].group \notin Dialog!ToSet(server'.order)
      BY <2>2, <3>3 DEF DialogAsked, Gone
    <3>4. CASE /\ \A s \in DOMAIN pending : pending[s] = r.ask[s]
               /\ \A s \in Systems \ DOMAIN pending : Same(server.sys[s], r.ask[s])
               /\ modal.edit => \A s \in Systems : Same(modal.list[s], r.ask[s])
               /\ \A s \in Systems : r.ask[s].group \in Dialog!ToSet(server'.order)
      <4>1. ASSUME NEW s \in Systems \ DOMAIN pending PROVE Same(server.sys[s], r.ask[s])'
        <5>1. server.sys[s].group = r.ask[s].group /\ server.sys[s].order = r.ask[s].order
          BY <3>4 DEF Same
        <5>2. server'.sys[s].group = server.sys[s].group
                /\ server'.sys[s].order = server.sys[s].order
          BY <3>4, <5>1 DEF PlacesKept
        <5> QED
          BY <5>1, <5>2 DEF Same
      <4> QED
        BY <2>2, <3>4, <4>1 DEF DialogAsked, Same
    <3> QED
      BY <3>1, <3>2, <3>3, <3>4 DEF DialogAsked
  <2> QED
    BY <2>4, <2>5
<1>6. ASSUME Moving', NEW s \in Systems PROVE Fits(drag.before[s], s)'
  <2>1. Moving /\ drag' = drag
    BY <1>6 DEF Moving
  <2>2. drag.before \in [Systems -> Listed]
    BY <1>1, <2>1 DEF Moving, TypedDrag, Dragish
  <2>3. Fits(drag.before[s], s) /\ drag.before[s].group \in Given
    BY <2>1, <2>2 DEF PlaceIsSaved, Listed
  <2>4. FitsThen(drag.before[s], s)
    BY <1>1, <2>3, FitKept
  <2> QED
    BY <2>1, <2>4 DEF FitsThen, Fits, Gone
<1> QED
  BY <1>4, <1>5, <1>6 DEF PlaceIsSaved

(* What the effect of edit mode does. *)

Modalish(m) ==
  m \in [edit : BOOLEAN, list : {m.list}, order : {m.order}, chosen : SUBSET Systems,
         full : {m.full},
         regular : BOOLEAN]

LEMMA RefreshedIs ==
  ASSUME NEW m, m # None => Modalish(m), Dialog!Refreshed(m)
  PROVE  /\ modal' # None => Modalish(modal)'
         /\ m = None => modal' = None
         /\ m # None /\ modal' # None =>
              /\ modal'.edit = m.edit /\ modal'.order = m.order /\ modal'.regular = m.regular
              /\ modal'.chosen \subseteq m.chosen
<1>1. CASE m = None \/ ~m.edit
  <2>1. modal' = m
    BY <1>1 DEF Dialog!Refreshed
  <2> QED
    BY <2>1 DEF Modalish
<1>2. CASE m # None /\ m.edit
  <2>1. PICK entries,
          full : modal' = [m EXCEPT !.list = entries,
                           !.chosen = m.chosen \cap Dialog!Candidates(data'), !.full = full]
    BY <1>2 DEF Dialog!Refreshed
  <2>2. PICK chosen \in SUBSET Systems : chosen = m.chosen \cap Dialog!Candidates(data')
    BY <1>2 DEF Modalish
  <2>3. modal' = [m EXCEPT !.list = entries, !.chosen = chosen, !.full = full]
    BY <2>1, <2>2
  <2>4. /\ modal'.edit = m.edit /\ modal'.order = m.order /\ modal'.regular = m.regular
        /\ modal'.list = entries /\ modal'.chosen = chosen /\ modal'.full = full
        /\ modal' \in [edit : BOOLEAN, list : {modal'.list}, order : {modal'.order},
                       chosen : SUBSET Systems,
                       full : {modal'.full}, regular : BOOLEAN]
    BY <1>2, <2>3 DEF Modalish
  <2> QED
    BY <1>2, <2>2, <2>4 DEF Modalish
<1> QED
  BY <1>1, <1>2

LEMMA AllListed ==
  ASSUME NEW known, known.sys \in [Systems -> Known]
  PROVE  /\ Dialog!Candidates(known) = Systems
         /\ Dialog!Rows(known) = [s \in Systems |-> [group |-> known.sys[s].group,
                                                     order |-> known.sys[s].order,
                                                     updates |-> TRUE]]
<1>1. \A s \in Systems : known.sys[s].state = "updates"
  BY DEF Known
<1>2. Dialog!Candidates(known) = Systems
  BY <1>1 DEF Dialog!Candidates
<1>3. \A s \in Systems : (known.sys[s].state = "updates") = TRUE
  BY <1>1
<1> QED
  BY <1>2, <1>3 DEF Dialog!Rows

LEMMA PlacedIs ==
  ASSUME NEW entries \in [Systems -> Listed], NEW D \in SUBSET Systems,
         NEW places \in [D -> Placement]
  PROVE  /\ Dialog!Placed(entries, places) \in [Systems -> Listed]
         /\ \A s \in Systems : Same(Dialog!Placed(entries, places)[s],
                                    IF s \in D THEN places[s] ELSE entries[s])
<1> DEFINE row(s) == [entries[s] EXCEPT !.group = places[s].group, !.order = places[s].order]
<1>1. ASSUME NEW s \in D PROVE row(s) \in Listed /\ Same(row(s), places[s])
  <2>1. entries[s] \in Listed /\ places[s] \in Placement
    OBVIOUS
  <2> QED
    BY <2>1 DEF Listed, Placement, Same
<1> DEFINE new == [s \in Systems |-> IF s \in D THEN row(s) ELSE entries[s]]
<1>2. Dialog!Placed(entries, places) = new
  BY DEF Dialog!Placed
<1> HIDE DEF row
<1>3. \A s \in Systems : new[s] = IF s \in D THEN row(s) ELSE entries[s]
  OBVIOUS
<1>4. new \in [Systems -> Listed]
  BY <1>1
<1> HIDE DEF new
<1> QED
  BY <1>1, <1>2, <1>3, <1>4 DEF Same

\* Systems that do not wait are shown as they were read.
LEMMA RefreshedAll ==
  ASSUME TypedPending, data'.sys \in [Systems -> Known], NEW m, m # None, Modalish(m), m.edit,
         m.full \in [Systems -> BOOLEAN], Dialog!Refreshed(m)
  PROVE  /\ DOMAIN pending' \subseteq DOMAIN pending /\ pending' \in [DOMAIN pending' -> Placement]
         /\ \A s \in DOMAIN pending' : pending'[s] = pending[s]
         /\ \A s \in DOMAIN pending \ DOMAIN pending' : Same(data'.sys[s], pending[s])
         /\ modal'.list \in [Systems -> Listed] /\ modal'.full = m.full /\ modal'.chosen = m.chosen
         /\ \A s \in Systems : Same(modal'.list[s],
                                    IF s \in DOMAIN pending' THEN pending[s] ELSE data'.sys[s])
<1> DEFINE same(s) == /\ s \in Systems
                      /\ data'.sys[s].group = pending[s].group
                      /\ data'.sys[s].order = pending[s].order
           D == {t \in DOMAIN pending : ~same(t)}
           left == [s \in D |-> pending[s]]
           rows == [s \in Systems |-> [group |-> data'.sys[s].group, order |-> data'.sys[s].order,
                                       updates |-> TRUE]]
<1>2. Dialog!Candidates(data') = Systems /\ Dialog!Rows(data') = rows
  BY AllListed
<1>3. /\ pending' = left
      /\ modal' = [m EXCEPT !.list = Dialog!Placed(Dialog!Rows(data'), left),
                   !.chosen = m.chosen \cap Dialog!Candidates(data'),
                     !.full = [s \in Dialog!Candidates(data') |->
                                 IF s \in DOMAIN m.full THEN m.full[s] ELSE data'.sys[s].full]]
  BY <1>2 DEF Dialog!Refreshed
<1>4. D \subseteq Systems /\ left \in [D -> Placement] /\ DOMAIN left = D
  BY DEF TypedPending
<1>5. rows \in [Systems -> Listed]
  <2>1. \A s \in Systems : data'.sys[s].group \in Given /\ data'.sys[s].order \in Nat
    BY DEF Known
  <2> QED
    BY <2>1 DEF Listed
<1>6. m.chosen \cap Systems = m.chosen
  BY DEF Modalish
<1>7. [s \in Systems |-> IF s \in DOMAIN m.full THEN m.full[s] ELSE data'.sys[s].full] = m.full
  OBVIOUS
<1>8. \A s \in D : left[s] = pending[s]
  OBVIOUS
<1>9. \A s \in DOMAIN pending \ D : Same(data'.sys[s], pending[s])
  BY DEF Same
<1>10. \A s \in Systems : Same(rows[s], data'.sys[s])
  BY DEF Same
<1>11. D \subseteq DOMAIN pending
  OBVIOUS
<1> HIDE DEF D, left, rows, same
<1>12. modal'.list = Dialog!Placed(rows, left) /\ modal'.chosen = m.chosen /\ modal'.full = m.full
  BY <1>2, <1>3, <1>6, <1>7 DEF Modalish
<1>13. /\ Dialog!Placed(rows, left) \in [Systems -> Listed]
       /\ \A s \in Systems : Same(Dialog!Placed(rows, left)[s],
                                  IF s \in D THEN left[s] ELSE rows[s])
  BY <1>4, <1>5, PlacedIs
<1>14. \A s \in Systems : Same(Dialog!Placed(rows, left)[s],
                               IF s \in D THEN pending[s] ELSE data'.sys[s])
  BY <1>8, <1>10, <1>13 DEF Same
<1> QED
  BY <1>3, <1>4, <1>8, <1>9, <1>11, <1>12, <1>13, <1>14

LEMMA PlaceRead ==
  ASSUME Typed, PlaceIsSaved, data'.sys = server.sys, UNCHANGED <<server, drag>>, Mirrored("place"),
         NEW m, m # None, Modalish(m), m.edit, m.full \in [Systems -> BOOLEAN], Dialog!Refreshed(m),
             modal' # None
  PROVE  PlaceIsSaved'
<1>1. TypedPending /\ data'.sys \in [Systems -> Known]
  BY DEF Typed, TypedServer
<1>2. /\ DOMAIN pending' \subseteq DOMAIN pending /\ DOMAIN pending \subseteq Systems
      /\ \A s \in DOMAIN pending' : pending'[s] = pending[s]
      /\ \A s \in DOMAIN pending \ DOMAIN pending' : Same(server.sys[s], pending[s])
      /\ \A s \in Systems : Same(modal'.list[s],
                                 IF s \in DOMAIN pending' THEN pending[s] ELSE server.sys[s])
  BY <1>1, RefreshedAll DEF TypedPending
<1>3. ASSUME \A q \in wire' : q.what = "place" => q.answer = "ok" PROVE Fitting'
  <2>1. \A r \in wire : r.what = "place" => r.answer = "ok"
    BY <1>3 DEF Mirrored, Alike
  <2>2. Fitting
    BY <2>1 DEF PlaceIsSaved
  <2>3. ASSUME NEW s \in DOMAIN pending' PROVE Fits(pending[s], s)'
    BY <1>2, <2>2, <2>3 DEF Fitting, Fits, Gone
  <2>4. ASSUME NEW s \in Systems PROVE Fits(modal.list[s], s)'
    <3>1. CASE s \in DOMAIN pending'
      <4>1. Same(modal'.list[s], pending[s]) /\ Fits(pending[s], s)
        BY <1>2, <2>2, <3>1 DEF Fitting
      <4> QED
        BY <4>1 DEF Same, Fits, Gone
    <3>2. CASE s \notin DOMAIN pending'
      <4>1. Same(modal'.list[s], server.sys[s])
        BY <1>2, <3>2
      <4> QED
        BY <4>1 DEF Same, Fits, Gone
    <3> QED
      BY <3>1, <3>2
  <2> QED
    BY <2>3, <2>4 DEF Fitting
<1>4. ASSUME NEW q \in wire', q.what = "place"
      PROVE  /\ q.answer # "ok" => \A s \in Systems : Fits(q.undo[s], s)'
             /\ q.answer = "none" => DialogAsked(q)'
  <2>1. PICK r \in wire : Alike(q, r)
    BY <1>4 DEF Mirrored
  <2>2. r.what = "place" /\ r.ask = q.ask /\ r.undo = q.undo /\ r.answer = q.answer
    BY <1>4, <2>1 DEF Alike
  <2>3. ASSUME q.answer # "ok", NEW s \in Systems PROVE Fits(q.undo[s], s)'
    BY <2>2, <2>3 DEF PlaceIsSaved, Fits, Gone
  <2>4. ASSUME q.answer = "none" PROVE DialogAsked(q)'
    <3>1. DialogAsked(r)
      BY <2>2, <2>4 DEF PlaceIsSaved
    <3>2. CASE \E s \in Systems : Gone(r.ask[s].group)
      BY <2>2, <3>2 DEF DialogAsked, Gone
    <3>3. CASE /\ \A s \in DOMAIN pending : pending[s] = r.ask[s]
               /\ \A s \in Systems \ DOMAIN pending : Same(server.sys[s], r.ask[s])
      <4>1. \A s \in DOMAIN pending' : pending'[s] = r.ask[s]
        BY <1>2, <3>3
      <4>2. \A s \in Systems \ DOMAIN pending' : Same(server.sys[s], r.ask[s])
        <5> SUFFICES ASSUME NEW s \in Systems \ DOMAIN pending' PROVE Same(server.sys[s], r.ask[s])
          OBVIOUS
        <5>1. CASE s \in DOMAIN pending
          BY <1>2, <3>3, <5>1
        <5>2. CASE s \notin DOMAIN pending
          BY <3>3, <5>2
        <5> QED
          BY <5>1, <5>2
      <4>3. \A s \in Systems : Same(modal'.list[s], r.ask[s])
        <5> SUFFICES ASSUME NEW s \in Systems PROVE Same(modal'.list[s], r.ask[s])
          OBVIOUS
        <5>1. CASE s \in DOMAIN pending'
          BY <1>2, <3>3, <5>1 DEF Same
        <5>2. CASE s \notin DOMAIN pending'
          BY <1>2, <4>2, <5>2 DEF Same
        <5> QED
          BY <5>1, <5>2
      <4> QED
        BY <2>2, <4>1, <4>2, <4>3 DEF DialogAsked, Same
    <3> QED
      BY <3>1, <3>2, <3>3 DEF DialogAsked
  <2> QED
    BY <2>3, <2>4
<1>5. ASSUME Moving', NEW s \in Systems PROVE Fits(drag.before[s], s)'
  BY <1>5 DEF PlaceIsSaved, Moving, Fits, Gone
<1> QED
  BY <1>3, <1>4, <1>5 DEF PlaceIsSaved

-------------------------------------------------------------------------------
(* The steps. *)

LEMMA OpenKeeps == ASSUME DialogInv, Dialog!Open PROVE DialogInv'
<1>1. PICK regular \in BOOLEAN : regular = (wire = {} /\ Dialog!Current)
  OBVIOUS
<1> DEFINE chosen == {s \in Dialog!Candidates(data) : ~data.sys[s].excluded}
           full == [s \in Dialog!Candidates(data) |-> data.sys[s].full]
           m == [edit |-> FALSE, list |-> Dialog!Rows(data), order |-> None, chosen |-> chosen,
                 full |-> full,
                 regular |-> regular]
<1>2. /\ modal' = m /\ pending' = <<>>
          /\ UNCHANGED <<server, data, drag, dialog, wire, sent, session>>
      /\ drag = None /\ sent = None
  BY <1>1 DEF Dialog!Open, Dialog!Idle
<1>3. chosen \in SUBSET Systems
  BY DEF Dialog!Candidates
<1> HIDE DEF chosen, full
<1>4. /\ m \in [edit : BOOLEAN, list : {m.list}, order : {m.order}, chosen : SUBSET Systems,
                full : {m.full}, regular : BOOLEAN]
      /\ m.edit = FALSE /\ m.list = Dialog!Rows(data) /\ m.order = None /\ m.chosen = chosen
         /\ m.full = full
      /\ m.regular = regular
  BY <1>3
<1> HIDE DEF m
<1>5. Shaped'
  BY <1>2, <1>4 DEF DialogInv, Shaped, Requestish
<1>6. AtMostOne("exclude")'
  BY <1>2 DEF DialogInv, AtMostOne
<1>7. ASSUME regular PROVE wire = {} /\ \A s \in Systems : s \in chosen => ~server.sys[s].excluded
  BY <1>1, <1>7 DEF chosen, Dialog!Current
<1>8. Regular' => CheckedIsIncluded'
  BY <1>2, <1>4, <1>7 DEF Regular, CheckedIsIncluded
<1>9. ASSUME session'.alone
      PROVE  /\ Typed' /\ AtMostOne("place")'
             /\ Regular' => ChosenIsSaved' /\ ModeIsSaved' /\ PlaceIsSaved'
  <2>1. Typed /\ AtMostOne("place")
    BY <1>2, <1>9 DEF DialogInv
  <2>2. /\ Dialog!Candidates(data) = Systems
        /\ Dialog!Rows(data) = [s \in Systems |-> [group |-> data.sys[s].group,
                                                   order |-> data.sys[s].order,
                                                   updates |-> TRUE]]
    BY <2>1, AllListed DEF Typed, TypedData
  <2>3. \A s \in Systems : /\ data.sys[s].group \in Given /\ data.sys[s].order \in Nat
                           /\ data.sys[s].full \in BOOLEAN
    BY <2>1 DEF Typed, TypedData, Known
  <2>4. Dialog!Rows(data) \in [Systems -> Listed] /\ full \in [Systems -> BOOLEAN]
    BY <2>2, <2>3 DEF Listed, full
  <2>5. DOMAIN pending' = {} /\ pending' \in [{} -> Placement']
    BY <1>2
  <2>6. TypedServer' /\ TypedData' /\ TypedDrag' /\ TypedWire'
    BY <1>2, <2>1 DEF Typed, TypedServer, TypedData, TypedDrag, TypedWire, Given, Known, Placement,
       Listed
  <2>7. TypedModal' /\ TypedPending'
    BY <1>2, <1>4, <2>4, <2>5 DEF TypedModal, TypedPending, Given, Listed
  <2>8. ASSUME Regular' PROVE ChosenIsSaved' /\ ModeIsSaved' /\ PlaceIsSaved'
    <3>1. wire = {} /\ wire' = {} /\ Dialog!Current /\ modal'.full = full /\ modal'.chosen = chosen
            /\ ~modal'.edit
      BY <1>1, <1>2, <1>4, <2>8 DEF Regular
    <3>2. \A s \in Systems : (s \in chosen) = ~server.sys[s].excluded
      BY <2>2, <3>1 DEF chosen, Dialog!Current
    <3>3. \A s \in Systems : full[s] = server.sys[s].full
      BY <2>2, <3>1 DEF full, Dialog!Current
    <3>4. ~Moving'
      BY <1>2 DEF Moving
    <3> QED
      BY <1>2, <2>5, <3>1, <3>2, <3>3, <3>4 DEF ChosenIsSaved, ModeIsSaved, PlaceIsSaved, AtMostOne,
         Fitting
  <2>9. AtMostOne("place")'
    BY <1>2, <2>1 DEF AtMostOne
  <2> QED
    BY <2>6, <2>7, <2>8, <2>9 DEF Typed
<1>10. Dialog!QueuedAsIncluded'
  BY <1>2 DEF Dialog!QueuedAsIncluded
<1> QED
  BY <1>2, <1>5, <1>6, <1>8, <1>9, <1>10 DEF DialogInv

LEMMA ClosedKeeps ==
  ASSUME DialogInv, Dialog!Closed, UNCHANGED <<server, data, wire, session>>,
         Dialog!QueuedAsIncluded'
  PROVE  DialogInv'
<1>1. modal' = None /\ pending' = <<>> /\ drag' = None /\ dialog' = None
  BY DEF Dialog!Closed
<1>2. Shaped' /\ AtMostOne("exclude")' /\ ~Regular'
  BY <1>1 DEF DialogInv, Shaped, Requestish, AtMostOne, Regular
<1>3. ASSUME session'.alone PROVE Typed' /\ AtMostOne("place")'
  <2>1. Typed /\ AtMostOne("place")
    BY <1>3 DEF DialogInv
  <2>2. DOMAIN pending' = {} /\ pending' \in [{} -> Placement']
    BY <1>1
  <2>3. TypedServer' /\ TypedData' /\ TypedWire'
    BY <1>1, <2>1 DEF Typed, TypedServer, TypedData, TypedWire, Given, Known, Placement, Listed
  <2>4. TypedModal' /\ TypedPending' /\ TypedDrag'
    BY <1>1, <2>2 DEF TypedModal, TypedPending, TypedDrag
  <2> QED
    BY <2>1, <2>3, <2>4 DEF Typed, AtMostOne
<1> QED
  BY <1>2, <1>3 DEF DialogInv

LEMMA CloseKeeps == ASSUME DialogInv, Dialog!Close PROVE DialogInv'
<1>1. Dialog!Closed /\ UNCHANGED <<server, data, wire, session>> /\ sent' = None
  BY DEF Dialog!Close
<1>2. Dialog!QueuedAsIncluded'
  BY <1>1 DEF Dialog!QueuedAsIncluded
<1> QED
  BY <1>1, <1>2, ClosedKeeps

LEMMA SubmitKeeps == ASSUME DialogInv, Dialog!Submit PROVE DialogInv'
<1> DEFINE items == {s \in modal.chosen \cap DOMAIN modal.list : Dialog!Latest(s)}
           full == [s \in items |-> s \in DOMAIN modal.full /\ modal.full[s]]
<1>1. /\ modal # None /\ sent = None
      /\ Dialog!Closed /\ UNCHANGED <<server, data, wire, session>>
      /\ sent' = [full |-> full, listed |-> Dialog!Visible, regular |-> modal.regular]
  BY DEF Dialog!Submit, Dialog!Shown, Dialog!Idle
<1>2. items \subseteq modal.chosen /\ items \subseteq Systems
  BY <1>1 DEF DialogInv, Shaped
<1>3. \A s \in items : full[s] = (s \in DOMAIN modal.full /\ modal.full[s])
  OBVIOUS
<1>4. DOMAIN full = items
  OBVIOUS
<1> HIDE DEF items, full
<1>5. sent'.full = full /\ sent'.regular = modal.regular
  BY <1>1
<1>6. ASSUME sent'.regular, NEW s \in DOMAIN sent'.full
      PROVE  /\ server'.sys[s].excluded
                  => \E r \in wire' : r.what = "exclude"
                      /\ r.ask = [system |-> s, excluded |-> FALSE]
             /\ session'.alone /\ sent'.full[s] # server'.sys[s].full
                  => \E r \in wire' : r.what = "mode" /\ r.ask.system = s
  <2>1. s \in items /\ s \in Systems /\ s \in modal.chosen /\ Regular
    BY <1>1, <1>2, <1>4, <1>5, <1>6 DEF Regular
  <2>2. CheckedIsIncluded
    BY <1>1, <2>1 DEF DialogInv
  <2>3. ASSUME session.alone, \A r \in wire : r.what = "mode" => r.ask.system # s
        PROVE  full[s] = server.sys[s].full
    <3>1. ModeIsSaved /\ modal.full \in [Systems -> BOOLEAN]
      BY <1>1, <2>1, <2>3 DEF DialogInv, Typed, TypedModal
    <3>2. modal.full[s] = server.sys[s].full /\ modal.full[s] \in BOOLEAN /\ s \in DOMAIN modal.full
      BY <2>1, <2>3, <3>1 DEF ModeIsSaved
    <3> QED
      BY <1>3, <2>1, <3>2
  <2>4. server'.sys[s].excluded
          => \E r \in wire' : r.what = "exclude" /\ r.ask = [system |-> s, excluded |-> FALSE]
    BY <1>1, <2>1, <2>2 DEF CheckedIsIncluded
  <2> QED
    BY <1>1, <1>5, <2>3, <2>4
<1>7. Dialog!QueuedAsIncluded'
  BY <1>6 DEF Dialog!QueuedAsIncluded
<1> QED
  BY <1>1, <1>7, ClosedKeeps

LEMMA CheckedDone ==
  ASSUME Shaped, AtMostOne("exclude"), CheckedIsIncluded, NEW r \in wire, r.what = "exclude",
         r.answer = "ok",
         wire' = wire \ {r}, modal'.chosen \subseteq modal.chosen, SameBoxes
  PROVE  CheckedIsIncluded'
<1>1. \A q \in wire' : q.what # "exclude"
  BY DEF AtMostOne
<1>2. ASSUME NEW s \in Systems, s \in modal'.chosen, server'.sys[s].excluded PROVE FALSE
  <2>1. s \in modal.chosen /\ server.sys[s].excluded
    BY <1>2 DEF SameBoxes
  <2>2. PICK q \in wire : q.what = "exclude" /\ q.ask = [system |-> s, excluded |-> FALSE]
    BY <2>1 DEF CheckedIsIncluded
  <2>3. r.ask.system = s /\ ~r.ask.excluded
    BY <2>2 DEF AtMostOne
  <2> QED
    BY <2>1, <2>3 DEF CheckedIsIncluded
<1> QED
  BY <1>1, <1>2 DEF CheckedIsIncluded

LEMMA ChosenDone ==
  ASSUME Shaped, AtMostOne("exclude"), ChosenIsSaved, NEW r \in wire, r.what = "exclude",
         r.answer = "ok",
         wire' = wire \ {r}, modal'.chosen = modal.chosen, SameBoxes
  PROVE  ChosenIsSaved'
<1>1. \A q \in wire' : q.what # "exclude"
  BY DEF AtMostOne
<1>2. r.ask.system \in Systems /\ r.ask.excluded \in BOOLEAN
  BY DEF Shaped, Requestish
<1>3. ASSUME NEW s \in Systems PROVE (s \in modal.chosen) = ~server.sys[s].excluded
  <2>1. CASE s = r.ask.system
    <3>1. (s \in modal.chosen) = ~r.ask.excluded /\ server.sys[s].excluded = (TRUE = r.ask.excluded)
      BY <2>1 DEF ChosenIsSaved
    <3> QED
      BY <1>2, <3>1
  <2>2. CASE s # r.ask.system
    <3>1. \A q \in wire : q.what = "exclude" => q.ask.system # s
      BY <2>2 DEF AtMostOne
    <3> QED
      BY <3>1 DEF ChosenIsSaved
  <2> QED
    BY <2>1, <2>2
<1> QED
  BY <1>1, <1>3 DEF ChosenIsSaved, SameBoxes

LEMMA ModeDone ==
  ASSUME Shaped, ModeIsSaved, NEW r \in wire, r.what = "mode", r.answer = "ok",
         wire' = wire \ {r}, modal'.full = modal.full, SameModes
  PROVE  ModeIsSaved'
<1>1. \A q \in wire' : q.what # "mode"
  BY DEF AtMostOne, ModeIsSaved
<1>2. r.ask.system \in Systems /\ r.ask.full \in BOOLEAN
  BY DEF Shaped, Requestish
<1>3. ASSUME NEW s \in Systems PROVE modal.full[s] = server.sys[s].full
  <2>1. CASE s = r.ask.system
    <3>1. modal.full[s] = r.ask.full /\ server.sys[s].full = (TRUE = r.ask.full)
      BY <2>1 DEF ModeIsSaved
    <3> QED
      BY <1>2, <3>1
  <2>2. CASE s # r.ask.system
    <3>1. \A q \in wire : q.what = "mode" => q.ask.system # s
      BY <2>2 DEF AtMostOne, ModeIsSaved
    <3> QED
      BY <3>1 DEF ModeIsSaved
  <2> QED
    BY <2>1, <2>2
<1> QED
  BY <1>1, <1>3 DEF ModeIsSaved, SameModes, AtMostOne

\* A dialog is never taken for none.
LEMMA ModalIsOne ==
  ASSUME Dialog!DialogAssumption, TypedServer, NEW m, Modalish(m), m.list \in [Systems -> Listed],
         m.full \in [Systems -> BOOLEAN], m.order \in Seq(Given) \cup {None}
  PROVE  m # None
<1>1. Given \subseteq Dialog!Keys
  BY DEF Given, Dialog!Keys, TypedServer
<1>2. Listed \subseteq [group : Dialog!Keys, order : Nat, updates : BOOLEAN]
  BY <1>1 DEF Listed
<1>3. m.order \in Seq(Dialog!Keys) \cup {None}
  BY <1>1, SeqGrows
<1>4. m.list \in [Systems -> [group : Dialog!Keys, order : Nat, updates : BOOLEAN]]
  BY <1>2
<1> QED
  BY <1>3, <1>4 DEF Dialog!DialogAssumption, Modalish

\* What was sent is still what is answered.
LEMMA RefreshKeeps ==
  ASSUME Dialog!DialogAssumption, DialogInv, sent' = None, sent = None,
         UNCHANGED <<server, drag, session>>,
         data' \in [sys : {data'.sys}, order : {data'.order}], data'.sys \in {data.sys, server.sys},
         data'.order = data.order, dialog' # None
             => dialog' \in [what : {"rename", "delete"}, group : Groups],
         \A q \in wire' : q \in wire, Mirrored("place"),
         CheckedIsIncluded /\ modal'.chosen \subseteq modal.chosen => CheckedIsIncluded',
         ChosenIsSaved /\ modal'.chosen = modal.chosen => ChosenIsSaved',
         ModeIsSaved /\ modal'.full = modal.full => ModeIsSaved',
         NEW m, Dialog!Refreshed(m), modal = None => m = None,
         m # None => /\ modal # None /\ Modalish(m) /\ m.list = modal.list /\ m.order = modal.order
                     /\ m.chosen = modal.chosen /\ m.full = modal.full
                     /\ m.regular => modal.regular /\ (m.edit => data'.sys = server.sys),
         session.alone /\ drag # None => m # None /\ m.edit
  PROVE  DialogInv'
<1>1. /\ modal' # None => Modalish(modal)' /\ m # None
      /\ m # None /\ modal' # None =>
              /\ modal'.edit = m.edit /\ modal'.order = m.order /\ modal'.regular = m.regular
              /\ modal'.chosen \subseteq m.chosen
  BY RefreshedIs
<1>2. Shaped'
  BY <1>1 DEF DialogInv, Shaped, Modalish, Requestish
<1>3. AtMostOne("exclude")'
  BY DEF DialogInv, AtMostOne
<1>4. ASSUME Regular' PROVE CheckedIsIncluded' /\ Regular
  <2>1. Regular /\ modal'.chosen \subseteq modal.chosen
    BY <1>1, <1>4 DEF Regular
  <2> QED
    BY <2>1 DEF DialogInv
<1>5. ASSUME session'.alone
      PROVE  /\ Typed' /\ AtMostOne("place")'
             /\ Regular' => ChosenIsSaved' /\ ModeIsSaved' /\ PlaceIsSaved'
  <2>1. Typed /\ AtMostOne("place")
    BY <1>5 DEF DialogInv
  <2>2. data'.sys \in [Systems -> Known]
    BY <2>1 DEF Typed, TypedData, TypedServer
  <2>3. TypedServer' /\ TypedData'
    BY <2>1, <2>2 DEF Typed, TypedServer, TypedData, Given, Known
  <2>4. TypedWire' /\ AtMostOne("place")'
    BY <2>1 DEF Typed, TypedWire, AtMostOne, Given, Placement, Listed
  <2>5. CASE m = None \/ ~m.edit
    <3>1. modal' = m /\ pending' = pending /\ drag = None
      BY <1>5, <2>5 DEF Dialog!Refreshed
    <3>2. TypedModal' /\ TypedPending' /\ TypedDrag'
      BY <2>1, <3>1 DEF Typed, TypedModal, TypedPending, TypedDrag, Given, Placement, Listed
    <3>3. ASSUME Regular' PROVE ChosenIsSaved' /\ ModeIsSaved' /\ PlaceIsSaved'
      <4>1. Regular /\ m # None /\ modal'.chosen = modal.chosen /\ modal'.full = modal.full
            /\ modal'.list = modal.list /\ ~modal'.edit
        BY <1>1, <2>5, <3>1, <3>3 DEF Regular
      <4>2. ChosenIsSaved /\ ModeIsSaved /\ PlaceIsSaved
        BY <1>5, <4>1 DEF DialogInv
      <4>3. GroupsKept /\ PlacesKept
        BY <2>1, SamePlaces DEF Typed
      <4>4. PlaceIsSaved'
        BY <2>1, <3>1, <4>1, <4>2, <4>3, PlaceKept DEF Regular
      <4> QED
        BY <4>1, <4>2, <4>4
    <3> QED
      BY <2>1, <2>3, <2>4, <3>2, <3>3 DEF Typed
  <2>6. CASE m # None /\ m.edit
    <3>1. TypedPending /\ m.full \in [Systems -> BOOLEAN] /\ m.order \in Seq(Given) \cup {None}
      BY <2>1, <2>6 DEF Typed, TypedModal
    <3>2. /\ DOMAIN pending' \subseteq DOMAIN pending /\ pending' \in [DOMAIN pending' -> Placement]
          /\ modal'.list \in [Systems -> Listed] /\ modal'.full = m.full /\ modal'.chosen = m.chosen
      BY <2>2, <2>6, <3>1, RefreshedAll
    <3>3. modal' # None => modal'.edit /\ modal'.order = m.order
      BY <1>1, <2>6
    <3>4. TypedModal' /\ TypedPending'
      BY <2>6, <3>1, <3>2, <3>3 DEF TypedModal, TypedPending, Given, Placement, Listed
    <3>5. modal' # None
      <4>1. PICK entries,
              full : modal' = [m EXCEPT !.list = entries,
                               !.chosen = m.chosen \cap Dialog!Candidates(data'), !.full = full]
        BY <2>6 DEF Dialog!Refreshed
      <4>2. modal' \in [edit : {modal'.edit}, list : {modal'.list}, order : {modal'.order},
                        chosen : {modal'.chosen}, full : {modal'.full}, regular : {modal'.regular}]
            /\ modal'.edit = m.edit /\ modal'.order = m.order /\ modal'.regular = m.regular
        BY <2>6, <4>1 DEF Modalish
      <4>3. Modalish(modal')
        BY <2>6, <3>2, <4>2 DEF Modalish
      <4> QED
        BY <2>1, <3>1, <3>2, <4>2, <4>3, ModalIsOne DEF Typed
    <3>6. TypedDrag'
      BY <2>1, <3>3, <3>5 DEF Typed, TypedDrag, Dragish, Given, Placement, Listed
    <3>7. ASSUME Regular' PROVE ChosenIsSaved' /\ ModeIsSaved' /\ PlaceIsSaved'
      <4>1. Regular /\ data'.sys = server.sys /\ modal' # None
        BY <1>1, <2>6, <3>7 DEF Regular
      <4>2. ChosenIsSaved /\ ModeIsSaved /\ PlaceIsSaved
        BY <1>5, <4>1 DEF DialogInv
      <4>3. PlaceIsSaved'
        BY <2>1, <2>6, <3>1, <4>1, <4>2, PlaceRead
      <4>4. modal'.chosen = modal.chosen /\ modal'.full = modal.full
        BY <2>6, <3>2
      <4> QED
        BY <4>2, <4>3, <4>4
    <3> QED
      BY <2>1, <2>3, <2>4, <3>4, <3>6, <3>7 DEF Typed
  <2> QED
    BY <2>5, <2>6
<1>6. Dialog!QueuedAsIncluded'
  BY DEF Dialog!QueuedAsIncluded
<1> QED
  BY <1>2, <1>3, <1>4, <1>5, <1>6 DEF DialogInv

LEMMA ToggleEditKeeps == ASSUME Dialog!DialogAssumption, DialogInv, Dialog!ToggleEdit
      PROVE DialogInv'
<1> DEFINE m == [modal EXCEPT !.edit = ~modal.edit,
                 !.regular = modal.regular /\ (modal.edit \/ data.sys = server.sys)]
<1>1. /\ sent = None /\ drag = None /\ modal # None /\ Dialog!Refreshed(m)
      /\ UNCHANGED <<server, data, drag, dialog, wire, sent, session>>
  BY DEF Dialog!ToggleEdit, Dialog!Shown, Dialog!Idle
<1>2. Shaped
  BY DEF DialogInv
<1>3. PICK edit \in BOOLEAN, regular \in BOOLEAN :
        edit = ~modal.edit /\ regular = (modal.regular /\ (modal.edit \/ data.sys = server.sys))
  OBVIOUS
<1>4. m = [modal EXCEPT !.edit = edit, !.regular = regular]
  BY <1>3
<1>5. /\ m \in [edit : BOOLEAN, list : {m.list}, order : {m.order}, chosen : SUBSET Systems,
                full : {m.full}, regular : BOOLEAN]
      /\ m.list = modal.list /\ m.order = modal.order /\ m.chosen = modal.chosen
         /\ m.full = modal.full
      /\ m.regular = regular /\ m.edit = edit
  BY <1>1, <1>2, <1>4 DEF Shaped
<1> HIDE DEF m
<1>6. Modalish(m) /\ (m.regular => modal.regular /\ (m.edit => data'.sys = server.sys))
  BY <1>1, <1>3, <1>5 DEF Modalish
<1>7. /\ data' \in [sys : {data'.sys}, order : {data'.order}]
      /\ dialog' # None => dialog' \in [what : {"rename", "delete"}, group : Groups]
      /\ data'.sys = data.sys /\ data'.order = data.order
  BY <1>1, <1>2 DEF Shaped
<1>8. Mirrored("place") /\ Mirrored("exclude") /\ Mirrored("mode")
  BY <1>1, SameMirrored
<1>9. SameBoxes /\ SameModes
  BY <1>1 DEF SameBoxes, SameModes
<1>10. CheckedIsIncluded /\ modal'.chosen \subseteq modal.chosen => CheckedIsIncluded'
  BY <1>2, <1>8, <1>9, CheckedKept
<1>11. ChosenIsSaved /\ modal'.chosen = modal.chosen => ChosenIsSaved'
  BY <1>2, <1>8, <1>9, ChosenKept
<1>12. ModeIsSaved /\ modal'.full = modal.full => ModeIsSaved'
  <2>1. AtMostOne("mode") => AtMostOne("mode")'
    BY <1>1 DEF AtMostOne
  <2> QED
    BY <1>2, <1>8, <1>9, <2>1, ModeKept DEF ModeIsSaved
<1> QED
  BY <1>1, <1>5, <1>6, <1>7, <1>8, <1>10, <1>11, <1>12, RefreshKeeps

LEMMA ModalIs ==
  ASSUME DialogInv
  PROVE  /\ Shaped /\ (modal # None => Modalish(modal))
         /\ session.alone /\ drag # None => modal # None /\ modal.edit
         /\ session.alone => Typed
BY DEF DialogInv, Shaped, Modalish, Typed, TypedDrag

\* What is shown stays, and so do the systems.
LEMMA PlainKeeps ==
  ASSUME DialogInv, sent' = None, sent = None, UNCHANGED <<server, modal, pending>>,
         data' \in [sys : {data.sys}, order : {data.order, server.order}],
         dialog' # None => dialog' \in [what : {"rename", "delete"}, group : Groups], SessionKept,
         \A q \in wire' : Requestish(q), Regular => Mirrored("exclude"), AtMostOne("exclude")',
         Typed => TypedWire' /\ TypedDrag', AtMostOne("place") => AtMostOne("place")',
         Typed /\ Regular /\ ModeIsSaved => ModeIsSaved', Typed /\ Regular /\ AtMostOne("place")
             /\ PlaceIsSaved => PlaceIsSaved'
  PROVE  DialogInv'
<1>1. Shaped'
  BY DEF DialogInv, Shaped, SessionKept
<1>2. SameBoxes /\ (Regular' <=> Regular) /\ session'.alone = session.alone
  BY DEF SameBoxes, Regular, SessionKept
<1>3. ASSUME Regular' PROVE CheckedIsIncluded'
  BY <1>2, <1>3, CheckedKept DEF DialogInv
<1>4. ASSUME session'.alone
      PROVE  /\ Typed' /\ AtMostOne("place")'
             /\ Regular' => ChosenIsSaved' /\ ModeIsSaved' /\ PlaceIsSaved'
  <2>1. Typed /\ AtMostOne("place") /\ (Regular => ChosenIsSaved /\ ModeIsSaved /\ PlaceIsSaved)
    BY <1>2, <1>4 DEF DialogInv
  <2>2. TypedServer' /\ TypedData' /\ TypedModal' /\ TypedPending'
    BY <2>1 DEF Typed, TypedServer, TypedData, TypedModal, TypedPending, Given, Known, Placement,
       Listed
  <2>3. ASSUME Regular' PROVE ChosenIsSaved'
    BY <1>2, <2>1, <2>3, ChosenKept DEF DialogInv
  <2> QED
    BY <1>2, <2>1, <2>2, <2>3 DEF Typed
<1>5. Dialog!QueuedAsIncluded'
  BY DEF Dialog!QueuedAsIncluded
<1> QED
  BY <1>1, <1>3, <1>4, <1>5 DEF DialogInv

LEMMA DialogReadKeeps == ASSUME Dialog!DialogAssumption, DialogInv, Dialog!Read PROVE DialogInv'
<1>1. Shaped /\ sent = None /\ UNCHANGED <<server, drag, dialog, wire, sent, session>>
  BY ModalIs DEF Dialog!Read
<1>2. /\ Mirrored("place") /\ Mirrored("exclude") /\ Mirrored("mode") /\ SameBoxes /\ SameModes
      /\ dialog' # None => dialog' \in [what : {"rename", "delete"}, group : Groups]
      /\ AtMostOne("mode") => AtMostOne("mode")'
  BY <1>1, SameMirrored DEF SameBoxes, SameModes, Shaped, AtMostOne
<1>3. CASE data' = [data EXCEPT !.sys = server.sys] /\ Dialog!Refreshed(modal)
  <2>1. /\ data' \in [sys : {data'.sys}, order : {data'.order}]
        /\ data'.sys = server.sys /\ data'.order = data.order
    BY <1>1, <1>3 DEF Shaped
  <2>2. CheckedIsIncluded /\ modal'.chosen \subseteq modal.chosen => CheckedIsIncluded'
    BY <1>1, <1>2, CheckedKept
  <2>3. ChosenIsSaved /\ modal'.chosen = modal.chosen => ChosenIsSaved'
    BY <1>1, <1>2, ChosenKept
  <2>4. ModeIsSaved /\ modal'.full = modal.full => ModeIsSaved'
    BY <1>1, <1>2, ModeKept DEF ModeIsSaved
  <2>5. /\ modal # None => Modalish(modal)
        /\ session.alone /\ drag # None => modal # None /\ modal.edit
    BY ModalIs
  <2> QED
    BY <1>1, <1>2, <1>3, <2>1, <2>2, <2>3, <2>4, <2>5, RefreshKeeps
<1>4. CASE data' = [data EXCEPT !.order = server.order] /\ UNCHANGED <<modal, pending>>
  <2>1. data' \in [sys : {data.sys}, order : {data.order, server.order}]
    BY <1>1, <1>4 DEF Shaped
  <2>2. \A q \in wire' : Requestish(q)
    BY <1>1 DEF Shaped
  <2>3. AtMostOne("exclude")' /\ (AtMostOne("place") => AtMostOne("place")') /\ SessionKept
    BY <1>1 DEF DialogInv, AtMostOne, SessionKept, Shaped
  <2>4. ASSUME Typed PROVE TypedWire' /\ TypedDrag'
    BY <1>1, <1>4, <2>4 DEF Typed, TypedWire, TypedDrag, Dragish, Given, Placement, Listed
  <2>5. ModeIsSaved => ModeIsSaved'
    BY <1>1, <1>2, <1>4, ModeKept DEF ModeIsSaved
  <2>6. ASSUME Typed, Regular, AtMostOne("place"), PlaceIsSaved PROVE PlaceIsSaved'
    <3>1. GroupsKept /\ PlacesKept
      BY <1>1, <2>6, SamePlaces DEF Typed
    <3> QED
      BY <1>1, <1>2, <1>4, <2>6, <3>1, PlaceKept DEF Regular
  <2> QED
    BY <1>1, <1>2, <1>4, <2>1, <2>2, <2>3, <2>4, <2>5, <2>6, PlainKeeps
<1> QED
  BY <1>3, <1>4 DEF Dialog!Read

LEMMA DoneKeeps ==
  ASSUME Dialog!DialogAssumption, DialogInv, NEW r \in wire, Dialog!Done(r), sent = None,
         UNCHANGED <<server, sent, session>>
  PROVE  DialogInv'
<1>1. /\ Shaped /\ AtMostOne("exclude") /\ Requestish(r) /\ r.answer = "ok" /\ wire' = wire \ {r}
          /\ UNCHANGED drag
      /\ dialog' # None => dialog' \in [what : {"rename", "delete"}, group : Groups]
  BY ModalIs DEF Dialog!Done, Shaped, DialogInv
<1>2. /\ \A q \in wire' : Requestish(q) /\ q \in wire
      /\ \A what : /\ what # r.what => Mirrored(what)
                   /\ AtMostOne(what) => AtMostOne(what)'
                      /\ (what = r.what => \A q \in wire' : q.what # what)
  BY <1>1, PassedIs
<1>3. SameBoxes /\ SameModes
  BY DEF SameBoxes, SameModes
<1>4. CASE r.what \in {"exclude", "mode"}
  <2>1. data' = [data EXCEPT !.sys = server.sys] /\ Dialog!Refreshed(modal)
    BY <1>4 DEF Dialog!Done
  <2>2. /\ data' \in [sys : {data'.sys}, order : {data'.order}]
        /\ data'.sys = server.sys /\ data'.order = data.order
    BY <1>1, <2>1 DEF Shaped
  <2>3. CheckedIsIncluded /\ modal'.chosen \subseteq modal.chosen => CheckedIsIncluded'
    <3>1. CASE r.what = "exclude"
      BY <1>1, <1>3, <3>1, CheckedDone
    <3>2. CASE r.what = "mode"
      <4>1. Mirrored("exclude")
        BY <1>2, <3>2
      <4> QED
        BY <1>1, <1>3, <4>1, CheckedKept
    <3> QED
      BY <1>4, <3>1, <3>2
  <2>4. ChosenIsSaved /\ modal'.chosen = modal.chosen => ChosenIsSaved'
    <3>1. CASE r.what = "exclude"
      BY <1>1, <1>3, <3>1, ChosenDone
    <3>2. CASE r.what = "mode"
      <4>1. Mirrored("exclude")
        BY <1>2, <3>2
      <4> QED
        BY <1>1, <1>3, <4>1, ChosenKept
    <3> QED
      BY <1>4, <3>1, <3>2
  <2>5. ModeIsSaved /\ modal'.full = modal.full => ModeIsSaved'
    <3>1. CASE r.what = "mode"
      BY <1>1, <1>3, <3>1, ModeDone
    <3>2. CASE r.what = "exclude"
      <4>1. Mirrored("mode") /\ (AtMostOne("mode") => AtMostOne("mode")')
        BY <1>2, <3>2
      <4> QED
        BY <1>1, <1>3, <4>1, ModeKept DEF ModeIsSaved
    <3> QED
      BY <1>4, <3>1, <3>2
  <2>6. /\ modal # None => Modalish(modal)
        /\ session.alone /\ drag # None => modal # None /\ modal.edit
    BY ModalIs
  <2>7. Mirrored("place")
    BY <1>2, <1>4
  <2>8. \A q \in wire' : q \in wire
    BY <1>2
  <2> QED
    BY <1>1, <2>1, <2>2, <2>3, <2>4, <2>5, <2>6, <2>7, <2>8, RefreshKeeps
<1>5. CASE r.what \notin {"exclude", "mode"}
  <2>1. UNCHANGED <<data, modal, pending>>
    BY <1>5 DEF Dialog!Done
  <2>2. data' \in [sys : {data.sys}, order : {data.order, server.order}]
    BY <1>1, <2>1 DEF Shaped
  <2>3. Mirrored("exclude") /\ Mirrored("mode") /\ AtMostOne("exclude")' /\ SessionKept
        /\ (AtMostOne("place") => AtMostOne("place")') /\ (AtMostOne("mode") => AtMostOne("mode")')
    BY <1>1, <1>2, <1>5 DEF SessionKept, Shaped
  <2>4. ASSUME Typed PROVE TypedWire' /\ TypedDrag'
    BY <1>1, <1>2, <2>1, <2>4 DEF Typed, TypedWire, TypedDrag, Dragish, Given, Placement, Listed
  <2>5. ModeIsSaved => ModeIsSaved'
    BY <1>1, <1>3, <2>1, <2>3, ModeKept DEF ModeIsSaved
  <2>6. ASSUME Typed, Regular, AtMostOne("place"), PlaceIsSaved PROVE PlaceIsSaved'
    <3>1. CASE r.what # "place"
      <4>1. GroupsKept /\ PlacesKept /\ Mirrored("place")
        BY <1>2, <2>6, <3>1, SamePlaces DEF Typed
      <4> QED
        BY <1>1, <2>1, <2>6, <4>1, PlaceKept DEF Regular
    <3>2. CASE r.what = "place"
      <4>1. (\A q \in wire : q.what = "place" => q.answer = "ok")
              /\ \A q \in wire' : q.what # "place"
        BY <1>1, <1>2, <2>6, <3>2 DEF AtMostOne
      <4>2. Fitting
        BY <2>6, <4>1 DEF PlaceIsSaved
      <4>3. Fitting'
        BY <1>1, <2>1, <4>2 DEF Fitting, Fits, Same, Gone, Moving
      <4>4. Moving' => \A s \in Systems : Fits(drag.before[s], s)'
        BY <1>1, <2>6 DEF PlaceIsSaved, Moving, Fits, Gone
      <4> QED
        BY <4>1, <4>3, <4>4 DEF PlaceIsSaved
    <3> QED
      BY <3>1, <3>2
  <2> QED
    BY <1>1, <1>2, <2>1, <2>2, <2>3, <2>4, <2>5, <2>6, PlainKeeps
<1> QED
  BY <1>4, <1>5

LEMMA RestoredIs ==
  ASSUME NEW m, Modalish(m), NEW r, Requestish(r)
  PROVE  LET it == Dialog!Restored(r, m)
         IN /\ Modalish(it) /\ it.edit = m.edit /\ it.regular = m.regular
            /\ it.chosen = IF r.what # "exclude" THEN m.chosen
                          ELSE IF r.ask.excluded THEN m.chosen \cup {r.ask.system}
                          ELSE m.chosen \ {r.ask.system}
            /\ it.full = IF r.what = "mode" THEN Dialog!With(m.full, r.ask.system, r.undo)
               ELSE m.full
            /\ it.list = IF r.what = "place" THEN r.undo ELSE m.list
            /\ it.order = IF r.what = "order" THEN r.undo ELSE m.order
<1> DEFINE it == Dialog!Restored(r, m)
<1>1. CASE r.what = "exclude"
  <2>1. PICK chosen \in SUBSET Systems :
          chosen = IF r.ask.excluded THEN m.chosen \cup {r.ask.system}
              ELSE m.chosen \ {r.ask.system}
    BY <1>1 DEF Modalish, Requestish
  <2>2. it = [m EXCEPT !.chosen = chosen]
    BY <1>1, <2>1 DEF Dialog!Restored
  <2> HIDE DEF it
  <2> QED
    BY <1>1, <2>1, <2>2 DEF Modalish, it
<1>2. CASE r.what = "mode"
  <2>1. PICK full : full = Dialog!With(m.full, r.ask.system, r.undo)
    OBVIOUS
  <2>2. it = [m EXCEPT !.full = full]
    BY <1>2, <2>1 DEF Dialog!Restored
  <2> HIDE DEF it
  <2> QED
    BY <1>2, <2>1, <2>2 DEF Modalish, it
<1>3. CASE r.what = "place"
  <2>1. it = [m EXCEPT !.list = r.undo]
    BY <1>3 DEF Dialog!Restored
  <2> HIDE DEF it
  <2> QED
    BY <1>3, <2>1 DEF Modalish, it
<1>4. CASE r.what = "order"
  <2>1. it = [m EXCEPT !.order = r.undo]
    BY <1>4 DEF Dialog!Restored
  <2> HIDE DEF it
  <2> QED
    BY <1>4, <2>1 DEF Modalish, it
<1>5. CASE r.what \notin {"exclude", "mode", "place", "order"}
  BY <1>5 DEF Dialog!Restored
<1> QED
  BY <1>1, <1>2, <1>3, <1>4, <1>5

LEMMA ChosenUndone ==
  ASSUME Shaped, AtMostOne("exclude"), ChosenIsSaved, NEW r \in wire, r.what = "exclude",
         r.answer = "error",
         wire' = wire \ {r}, UNCHANGED server,
         r.latest => modal'.chosen = IF r.ask.excluded THEN modal.chosen \cup {r.ask.system}
                                     ELSE modal.chosen \ {r.ask.system}
  PROVE  ChosenIsSaved'
<1>1. (\A q \in wire' : q.what # "exclude") /\ r.latest
  BY DEF AtMostOne
<1>2. r.ask.system \in Systems /\ r.ask.excluded \in BOOLEAN
  BY DEF Shaped, Requestish
<1>3. ASSUME NEW s \in Systems PROVE (s \in modal'.chosen) = ~server.sys[s].excluded
  <2>1. CASE s = r.ask.system
    <3>1. server.sys[s].excluded = (FALSE = r.ask.excluded)
      BY <2>1 DEF ChosenIsSaved
    <3>2. (s \in modal'.chosen) = r.ask.excluded
      BY <1>1, <1>2, <2>1
    <3> QED
      BY <1>2, <3>1, <3>2
  <2>2. CASE s # r.ask.system
    <3>1. \A q \in wire : q.what = "exclude" => q.ask.system # s
      BY <2>2 DEF AtMostOne
    <3>2. (s \in modal'.chosen) = (s \in modal.chosen)
      BY <1>1, <1>2, <2>2
    <3> QED
      BY <3>1, <3>2 DEF ChosenIsSaved
  <2> QED
    BY <2>1, <2>2
<1> QED
  BY <1>1, <1>3 DEF ChosenIsSaved

LEMMA ModeUndone ==
  ASSUME Shaped, ModeIsSaved, NEW r \in wire, r.what = "mode", r.answer = "error",
         wire' = wire \ {r}, UNCHANGED server, modal.full \in [Systems -> BOOLEAN],
         modal'.full = Dialog!With(modal.full, r.ask.system, r.undo)
  PROVE  ModeIsSaved'
<1>1. \A q \in wire' : q.what # "mode"
  BY DEF AtMostOne, ModeIsSaved
<1>2. r.ask.system \in Systems /\ r.ask.full \in BOOLEAN
  BY DEF Shaped, Requestish
<1>3. ASSUME NEW s \in Systems PROVE modal'.full[s] = server.sys[s].full
  <2>1. CASE s = r.ask.system
    <3>1. r.undo = ~r.ask.full /\ server.sys[s].full = (FALSE = r.ask.full)
      BY <2>1 DEF ModeIsSaved
    <3>2. modal'.full[s] = r.undo
      BY <1>2, <2>1 DEF Dialog!With
    <3> QED
      BY <1>2, <3>1, <3>2
  <2>2. CASE s # r.ask.system
    <3>1. \A q \in wire : q.what = "mode" => q.ask.system # s
      BY <2>2 DEF AtMostOne, ModeIsSaved
    <3>2. modal'.full[s] = modal.full[s]
      BY <2>2 DEF Dialog!With
    <3> QED
      BY <3>1, <3>2 DEF ModeIsSaved
  <2> QED
    BY <2>1, <2>2
<1> QED
  BY <1>1, <1>3 DEF ModeIsSaved, AtMostOne

LEMMA FailedKeeps ==
  ASSUME Dialog!DialogAssumption, DialogInv, NEW r \in wire, Dialog!Failed(r), sent = None,
         UNCHANGED <<server, sent, session>>
  PROVE  DialogInv'
<1>1. /\ Shaped /\ AtMostOne("exclude") /\ Requestish(r) /\ r.answer = "error" /\ wire' = wire \ {r}
      /\ UNCHANGED <<data, drag, dialog>>
      /\ pending' = IF r.what = "place" /\ r.latest THEN <<>> ELSE pending
      /\ modal = None => modal' = None
      /\ modal # None => Modalish(modal)
  BY ModalIs DEF Dialog!Failed, Shaped, DialogInv
<1>2. /\ \A q \in wire' : Requestish(q) /\ q \in wire
      /\ \A what : /\ what # r.what => Mirrored(what)
                   /\ AtMostOne(what) => AtMostOne(what)'
                      /\ (what = r.what => \A q \in wire' : q.what # what)
  BY <1>1, PassedIs
<1>3. SameBoxes /\ SameModes
  BY DEF SameBoxes, SameModes
<1>4. ASSUME modal # None
      PROVE  /\ Modalish(modal)' /\ modal'.edit = modal.edit /\ modal'.regular = modal.regular
             /\ ~r.latest => modal' = modal
             /\ r.latest =>
                  /\ modal'.chosen = IF r.what # "exclude" THEN modal.chosen
                                     ELSE IF r.ask.excluded THEN modal.chosen \cup {r.ask.system}
                                     ELSE modal.chosen \ {r.ask.system}
                  /\ modal'.full = IF r.what = "mode" THEN Dialog!With(modal.full, r.ask.system,
                                                                       r.undo) ELSE modal.full
                  /\ modal'.list = IF r.what = "place" THEN r.undo ELSE modal.list
                  /\ modal'.order = IF r.what = "order" THEN r.undo ELSE modal.order
  <2>1. CASE ~r.latest
    <3>1. modal' = modal
      BY <2>1 DEF Dialog!Failed
    <3> QED
      BY <1>1, <1>4, <2>1, <3>1 DEF Modalish
  <2>2. CASE r.latest
    <3> DEFINE it == Dialog!Restored(r, modal)
    <3>1. modal' = it
      BY <1>4, <2>2 DEF Dialog!Failed
    <3>2. /\ Modalish(it) /\ it.edit = modal.edit /\ it.regular = modal.regular
          /\ it.chosen = IF r.what # "exclude" THEN modal.chosen
                        ELSE IF r.ask.excluded THEN modal.chosen \cup {r.ask.system}
                        ELSE modal.chosen \ {r.ask.system}
          /\ it.full = IF r.what = "mode" THEN Dialog!With(modal.full, r.ask.system, r.undo)
             ELSE modal.full
          /\ it.list = IF r.what = "place" THEN r.undo ELSE modal.list
          /\ it.order = IF r.what = "order" THEN r.undo ELSE modal.order
      BY <1>1, <1>4, RestoredIs
    <3> HIDE DEF it
    <3>3. Modalish(modal)'
      BY <3>1, <3>2 DEF Modalish
    <3> QED
      BY <2>2, <3>1, <3>2, <3>3
  <2> QED
    BY <2>1, <2>2
<1>5. Shaped'
  BY <1>1, <1>2, <1>4 DEF Shaped, Modalish
<1>6. ASSUME Regular' PROVE Regular
  BY <1>1, <1>4, <1>6 DEF Regular
<1>7. ASSUME Regular' PROVE CheckedIsIncluded'
  <2>1. modal # None /\ CheckedIsIncluded
    BY <1>6, <1>7 DEF DialogInv, Regular
  <2>2. CASE r.what = "exclude"
    <3>1. r.latest /\ r.ask.system \in Systems /\ r.ask.excluded \in BOOLEAN
      BY <1>1, <2>2 DEF AtMostOne, Requestish
    <3>2. \A q \in wire' : q.what # "exclude"
      BY <1>1, <1>2, <2>2
    <3>3. ASSUME NEW s \in Systems, s \in modal'.chosen, server.sys[s].excluded PROVE FALSE
      <4>1. CASE s = r.ask.system
        <5>1. r.ask.excluded
          BY <1>4, <2>1, <2>2, <3>1, <3>3, <4>1
        <5> QED
          BY <1>1, <2>1, <2>2, <3>3, <4>1, <5>1 DEF CheckedIsIncluded
      <4>2. CASE s # r.ask.system
        <5>1. s \in modal.chosen
          BY <1>4, <2>1, <2>2, <3>1, <3>3, <4>2
        <5>2. PICK q \in wire : q.what = "exclude" /\ q.ask = [system |-> s, excluded |-> FALSE]
          BY <2>1, <3>3, <5>1 DEF CheckedIsIncluded
        <5>3. q = r
          BY <1>1, <2>2, <5>2 DEF AtMostOne
        <5> QED
          BY <4>2, <5>2, <5>3
      <4> QED
        BY <4>1, <4>2
    <3> QED
      BY <3>2, <3>3 DEF CheckedIsIncluded
  <2>3. CASE r.what # "exclude"
    <3>1. modal'.chosen = modal.chosen /\ Mirrored("exclude")
      BY <1>1, <1>2, <1>4, <2>1, <2>3 DEF Requestish
    <3> QED
      BY <1>1, <1>3, <2>1, <3>1, CheckedKept
  <2> QED
    BY <2>2, <2>3
<1>8. ASSUME session'.alone
      PROVE  /\ Typed' /\ AtMostOne("place")'
             /\ Regular' => ChosenIsSaved' /\ ModeIsSaved' /\ PlaceIsSaved'
  <2>1. Typed /\ AtMostOne("place") /\ AtMostOne("place")'
    BY <1>2, <1>8 DEF DialogInv
  <2>2. TypedServer' /\ TypedData' /\ TypedWire'
    BY <1>1, <1>2, <2>1 DEF Typed, TypedServer, TypedData, TypedWire, Given, Known, Placement,
       Listed
  <2>3. TypedPending'
    <3>1. CASE pending' = pending
      BY <2>1, <3>1 DEF Typed, TypedPending, Given, Placement
    <3>2. CASE pending' = <<>>
      <4>1. DOMAIN pending' = {} /\ pending' \in [{} -> Placement']
        BY <3>2
      <4> QED
        BY <4>1 DEF TypedPending
    <3> QED
      BY <1>1, <3>1, <3>2
  <2>4. ASSUME modal # None
        PROVE  /\ modal'.list \in [Systems -> Listed] /\ modal'.full \in [Systems -> BOOLEAN]
               /\ modal'.order \in Seq(Given) \cup {None}
    <3>1. /\ modal.list \in [Systems -> Listed] /\ modal.full \in [Systems -> BOOLEAN]
          /\ modal.order \in Seq(Given) \cup {None}
      BY <2>1, <2>4 DEF Typed, TypedModal
    <3>2. CASE ~r.latest
      BY <1>4, <2>4, <3>1, <3>2
    <3>3. CASE r.latest
      <4>1. modal'.list \in [Systems -> Listed]
        BY <1>4, <2>1, <2>4, <3>1, <3>3 DEF Typed, TypedWire
      <4>2. modal'.order \in Seq(Given) \cup {None}
        BY <1>4, <2>1, <2>4, <3>1, <3>3 DEF Typed, TypedWire
      <4>3. modal'.full \in [Systems -> BOOLEAN]
        BY <1>1, <1>4, <2>4, <3>1, <3>3 DEF Dialog!With, Requestish
      <4> QED
        BY <4>1, <4>2, <4>3
    <3> QED
      BY <1>1, <3>2, <3>3 DEF Requestish
  <2>5. TypedModal'
    BY <1>1, <2>4 DEF TypedModal, Given, Listed
  <2>7. ASSUME modal # None PROVE modal' # None
    <3>1. Modalish(modal')
      BY <1>4, <2>7 DEF Modalish
    <3> QED
      BY <2>1, <2>4, <2>7, <3>1, ModalIsOne DEF Typed
  <2>8. TypedDrag'
    <3> SUFFICES ASSUME drag # None PROVE modal' # None /\ modal'.edit
      BY <1>1, <1>2, <2>1 DEF Typed, TypedDrag, Dragish, Given, Placement, Listed
    <3>1. modal # None /\ modal.edit
      BY <2>1 DEF Typed, TypedDrag
    <3> QED
      BY <1>4, <2>7, <3>1
  <2>6. ASSUME Regular' PROVE ChosenIsSaved' /\ ModeIsSaved' /\ PlaceIsSaved'
    <3>1. modal # None /\ modal' # None /\ ChosenIsSaved /\ ModeIsSaved /\ PlaceIsSaved
      BY <1>6, <1>8, <2>6 DEF DialogInv, Regular
    <3>2. ChosenIsSaved'
      <4>1. CASE r.what = "exclude"
        BY <1>1, <1>2, <1>4, <3>1, <4>1, ChosenUndone
      <4>2. CASE r.what # "exclude"
        <5>1. modal'.chosen = modal.chosen /\ Mirrored("exclude")
          BY <1>1, <1>2, <1>4, <3>1, <4>2 DEF Requestish
        <5> QED
          BY <1>1, <1>3, <3>1, <5>1, ChosenKept
      <4> QED
        BY <4>1, <4>2
    <3>3. ModeIsSaved'
      <4>1. CASE r.what = "mode"
        <5>1. r.latest
          BY <3>1, <4>1 DEF ModeIsSaved, AtMostOne
        <5>2. modal'.full = Dialog!With(modal.full, r.ask.system, r.undo)
                /\ modal.full \in [Systems -> BOOLEAN]
          BY <1>4, <2>1, <3>1, <4>1, <5>1 DEF Typed, TypedModal
        <5> QED
          BY <1>1, <3>1, <4>1, <5>2, ModeUndone
      <4>2. CASE r.what # "mode"
        <5>1. modal'.full = modal.full /\ Mirrored("mode")
                /\ (AtMostOne("mode") => AtMostOne("mode")')
          BY <1>1, <1>2, <1>4, <3>1, <4>2 DEF Requestish
        <5> QED
          BY <1>1, <1>3, <3>1, <5>1, ModeKept DEF ModeIsSaved
      <4> QED
        BY <4>1, <4>2
    <3>4. PlaceIsSaved'
      <4>1. CASE r.what = "place"
        <5>1. r.latest /\ (\A q \in wire' : q.what # "place") /\ drag = None
          BY <1>2, <2>1, <4>1 DEF AtMostOne, Typed, TypedDrag
        <5>2. modal'.list = r.undo /\ DOMAIN pending' = {} /\ ~Moving'
          BY <1>1, <1>4, <3>1, <4>1, <5>1 DEF Moving
        <5>3. \A s \in Systems : Fits(modal'.list[s], s)
          BY <1>1, <3>1, <4>1, <5>2 DEF PlaceIsSaved
        <5>4. Fitting'
          BY <5>2, <5>3 DEF Fitting, Fits, Gone
        <5> QED
          BY <5>1, <5>2, <5>4 DEF PlaceIsSaved
      <4>2. CASE r.what # "place"
        <5>1. Mirrored("place") /\ pending' = pending /\ modal'.edit = modal.edit
                /\ modal'.list = modal.list
          BY <1>1, <1>2, <1>4, <3>1, <4>2 DEF Requestish
        <5>2. GroupsKept /\ PlacesKept
          BY <2>1, SamePlaces DEF Typed
        <5> QED
          BY <1>1, <2>1, <3>1, <5>1, <5>2, PlaceKept
      <4> QED
        BY <4>1, <4>2
    <3> QED
      BY <3>2, <3>3, <3>4
  <2> QED
    BY <2>1, <2>2, <2>3, <2>5, <2>6, <2>8 DEF Typed
<1>9. Dialog!QueuedAsIncluded'
  BY DEF Dialog!QueuedAsIncluded
<1> QED
  BY <1>1, <1>2, <1>5, <1>7, <1>8, <1>9 DEF DialogInv

LEMMA DialogAnswerKeeps == ASSUME Dialog!DialogAssumption, DialogInv, Dialog!Answer PROVE DialogInv'
<1>1. UNCHANGED <<server, sent, session>> /\ sent = None
  BY DEF Dialog!Answer
<1>2. PICK r \in wire : Dialog!Done(r) \/ Dialog!Failed(r)
  BY DEF Dialog!Answer
<1> QED
  BY <1>1, <1>2, DoneKeeps, FailedKeeps

(* The server. *)

LEMMA TypedGrown ==
  ASSUME Typed, TypedServer', server.made \subseteq server'.made,
         UNCHANGED <<data, modal, pending, drag>>,
         \A q \in wire' : \E r \in wire : q.what = r.what /\ q.ask = r.ask /\ q.undo = r.undo
  PROVE  Typed'
<1>1. Given \subseteq Given'
  BY DEF Given
<1>2. /\ Placement \subseteq Placement' /\ Listed \subseteq Listed' /\ Known \subseteq Known'
  BY <1>1 DEF Placement, Listed, Known
<1>3. \A s \in Seq(Given) : s \in Seq(Given')
  BY <1>1, SeqGrows
<1>4. TypedData'
  BY <1>2, <1>3 DEF Typed, TypedData
<1>5. TypedModal'
  BY <1>2, <1>3 DEF Typed, TypedModal
<1>6. TypedPending'
  BY <1>2 DEF Typed, TypedPending
<1>7. TypedWire'
  <2> SUFFICES ASSUME NEW q \in wire'
               PROVE  /\ q.what = "place" => q.ask \in [Systems -> Placement']
                          /\ q.undo \in [Systems -> Listed']
                      /\ q.what = "order" => q.ask \in Seq(Given') /\ q.undo \in Seq(Given')
    BY DEF TypedWire
  <2>1. PICK r \in wire : q.what = r.what /\ q.ask = r.ask /\ q.undo = r.undo
    OBVIOUS
  <2> QED
    BY <1>2, <1>3, <2>1 DEF Typed, TypedWire
<1>8. drag # None => Dragish(drag)'
  <2> SUFFICES ASSUME drag # None PROVE Dragish(drag)'
    OBVIOUS
  <2>1. Dragish(drag)
    BY DEF Typed, TypedDrag
  <2>2. CASE drag.what = "place"
    <3>1. drag \in [what : {"place"}, of : Systems, before : [Systems -> Listed],
                    to : [Systems -> Placement] \cup {<<>>}]
      BY <2>1, <2>2 DEF Dragish
    <3>2. drag.before \in [Systems -> Listed'] /\ drag.to \in [Systems -> Placement'] \cup {<<>>}
      BY <1>2, <3>1
    <3>3. drag \in [what : {"place"}, of : Systems, before : [Systems -> Listed'],
                    to : [Systems -> Placement'] \cup {<<>>}]
      BY <3>1, <3>2
    <3> QED
      BY <2>2, <3>3 DEF Dragish
  <2>3. CASE drag.what = "order"
    <3>1. drag \in [what : {"order"}, of : Given, before : Seq(Given), to : Seq(Given)]
      BY <2>1, <2>3 DEF Dragish
    <3>2. drag.before \in Seq(Given') /\ drag.to \in Seq(Given') /\ drag.of \in Given'
      BY <1>1, <1>3, <3>1
    <3>3. drag \in [what : {"order"}, of : Given', before : Seq(Given'), to : Seq(Given')]
      BY <3>1, <3>2
    <3> QED
      BY <2>3, <3>3 DEF Dragish
  <2> QED
    BY <2>1, <2>2, <2>3 DEF Dragish
<1>9. TypedDrag'
  BY <1>8 DEF Typed, TypedDrag
<1> QED
  BY <1>4, <1>5, <1>6, <1>7, <1>9 DEF Typed

LEMMA OthersKeepAll == ASSUME DialogInv, Dialog!Others PROVE DialogInv'
<1>1. /\ sent = None /\ UNCHANGED <<data, modal, pending, drag, dialog, wire, sent>>
      /\ session' = [session EXCEPT !.events = session.events - 1, !.alone = FALSE]
  BY DEF Dialog!Others, Dialog!page
<1>2. PICK s \in Systems, state \in Dialog!States : server' = [server EXCEPT !.sys[s].state = state]
  BY DEF Dialog!Others
<1>3. Shaped
  BY DEF DialogInv
<1>4. /\ server'.sys = [server.sys EXCEPT ![s] = [server.sys[s] EXCEPT !.state = state]]
      /\ server' \in [sys : {server'.sys}, order : {server.order}, made : {server.made}]
  BY <1>2, <1>3 DEF Shaped
<1> DEFINE it == [server.sys[s] EXCEPT !.state = state]
<1>5. /\ it \in [group : {it.group}, order : {it.order}, excluded : BOOLEAN, full : BOOLEAN,
                 state : Dialog!States]
      /\ it.excluded = server.sys[s].excluded
  BY <1>2, <1>3 DEF Shaped
<1> HIDE DEF it
<1>6. DOMAIN server.sys = Systems
  BY <1>3 DEF Shaped
<1>7. \A t \in Systems : server'.sys[t] = IF t = s THEN it ELSE server.sys[t]
  BY <1>4, <1>6 DEF it
<1>8. server'.sys \in [Systems -> {server'.sys[t] : t \in Systems}]
  <2>1. server'.sys = [t \in Systems |-> IF t = s THEN it ELSE server.sys[t]]
    BY <1>4, <1>6 DEF it
  <2> QED
    BY <1>7, <2>1
<1>9. session' \in [kinds : {session'.kinds}, requests : {session'.requests},
                    events : {session'.events},
                    alone : BOOLEAN] /\ session'.alone = FALSE
  BY <1>1, <1>3 DEF Shaped
<1>10. Shaped'
  <2>1. \A t \in Systems :
          server'.sys[t] \in [group : {server'.sys[t].group}, order : {server'.sys[t].order},
                              excluded : BOOLEAN, full : BOOLEAN, state : Dialog!States]
    BY <1>3, <1>5, <1>7 DEF Shaped
  <2> QED
    BY <1>1, <1>3, <1>4, <1>8, <1>9, <2>1 DEF Shaped, Requestish
<1>11. SameBoxes
  BY <1>5, <1>7 DEF SameBoxes
<1>12. Regular' => CheckedIsIncluded'
  BY <1>1, <1>3, <1>11, CheckedKept, SameMirrored DEF Regular, DialogInv
<1> QED
  BY <1>1, <1>9, <1>10, <1>12 DEF DialogInv, Dialog!QueuedAsIncluded, AtMostOne

ShapedServer ==
  /\ server \in [sys : {server.sys}, order : {server.order}, made : {server.made}]
  /\ server.sys \in [Systems -> {server.sys[s] : s \in Systems}]
  /\ \A s \in Systems :
       server.sys[s] \in [group : {server.sys[s].group}, order : {server.sys[s].order},
                          excluded : BOOLEAN, full : BOOLEAN, state : Dialog!States]

Rowish(row) ==
  row \in [group : {row.group}, order : {row.order}, excluded : BOOLEAN, full : BOOLEAN,
           state : Dialog!States]

\* What a request does to the rows of the systems.
LEMMA RowsAre ==
  ASSUME ShapedServer, NEW f, server'.sys = [s \in Systems |-> f[s]],
         \A s \in Systems : Rowish(f[s]),
         server' \in [sys : {server'.sys}, order : {server'.order}, made : {server'.made}]
  PROVE  ShapedServer' /\ \A s \in Systems : server'.sys[s] = f[s]
<1>1. \A s \in Systems : server'.sys[s] = f[s]
  OBVIOUS
<1>2. server'.sys \in [Systems -> {server'.sys[s] : s \in Systems}]
  BY <1>1
<1> QED
  BY <1>1, <1>2 DEF ShapedServer, Rowish

LEMMA AppliedIs ==
  ASSUME ShapedServer, NEW r, Requestish(r), server' = Dialog!Applied(r)
  PROVE  /\ ShapedServer'
         /\ r.what # "exclude" => SameBoxes
         /\ r.what = "exclude" => \A s \in Systems : server'.sys[s].excluded =
                                    IF s = r.ask.system THEN r.ask.excluded
                                        ELSE server.sys[s].excluded
         /\ r.what # "mode" => SameModes
         /\ r.what = "mode" => \A s \in Systems : server'.sys[s].full =
                                 IF s = r.ask.system THEN r.ask.full ELSE server.sys[s].full
         /\ \A s \in Systems : server'.sys[s].state = server.sys[s].state
<1>1. server \in [sys : {server.sys}, order : {server.order}, made : {server.made}]
      /\ \A s \in Systems : Rowish(server.sys[s])
  BY DEF ShapedServer, Rowish
<1>2. DOMAIN server.sys = Systems /\ server.sys = [s \in Systems |-> server.sys[s]]
  BY DEF ShapedServer
<1>3. CASE r.what = "exclude"
  <2> DEFINE row(s) == [server.sys[s] EXCEPT !.excluded = r.ask.excluded]
             f == [s \in Systems |-> IF s = r.ask.system THEN row(s) ELSE server.sys[s]]
  <2>1. \A s \in Systems : /\ Rowish(row(s)) /\ row(s).excluded = r.ask.excluded
                           /\ row(s).full = server.sys[s].full /\ row(s).state = server.sys[s].state
    BY <1>1, <1>3 DEF Rowish, Requestish
  <2>2. server' = [server EXCEPT !.sys[r.ask.system].excluded = r.ask.excluded]
    BY <1>3 DEF Dialog!Applied
  <2>8. r.ask.system \in Systems
    BY <1>3 DEF Requestish
  <2>9. server'.sys = [server.sys EXCEPT ![r.ask.system] = row(r.ask.system)]
    BY <1>1, <2>2
  <2>10. server' \in [sys : {server'.sys}, order : {server'.order}, made : {server'.made}]
    BY <1>1, <2>2
  <2>11. [server.sys EXCEPT ![r.ask.system] = row(r.ask.system)] = f
    <3> HIDE DEF row
    <3> QED
      BY <1>2, <2>8
  <2>3. server'.sys = f
          /\ server' \in [sys : {server'.sys}, order : {server'.order}, made : {server'.made}]
    BY <2>9, <2>10, <2>11
  <2>4. \A s \in Systems : f[s] = IF s = r.ask.system THEN row(s) ELSE server.sys[s]
    OBVIOUS
  <2>5. f = [s \in Systems |-> f[s]]
    OBVIOUS
  <2> HIDE DEF row, f
  <2>6. \A s \in Systems : Rowish(f[s])
    BY <1>1, <2>1, <2>4
  <2>7. ShapedServer' /\ \A s \in Systems : server'.sys[s] = f[s]
    BY <2>3, <2>5, <2>6, RowsAre
  <2> QED
    BY <1>3, <2>1, <2>4, <2>7 DEF SameModes
<1>4. CASE r.what = "mode"
  <2> DEFINE row(s) == [server.sys[s] EXCEPT !.full = r.ask.full]
             f == [s \in Systems |-> IF s = r.ask.system THEN row(s) ELSE server.sys[s]]
  <2>1. \A s \in Systems : /\ Rowish(row(s)) /\ row(s).full = r.ask.full
                           /\ row(s).excluded = server.sys[s].excluded
                              /\ row(s).state = server.sys[s].state
    BY <1>1, <1>4 DEF Rowish, Requestish
  <2>2. server' = [server EXCEPT !.sys[r.ask.system].full = r.ask.full]
    BY <1>4 DEF Dialog!Applied
  <2>8. r.ask.system \in Systems
    BY <1>4 DEF Requestish
  <2>9. server'.sys = [server.sys EXCEPT ![r.ask.system] = row(r.ask.system)]
    BY <1>1, <2>2
  <2>10. server' \in [sys : {server'.sys}, order : {server'.order}, made : {server'.made}]
    BY <1>1, <2>2
  <2>11. [server.sys EXCEPT ![r.ask.system] = row(r.ask.system)] = f
    <3> HIDE DEF row
    <3> QED
      BY <1>2, <2>8
  <2>3. server'.sys = f
          /\ server' \in [sys : {server'.sys}, order : {server'.order}, made : {server'.made}]
    BY <2>9, <2>10, <2>11
  <2>4. \A s \in Systems : f[s] = IF s = r.ask.system THEN row(s) ELSE server.sys[s]
    OBVIOUS
  <2>5. f = [s \in Systems |-> f[s]]
    OBVIOUS
  <2> HIDE DEF row, f
  <2>6. \A s \in Systems : Rowish(f[s])
    BY <1>1, <2>1, <2>4
  <2>7. ShapedServer' /\ \A s \in Systems : server'.sys[s] = f[s]
    BY <2>3, <2>5, <2>6, RowsAre
  <2> QED
    BY <1>4, <2>1, <2>4, <2>7 DEF SameBoxes
<1>5. ASSUME NEW f, f = [s \in Systems |-> f[s]], server'.sys = f,
             \A s \in Systems : /\ Rowish(f[s]) /\ f[s].excluded = server.sys[s].excluded
                                /\ f[s].full = server.sys[s].full
                                   /\ f[s].state = server.sys[s].state,
             server' \in [sys : {server'.sys}, order : {server'.order}, made : {server'.made}]
      PROVE  /\ ShapedServer' /\ SameBoxes /\ SameModes
             /\ \A s \in Systems : server'.sys[s].state = server.sys[s].state
  <2>1. ShapedServer' /\ \A s \in Systems : server'.sys[s] = f[s]
    BY <1>5, RowsAre
  <2> QED
    BY <1>5, <2>1 DEF SameBoxes, SameModes
<1>6. CASE r.what = "place"
  <2> DEFINE row(s) == [server.sys[s] EXCEPT !.group = r.ask[s].group, !.order = r.ask[s].order]
             f == [s \in Systems |-> IF s \in DOMAIN r.ask THEN row(s) ELSE server.sys[s]]
  <2>1. \A s \in Systems : /\ Rowish(row(s)) /\ row(s).full = server.sys[s].full
                           /\ row(s).excluded = server.sys[s].excluded
                              /\ row(s).state = server.sys[s].state
    BY <1>1 DEF Rowish
  <2>2. server' = [server EXCEPT !.sys = f]
    BY <1>6 DEF Dialog!Applied
  <2>3. server'.sys = f
          /\ server' \in [sys : {server'.sys}, order : {server'.order}, made : {server'.made}]
    BY <1>1, <2>2
  <2>4. \A s \in Systems : f[s] = IF s \in DOMAIN r.ask THEN row(s) ELSE server.sys[s]
    OBVIOUS
  <2>5. f = [s \in Systems |-> f[s]]
    OBVIOUS
  <2> HIDE DEF row, f
  <2> QED
    BY <1>1, <1>5, <1>6, <2>1, <2>3, <2>4, <2>5
<1>7. CASE r.what = "delete"
  <2> DEFINE row(s) == [server.sys[s] EXCEPT !.group = Ungrouped]
             f == [s \in Systems |-> IF server.sys[s].group = r.ask THEN row(s) ELSE server.sys[s]]
             order == Dialog!Kept(server.order, Dialog!ToSet(server.order) \ {r.ask})
  <2>1. \A s \in Systems : /\ Rowish(row(s)) /\ row(s).full = server.sys[s].full
                           /\ row(s).excluded = server.sys[s].excluded
                              /\ row(s).state = server.sys[s].state
    BY <1>1 DEF Rowish
  <2>2. server' = [server EXCEPT !.sys = f, !.order = order]
    BY <1>7 DEF Dialog!Applied
  <2>4. \A s \in Systems : f[s] = IF server.sys[s].group = r.ask THEN row(s) ELSE server.sys[s]
    OBVIOUS
  <2>5. f = [s \in Systems |-> f[s]]
    OBVIOUS
  <2> HIDE DEF row, f, order
  <2>3. server'.sys = f
          /\ server' \in [sys : {server'.sys}, order : {server'.order}, made : {server'.made}]
    BY <1>1, <2>2
  <2> QED
    BY <1>1, <1>5, <1>7, <2>1, <2>3, <2>4, <2>5
<1>8. CASE r.what \in {"order", "rename", "create"}
  <2>1. server'.sys = server.sys
          /\ server' \in [sys : {server'.sys}, order : {server'.order}, made : {server'.made}]
    BY <1>1, <1>8 DEF Dialog!Applied, Dialog!Created
  <2> QED
    BY <1>1, <1>2, <1>5, <1>8, <2>1
<1> QED
  BY <1>3, <1>4, <1>6, <1>7, <1>8 DEF Requestish, Dialog!Kinds

LEMMA ContainsIs == ASSUME NEW S, NEW entries \in Seq(S), NEW k
      PROVE Dialog!Contains(entries, k) = (k \in Dialog!ToSet(entries))
<1>1. DOMAIN entries = 1 .. Len(entries)
  BY LenProperties
<1>2. Dialog!Contains(entries, k) <=> k \in Dialog!ToSet(entries)
  BY <1>1 DEF Dialog!Contains, Dialog!ToSet
<1>3. Dialog!Contains(entries, k) \in BOOLEAN /\ (k \in Dialog!ToSet(entries)) \in BOOLEAN
  BY DEF Dialog!Contains
<1> QED
  BY <1>2, <1>3

LEMMA DialogJoined ==
  ASSUME NEW S, NEW a \in Seq(S), NEW b \in Seq(S)
  PROVE  a \o b \in Seq(S) /\ Dialog!ToSet(a \o b) = Dialog!ToSet(a) \cup Dialog!ToSet(b)
<1>1. a \o b \in Seq(S) /\ Len(a \o b) = Len(a) + Len(b) /\ Len(a) \in Nat /\ Len(b) \in Nat
  BY ConcatProperties, LenProperties
<1>2. DOMAIN a = 1 .. Len(a) /\ DOMAIN b = 1 .. Len(b) /\ DOMAIN (a \o b) = 1 .. Len(a) + Len(b)
  BY <1>1, LenProperties
<1>3. \A i \in 1 .. Len(a) + Len(b) : (a \o b)[i] = IF i <= Len(a) THEN a[i] ELSE b[i - Len(a)]
  BY ConcatProperties
<1> DEFINE c == a \o b
<1>4. DOMAIN c = 1 .. Len(a) + Len(b) /\ \A i \in DOMAIN c : c[i] = IF i <= Len(a) THEN a[i]
        ELSE b[i - Len(a)]
  BY <1>2, <1>3
<1> HIDE DEF c
<1>5. ASSUME NEW it \in Dialog!ToSet(c) PROVE it \in Dialog!ToSet(a) \cup Dialog!ToSet(b)
  <2>1. PICK i \in DOMAIN c : c[i] = it
    BY DEF Dialog!ToSet
  <2>2. CASE i <= Len(a)
    <3>1. i \in DOMAIN a /\ a[i] = it
      BY <1>1, <1>2, <1>4, <2>1, <2>2
    <3> QED
      BY <3>1 DEF Dialog!ToSet
  <2>3. CASE ~(i <= Len(a))
    <3>1. i - Len(a) \in DOMAIN b /\ b[i - Len(a)] = it
      BY <1>1, <1>2, <1>4, <2>1, <2>3
    <3> QED
      BY <3>1 DEF Dialog!ToSet
  <2> QED
    BY <2>2, <2>3
<1>6. ASSUME NEW it \in Dialog!ToSet(a) PROVE it \in Dialog!ToSet(c)
  <2>1. PICK i \in DOMAIN a : a[i] = it
    BY DEF Dialog!ToSet
  <2>2. i \in DOMAIN c /\ c[i] = it
    BY <1>1, <1>2, <1>4, <2>1
  <2> QED
    BY <2>2 DEF Dialog!ToSet
<1>7. ASSUME NEW it \in Dialog!ToSet(b) PROVE it \in Dialog!ToSet(c)
  <2>1. PICK i \in DOMAIN b : b[i] = it
    BY DEF Dialog!ToSet
  <2>2. i + Len(a) \in DOMAIN c /\ c[i + Len(a)] = it
    BY <1>1, <1>2, <1>4, <2>1
  <2> QED
    BY <2>2 DEF Dialog!ToSet
<1>8. Dialog!ToSet(c) = Dialog!ToSet(a) \cup Dialog!ToSet(b)
  BY <1>5, <1>6, <1>7
<1> QED
  BY <1>1, <1>8 DEF c

LEMMA OneIs == ASSUME NEW S, NEW it \in S PROVE <<it>> \in Seq(S) /\ Dialog!ToSet(<<it>>) = {it}
<1> DEFINE c == <<it>>
<1>1. c \in Seq(S) /\ Len(c) = 1 /\ c[1] = it
  OBVIOUS
<1> HIDE DEF c
<1>2. DOMAIN c = {1}
  BY <1>1, LenProperties
<1>3. Dialog!ToSet(c) = {it}
  BY <1>1, <1>2 DEF Dialog!ToSet
<1> QED
  BY <1>1, <1>3 DEF c

\* What a request does to the groups and to the places.
LEMMA AppliedTyped ==
  ASSUME Dialog!DialogAssumption, ShapedServer, TypedServer, TypedWire, NEW r \in wire,
         Requestish(r), Dialog!Valid(r),
         server' = Dialog!Applied(r)
  PROVE  /\ TypedServer' /\ server.made \subseteq server'.made /\ GroupsKept
         /\ r.what # "place" => PlacesKept
         /\ r.what = "place" => /\ \A s \in Systems : Same(server'.sys[s], r.ask[s])
                                /\ \A s \in Systems : r.ask[s].group \in Dialog!ToSet(server.order)
                                /\ server'.order = server.order
<1>1. /\ server.sys \in [Systems -> Known] /\ server.order \in Seq(Given)
          /\ server.made \subseteq Groups
      /\ Ungrouped \in Dialog!ToSet(server.order)
         /\ \A s \in Systems : server.sys[s].group \in Dialog!ToSet(server.order)
      /\ server \in [sys : {server.sys}, order : {server.order}, made : {server.made}]
  BY DEF TypedServer, ShapedServer
<1>2. CASE r.what \in {"exclude", "mode", "place", "order", "rename"}
  <2>1. server'.made = server.made /\ Given' = Given
    BY <1>1, <1>2 DEF Dialog!Applied, Given
  <2>2. Known' = Known
    BY <2>1 DEF Known
  <2>3. CASE r.what = "exclude"
    <3> DEFINE row(s) == [server.sys[s] EXCEPT !.excluded = r.ask.excluded]
    <3>1. r.ask.system \in Systems /\ r.ask.excluded \in BOOLEAN
      BY <2>3 DEF Requestish
    <3>2. server'.sys = [server.sys EXCEPT ![r.ask.system] = row(r.ask.system)]
            /\ server'.order = server.order
      BY <1>1, <2>3 DEF Dialog!Applied
    <3>3. \A s \in Systems : row(s) \in Known /\ Same(row(s), server.sys[s])
      <4>1. ASSUME NEW s \in Systems PROVE row(s) \in Known /\ Same(row(s), server.sys[s])
        <5>1. server.sys[s] \in Known
          BY <1>1
        <5> QED
          BY <3>1, <5>1 DEF Known, Same
      <4> QED
        BY <4>1
    <3> HIDE DEF row
    <3>4. server'.sys \in [Systems -> Known]
            /\ \A s \in Systems : Same(server'.sys[s], server.sys[s])
      BY <1>1, <3>1, <3>2, <3>3 DEF Same
    <3> QED
      BY <1>1, <2>1, <2>2, <2>3, <3>2, <3>4 DEF TypedServer, GroupsKept, PlacesKept, Gone, Same
  <2>4. CASE r.what = "mode"
    <3> DEFINE row(s) == [server.sys[s] EXCEPT !.full = r.ask.full]
    <3>1. r.ask.system \in Systems /\ r.ask.full \in BOOLEAN
      BY <2>4 DEF Requestish
    <3>2. server'.sys = [server.sys EXCEPT ![r.ask.system] = row(r.ask.system)]
            /\ server'.order = server.order
      BY <1>1, <2>4 DEF Dialog!Applied
    <3>3. \A s \in Systems : row(s) \in Known /\ Same(row(s), server.sys[s])
      <4>1. ASSUME NEW s \in Systems PROVE row(s) \in Known /\ Same(row(s), server.sys[s])
        <5>1. server.sys[s] \in Known
          BY <1>1
        <5> QED
          BY <3>1, <5>1 DEF Known, Same
      <4> QED
        BY <4>1
    <3> HIDE DEF row
    <3>4. server'.sys \in [Systems -> Known]
            /\ \A s \in Systems : Same(server'.sys[s], server.sys[s])
      BY <1>1, <3>1, <3>2, <3>3 DEF Same
    <3> QED
      BY <1>1, <2>1, <2>2, <2>4, <3>2, <3>4 DEF TypedServer, GroupsKept, PlacesKept, Gone, Same
  <2>5. CASE r.what = "place"
    <3>1. r.ask \in [Systems -> Placement]
      BY <2>5 DEF TypedWire
    <3> DEFINE row(s) == [server.sys[s] EXCEPT !.group = r.ask[s].group, !.order = r.ask[s].order]
               f == [s \in Systems |-> row(s)]
    <3>2. DOMAIN r.ask = Systems
      BY <3>1
    <3>3. server'.sys = f /\ server'.order = server.order
      BY <1>1, <2>5, <3>2 DEF Dialog!Applied
    <3>4. \A s \in Systems : row(s) \in Known /\ Same(row(s), r.ask[s])
      <4>1. ASSUME NEW s \in Systems PROVE row(s) \in Known /\ Same(row(s), r.ask[s])
        <5>1. server.sys[s] \in Known /\ r.ask[s] \in Placement
          BY <1>1, <3>1
        <5> QED
          BY <5>1 DEF Known, Same, Placement
      <4> QED
        BY <4>1
    <3> HIDE DEF row
    <3>5. server'.sys \in [Systems -> Known] /\ \A s \in Systems : Same(server'.sys[s], r.ask[s])
      BY <3>3, <3>4
    <3>6. \A s \in Systems : Dialog!Contains(server.order, r.ask[s].group)
      BY <2>5, <3>2 DEF Dialog!Valid, Dialog!Exists
    <3>7. \A s \in Systems : r.ask[s].group \in Dialog!ToSet(server.order)
      BY <1>1, <3>6, ContainsIs
    <3> QED
      BY <1>1, <2>1, <2>2, <2>5, <3>3, <3>5, <3>7 DEF TypedServer, GroupsKept, Gone, Same
  <2>6. CASE r.what = "order"
    <3>1. r.ask \in Seq(Given) /\ Dialog!ToSet(r.ask) = Dialog!ToSet(server.order)
      BY <2>6 DEF TypedWire, Dialog!Valid
    <3>2. server'.sys = server.sys /\ server'.order = r.ask
      BY <1>1, <2>6 DEF Dialog!Applied
    <3> QED
      BY <1>1, <2>1, <2>2, <2>6, <3>1, <3>2 DEF TypedServer, GroupsKept, PlacesKept, Gone
  <2>7. CASE r.what = "rename"
    <3>1. server' = server
      BY <2>7 DEF Dialog!Applied
    <3> QED
      BY <1>1, <2>1, <2>2, <2>7, <3>1 DEF TypedServer, GroupsKept, PlacesKept, Gone
  <2> QED
    BY <1>2, <2>3, <2>4, <2>5, <2>6, <2>7
<1>3. CASE r.what = "delete"
  <2> DEFINE row(s) == [server.sys[s] EXCEPT !.group = Ungrouped]
             f == [s \in Systems |-> IF server.sys[s].group = r.ask THEN row(s) ELSE server.sys[s]]
             order == Dialog!Kept(server.order, Dialog!ToSet(server.order) \ {r.ask})
  <2>1. server' = [server EXCEPT !.sys = f, !.order = order]
    BY <1>3 DEF Dialog!Applied
  <2>2. r.ask \in Groups /\ Ungrouped # r.ask
    BY <1>3 DEF Requestish, Dialog!DialogAssumption
  <2>3. Dialog!ToSet(order) = Dialog!ToSet(server.order) \ {r.ask} /\ order \in Seq(Given)
    <3>1. /\ order \in Seq(Given \cap (Dialog!ToSet(server.order) \ {r.ask}))
          /\ Dialog!ToSet(order) = Dialog!ToSet(server.order) \cap (Dialog!ToSet(server.order) \ {r.ask})
      BY <1>1, KeptIs
    <3> HIDE DEF order
    <3>2. order \in Seq(Given)
      BY <3>1, SeqGrows
    <3> QED
      BY <3>1, <3>2
  <2>4. \A s \in Systems : row(s) \in Known /\ row(s).group = Ungrouped
        /\ row(s).order = server.sys[s].order
    <3>1. ASSUME NEW s \in Systems
          PROVE  row(s) \in Known /\ row(s).group = Ungrouped /\ row(s).order = server.sys[s].order
      <4>1. server.sys[s] \in Known
        BY <1>1
      <4> QED
        BY <4>1 DEF Known, Given
    <3> QED
      BY <3>1
  <2>5. \A s \in Systems : f[s] = IF server.sys[s].group = r.ask THEN row(s) ELSE server.sys[s]
    OBVIOUS
  <2>6. f \in [Systems -> Known]
    <3> HIDE DEF row
    <3> QED
      BY <1>1, <2>4
  <2> HIDE DEF row, f, order
  <2>7. server'.sys = f /\ server'.order = order /\ server'.made = server.made
    BY <1>1, <2>1
  <2>8. Given' = Given /\ Known' = Known
    BY <2>7 DEF Given, Known
  <2>9. TypedServer'
    BY <1>1, <2>2, <2>3, <2>4, <2>5, <2>6, <2>7, <2>8 DEF TypedServer
  <2>10. GroupsKept
    BY <1>1, <2>2, <2>3, <2>7 DEF GroupsKept, Gone
  <2>11. PlacesKept
    BY <1>1, <2>2, <2>3, <2>4, <2>5, <2>7 DEF PlacesKept
  <2> QED
    BY <1>3, <2>7, <2>9, <2>10, <2>11
<1>4. CASE r.what = "create"
  <2> DEFINE g == CHOOSE h \in Groups \ server.made : TRUE
  <2>1. g \in Groups \ server.made
    <3>1. server.made # Groups
      BY <1>4 DEF Dialog!Valid
    <3>2. \E h \in Groups \ server.made : TRUE
      BY <1>1, <3>1
    <3> QED
      BY <3>2
  <2>2. server' = Dialog!Created(g)
    BY <1>4 DEF Dialog!Applied
  <2> HIDE DEF g
  <2>3. server'.sys = server.sys /\ server'.order = <<g>> \o server.order
          /\ server'.made = server.made \cup {g}
    BY <1>1, <2>2 DEF Dialog!Created
  <2>4. Given' = Given \cup {g} /\ g \notin Given
    BY <2>1, <2>3 DEF Given, Dialog!DialogAssumption
  <2>5. <<g>> \in Seq(Given') /\ Dialog!ToSet(<<g>>) = {g}
    BY <2>4, OneIs
  <2>6. server.order \in Seq(Given')
    BY <1>1, <2>4, SeqGrows
  <2>7. server'.order \in Seq(Given')
          /\ Dialog!ToSet(server'.order) = {g} \cup Dialog!ToSet(server.order)
    <3> DEFINE one == <<g>>
               all == Given'
    <3>1. one \in Seq(all) /\ server.order \in Seq(all) /\ Dialog!ToSet(one) = {g}
            /\ server'.order = one \o server.order
      BY <2>3, <2>5, <2>6
    <3> HIDE DEF one, all
    <3>2. one \o server.order \in Seq(all)
            /\ Dialog!ToSet(one \o server.order) = Dialog!ToSet(one) \cup Dialog!ToSet(server.order)
      BY <3>1, DialogJoined
    <3> QED
      BY <3>1, <3>2 DEF all
  <2>8. Known \subseteq Known'
    BY <2>4 DEF Known
  <2>9. server'.sys \in [Systems -> Known']
    BY <1>1, <2>3, <2>8
  <2>10. TypedServer'
    BY <1>1, <2>1, <2>3, <2>7, <2>9 DEF TypedServer
  <2>11. GroupsKept
    BY <1>1, <2>3, <2>4, <2>7 DEF GroupsKept, Gone
  <2>12. PlacesKept
    BY <2>3 DEF PlacesKept
  <2> QED
    BY <1>4, <2>3, <2>10, <2>11, <2>12
<1> QED
  BY <1>2, <1>3, <1>4 DEF Requestish, Dialog!Kinds

LEMMA CheckedServed ==
  ASSUME Shaped, AtMostOne("exclude"), CheckedIsIncluded, NEW r \in wire, r.what = "exclude",
         r.answer = "none",
         NEW a \in {"ok", "error"}, NEW it \in wire', it.what = r.what, it.ask = r.ask,
             it.answer = a,
         \A q \in wire' : q.what = "exclude" => q = it, modal'.chosen = modal.chosen,
         \A s \in Systems : server'.sys[s].excluded = IF a = "ok"
                                                      /\ s = r.ask.system THEN r.ask.excluded
                                                      ELSE server.sys[s].excluded
  PROVE  CheckedIsIncluded'
<1>1. Requestish(r) /\ r.ask \in [system : Systems, excluded : BOOLEAN]
  BY DEF Shaped, Requestish
<1>2. /\ r.ask.excluded => r.ask.system \notin modal.chosen /\ ~server.sys[r.ask.system].excluded
  BY DEF CheckedIsIncluded
<1>3. ASSUME NEW s \in Systems, s \in modal.chosen, server'.sys[s].excluded
      PROVE  it.ask = [system |-> s, excluded |-> FALSE]
  <2>1. server.sys[s].excluded
    BY <1>2, <1>3
  <2>2. PICK q \in wire : q.what = "exclude" /\ q.ask = [system |-> s, excluded |-> FALSE]
    BY <1>3, <2>1 DEF CheckedIsIncluded
  <2> QED
    BY <2>2 DEF AtMostOne
<1>4. /\ it.ask.excluded =>
           /\ it.ask.system \notin modal'.chosen
           /\ it.answer # "ok" => ~server'.sys[it.ask.system].excluded
      /\ ~it.ask.excluded /\ it.answer = "ok" => ~server'.sys[it.ask.system].excluded
  BY <1>1, <1>2
<1> QED
  BY <1>3, <1>4 DEF CheckedIsIncluded

LEMMA ChosenServed ==
  ASSUME Shaped, AtMostOne("exclude"), ChosenIsSaved, NEW r \in wire, r.what = "exclude",
                                                      r.answer = "none",
         NEW a \in {"ok", "error"}, NEW it \in wire', it.what = r.what, it.ask = r.ask,
             it.answer = a,
         \A q \in wire' : q.what = "exclude" => q = it, modal'.chosen = modal.chosen,
         \A s \in Systems : server'.sys[s].excluded = IF a = "ok"
                                                      /\ s = r.ask.system THEN r.ask.excluded
                                                      ELSE server.sys[s].excluded
  PROVE  ChosenIsSaved'
<1>1. Requestish(r) /\ r.ask.system \in Systems /\ r.ask.excluded \in BOOLEAN
  BY DEF Shaped, Requestish
<1>2. /\ (r.ask.system \in modal.chosen) = ~r.ask.excluded
      /\ server.sys[r.ask.system].excluded = ~r.ask.excluded
  BY <1>1 DEF ChosenIsSaved
<1>3. ASSUME NEW s \in Systems, it.ask.system # s
             PROVE (s \in modal'.chosen) = ~server'.sys[s].excluded
  <2>1. \A q \in wire : q.what = "exclude" => q.ask.system # s
    BY <1>3 DEF AtMostOne
  <2> QED
    BY <1>3, <2>1 DEF ChosenIsSaved
<1>4. /\ (it.ask.system \in modal'.chosen) = ~it.ask.excluded
      /\ server'.sys[it.ask.system].excluded = ((it.answer = "ok") = it.ask.excluded)
  BY <1>1, <1>2
<1> QED
  BY <1>3, <1>4 DEF ChosenIsSaved

LEMMA ModeServed ==
  ASSUME Shaped, AtMostOne("mode")', ModeIsSaved, NEW r \in wire, r.what = "mode",
                                                  r.answer = "none",
         NEW a \in {"ok", "error"}, NEW it \in wire', it.what = r.what, it.ask = r.ask,
             it.undo = r.undo,
         it.answer = a, \A q \in wire' : q.what = "mode" => q = it, modal'.full = modal.full,
         \A s \in Systems : server'.sys[s].full = IF a = "ok" /\ s = r.ask.system THEN r.ask.full
                                                  ELSE server.sys[s].full
  PROVE  ModeIsSaved'
<1>1. Requestish(r) /\ r.ask.system \in Systems /\ r.ask.full \in BOOLEAN
  BY DEF Shaped, Requestish
<1>2. /\ modal.full[r.ask.system] = r.ask.full /\ r.undo = ~r.ask.full
      /\ server.sys[r.ask.system].full = ~r.ask.full
  BY <1>1 DEF ModeIsSaved
<1>3. ASSUME NEW s \in Systems, it.ask.system # s PROVE modal'.full[s] = server'.sys[s].full
  <2>1. \A q \in wire : q.what = "mode" => q.ask.system # s
    BY <1>3 DEF AtMostOne, ModeIsSaved
  <2> QED
    BY <1>3, <2>1 DEF ModeIsSaved
<1>4. /\ modal'.full[it.ask.system] = it.ask.full /\ it.undo = ~it.ask.full
      /\ server'.sys[it.ask.system].full = ((it.answer = "ok") = it.ask.full)
  BY <1>1, <1>2
<1> QED
  BY <1>3, <1>4 DEF ModeIsSaved

LEMMA PlaceServed ==
  ASSUME Typed, PlaceIsSaved, NEW r \in wire, r.what = "place", r.answer = "none",
         NEW a \in {"ok", "error"}, NEW it \in wire', it.what = r.what, it.ask = r.ask,
             it.undo = r.undo,
         it.answer = a, \A q \in wire' : q.what = "place" => q = it,
             UNCHANGED <<modal, pending, drag>>,
         a = "error" => server' = server,
         a = "ok" => /\ \A s \in Systems : Same(server'.sys[s], r.ask[s])
                     /\ \A s \in Systems : r.ask[s].group \in Dialog!ToSet(server.order)
                     /\ server'.order = server.order
  PROVE  PlaceIsSaved'
<1>1. drag = None
  BY DEF Typed, TypedDrag
<1>2. /\ \A s \in Systems : Fits(r.undo[s], s)
      /\ DialogAsked(r)
  BY DEF PlaceIsSaved
<1>3. ASSUME a = "ok" PROVE Fitting'
  <2>1. /\ \A s \in DOMAIN pending : pending[s] = r.ask[s]
        /\ modal.edit => \A s \in Systems : Same(modal.list[s], r.ask[s])
    BY <1>2, <1>3 DEF DialogAsked, Gone
  <2>2. DOMAIN pending \subseteq Systems
    BY DEF Typed, TypedPending
  <2>3. \A s \in Systems : r.ask[s].group = server'.sys[s].group
          /\ r.ask[s].order = server'.sys[s].order
    BY <1>3 DEF Same
  <2>4. \A s \in DOMAIN pending' : Fits(pending[s], s)'
    BY <2>1, <2>2, <2>3 DEF Fits
  <2>5. modal'.edit => \A s \in Systems : Fits(modal.list[s], s)'
    BY <2>1, <2>3 DEF Fits, Same
  <2> QED
    BY <2>4, <2>5 DEF Fitting
<1>4. ASSUME a = "error" PROVE \A s \in Systems : Fits(it.undo[s], s)'
  BY <1>2, <1>4 DEF Fits, Gone
<1>5. ~Moving'
  BY <1>1 DEF Moving
<1> QED
  BY <1>3, <1>4, <1>5 DEF PlaceIsSaved

LEMMA ServeKeeps == ASSUME Dialog!DialogAssumption, DialogInv, Dialog!Serve PROVE DialogInv'
<1>1. /\ sent = None /\ UNCHANGED <<data, modal, pending, drag, dialog, sent, session>>
  BY DEF Dialog!Serve, Dialog!page
<1>2. PICK r \in wire, a \in {"ok", "error"} :
        /\ r.answer = "none" /\ wire' = (wire \ {r}) \cup {[r EXCEPT !.answer = a]}
        /\ IF a = "ok" THEN Dialog!Valid(r) /\ server' = Dialog!Applied(r) ELSE server' = server
  BY DEF Dialog!Serve
<1>3. Shaped /\ ShapedServer /\ Requestish(r) /\ AtMostOne("exclude")
  BY DEF DialogInv, Shaped, ShapedServer
<1> DEFINE it == [r EXCEPT !.answer = a]
<1>4. /\ Requestish(it) /\ it \in wire' /\ it.what = r.what /\ it.ask = r.ask /\ it.undo = r.undo
      /\ it.latest = r.latest /\ it.answer = a
      /\ \A q \in wire' : Requestish(q) /\ (q = it \/ q \in wire)
      /\ \A what : /\ what # r.what => Mirrored(what)
                   /\ AtMostOne(what) => AtMostOne(what)'
                      /\ (what = r.what => \A q \in wire' : q.what = what => q = it)
  <2>1. a \in {"none", "ok", "error"} /\ wire' = (wire \ {r}) \cup {it} /\ Shaped
    BY <1>2, <1>3
  <2>2. it = [r EXCEPT !.answer = a]
    OBVIOUS
  <2> HIDE DEF it
  <2> QED
    BY <2>1, <2>2, AnsweredIs
<1> HIDE DEF it
<1>5. /\ ShapedServer' /\ (r.what # "exclude" => SameBoxes) /\ (r.what # "mode" => SameModes)
      /\ r.what = "exclude" => \A s \in Systems : server'.sys[s].excluded =
                                 IF a = "ok" /\ s = r.ask.system THEN r.ask.excluded
                                     ELSE server.sys[s].excluded
      /\ r.what = "mode" => \A s \in Systems : server'.sys[s].full =
                              IF a = "ok" /\ s = r.ask.system THEN r.ask.full
                                  ELSE server.sys[s].full
  <2>1. CASE a = "ok"
    <3>1. server' = Dialog!Applied(r)
      BY <1>2, <2>1
    <3> QED
      BY <1>3, <2>1, <3>1, AppliedIs
  <2>2. CASE a = "error"
    <3>1. server' = server
      BY <1>2, <2>2
    <3> QED
      BY <1>3, <2>2, <3>1 DEF ShapedServer, SameBoxes, SameModes
  <2> QED
    BY <2>1, <2>2
<1>6. Shaped'
  BY <1>1, <1>3, <1>4, <1>5 DEF Shaped, ShapedServer
<1>7. AtMostOne("exclude")'
  BY <1>3, <1>4
<1>8. ASSUME CheckedIsIncluded PROVE CheckedIsIncluded'
  <2>1. CASE r.what # "exclude"
    BY <1>1, <1>3, <1>4, <1>5, <1>8, <2>1, CheckedKept
  <2>2. CASE r.what = "exclude"
    <3>1. \A q \in wire' : q.what = "exclude" => q = it
      BY <1>3, <1>4, <2>2
    <3>2. \A s \in Systems : server'.sys[s].excluded =
            IF a = "ok" /\ s = r.ask.system THEN r.ask.excluded ELSE server.sys[s].excluded
      BY <1>5, <2>2
    <3> QED
      BY <1>1, <1>2, <1>3, <1>4, <1>8, <2>2, <3>1, <3>2, CheckedServed
  <2> QED
    BY <2>1, <2>2
<1>9. ASSUME ChosenIsSaved PROVE ChosenIsSaved'
  <2>1. CASE r.what # "exclude"
    BY <1>1, <1>3, <1>4, <1>5, <1>9, <2>1, ChosenKept
  <2>2. CASE r.what = "exclude"
    <3>1. \A q \in wire' : q.what = "exclude" => q = it
      BY <1>3, <1>4, <2>2
    <3>2. \A s \in Systems : server'.sys[s].excluded =
            IF a = "ok" /\ s = r.ask.system THEN r.ask.excluded ELSE server.sys[s].excluded
      BY <1>5, <2>2
    <3> QED
      BY <1>1, <1>2, <1>3, <1>4, <1>9, <2>2, <3>1, <3>2, ChosenServed
  <2> QED
    BY <2>1, <2>2
<1>10. ASSUME ModeIsSaved PROVE ModeIsSaved'
  <2>1. AtMostOne("mode") /\ AtMostOne("mode")'
    BY <1>4, <1>10 DEF ModeIsSaved
  <2>2. CASE r.what # "mode"
    BY <1>1, <1>3, <1>4, <1>5, <1>10, <2>1, <2>2, ModeKept
  <2>3. CASE r.what = "mode"
    <3>1. \A q \in wire' : q.what = "mode" => q = it
      BY <1>4, <2>1, <2>3
    <3>2. \A s \in Systems : server'.sys[s].full =
            IF a = "ok" /\ s = r.ask.system THEN r.ask.full ELSE server.sys[s].full
      BY <1>5, <2>3
    <3> QED
      BY <1>1, <1>2, <1>3, <1>4, <1>10, <2>1, <2>3, <3>1, <3>2, ModeServed
  <2> QED
    BY <2>2, <2>3
<1>11. ASSUME session.alone
       PROVE  /\ Typed' /\ AtMostOne("place")' /\ GroupsKept /\ (r.what # "place" => PlacesKept)
              /\ r.what = "place" /\ a = "ok" =>
                   /\ \A s \in Systems : Same(server'.sys[s], r.ask[s])
                   /\ \A s \in Systems : r.ask[s].group \in Dialog!ToSet(server.order)
                   /\ server'.order = server.order
  <2>1. Typed /\ AtMostOne("place") /\ TypedServer /\ TypedWire
    BY <1>11 DEF DialogInv, Typed
  <2>2. /\ TypedServer' /\ server.made \subseteq server'.made /\ GroupsKept
        /\ r.what # "place" => PlacesKept
        /\ r.what = "place" /\ a = "ok" =>
             /\ \A s \in Systems : Same(server'.sys[s], r.ask[s])
             /\ \A s \in Systems : r.ask[s].group \in Dialog!ToSet(server.order)
             /\ server'.order = server.order
    <3>1. CASE a = "ok"
      <4>1. Dialog!Valid(r) /\ server' = Dialog!Applied(r)
        BY <1>2, <3>1
      <4> QED
        BY <1>3, <2>1, <4>1, AppliedTyped
    <3>2. CASE a = "error"
      <4>1. server' = server
        BY <1>2, <3>2
      <4>2. GroupsKept /\ PlacesKept
        BY <2>1, <4>1, SamePlaces
      <4>3. TypedServer'
        BY <2>1, <4>1 DEF TypedServer, Given, Known
      <4> QED
        BY <3>2, <4>1, <4>2, <4>3
    <3> QED
      BY <3>1, <3>2
  <2>3. \A q \in wire' : \E p \in wire : q.what = p.what /\ q.ask = p.ask /\ q.undo = p.undo
    BY <1>4
  <2>4. Typed'
    BY <1>1, <2>1, <2>2, <2>3, TypedGrown
  <2> QED
    BY <1>4, <2>1, <2>2, <2>4
<1>12. ASSUME session.alone, modal # None, PlaceIsSaved PROVE PlaceIsSaved'
  <2>1. Typed /\ AtMostOne("place")
    BY <1>12 DEF DialogInv
  <2>2. CASE r.what # "place"
    BY <1>1, <1>4, <1>11, <1>12, <2>1, <2>2, PlaceKept
  <2>3. CASE r.what = "place"
    <3>1. \A q \in wire' : q.what = "place" => q = it
      BY <1>4, <2>1, <2>3
    <3>2. a = "error" => server' = server
      BY <1>2
    <3>3. a = "ok" => /\ \A s \in Systems : Same(server'.sys[s], r.ask[s])
                      /\ \A s \in Systems : r.ask[s].group \in Dialog!ToSet(server.order)
                      /\ server'.order = server.order
      BY <1>11, <1>12, <2>3
    <3> QED
      BY <1>1, <1>2, <1>4, <1>12, <2>1, <2>3, <3>1, <3>2, <3>3, PlaceServed
  <2> QED
    BY <2>2, <2>3
<1>13. Dialog!QueuedAsIncluded'
  BY <1>1 DEF Dialog!QueuedAsIncluded
<1>14. (Regular' => Regular /\ modal # None) /\ session'.alone = session.alone
  BY <1>1 DEF Regular
<1>15. Regular' /\ sent' = None => CheckedIsIncluded'
  BY <1>1, <1>8, <1>14 DEF DialogInv
<1>16. ASSUME session'.alone
       PROVE  Typed' /\ AtMostOne("place")'
              /\ (Regular' => ChosenIsSaved' /\ ModeIsSaved' /\ PlaceIsSaved')
  BY <1>9, <1>10, <1>11, <1>12, <1>14, <1>16 DEF DialogInv
<1> QED
  BY <1>6, <1>7, <1>13, <1>15, <1>16 DEF DialogInv

(* The buttons. *)

LEMMA AllTheSame ==
  ASSUME DialogInv, UNCHANGED <<server, data, modal, pending, drag, wire, sent, session>>,
         dialog' # None => dialog' \in [what : {"rename", "delete"}, group : Groups]
  PROVE  DialogInv'
<1>1. Shaped'
  BY DEF DialogInv, Shaped, Requestish
<1>2. AtMostOne("exclude")' /\ (AtMostOne("place") => AtMostOne("place")')
      /\ (AtMostOne("mode") => AtMostOne("mode")')
      /\ Regular' = Regular
  BY DEF DialogInv, AtMostOne, Regular
<1>3. CheckedIsIncluded => CheckedIsIncluded'
  BY DEF CheckedIsIncluded
<1>4. Given' = Given /\ Listed' = Listed /\ Placement' = Placement /\ Known' = Known
  BY DEF Given, Listed, Placement, Known
<1>5. Typed => Typed'
  BY <1>4 DEF Typed, TypedServer, TypedData, TypedModal, TypedPending, TypedDrag, TypedWire, Dragish
<1>6. ChosenIsSaved => ChosenIsSaved'
  BY DEF ChosenIsSaved
<1>7. ModeIsSaved => ModeIsSaved'
  BY <1>2 DEF ModeIsSaved
<1>8. PlaceIsSaved => PlaceIsSaved'
  BY DEF PlaceIsSaved, Fitting, Fits, DialogAsked, Gone, Same, Moving
<1>9. Dialog!QueuedAsIncluded'
  BY DEF DialogInv, Dialog!QueuedAsIncluded
<1> QED
  BY <1>1, <1>2, <1>3, <1>5, <1>6, <1>7, <1>8, <1>9 DEF DialogInv

LEMMA DropGroupKeeps == ASSUME DialogInv, Dialog!DropGroup PROVE DialogInv'
BY AllTheSame DEF Dialog!DropGroup

LEMMA AskGroupKeeps == ASSUME DialogInv, Dialog!AskGroup PROVE DialogInv'
<1>1. /\ UNCHANGED <<server, data, modal, pending, drag, wire, sent, session>>
      /\ dialog' # None => dialog' \in [what : {"rename", "delete"}, group : Groups]
  BY DEF Dialog!AskGroup
<1> QED
  BY <1>1, AllTheSame

\* A request about the groups.
LEMMA GroupRequestKeeps ==
  ASSUME DialogInv, sent = None, UNCHANGED <<server, Dialog!page, sent>>, NEW request,
         Requestish(request),
         request.latest, request.what \in {"create", "rename", "delete"}, Dialog!Send(request)
  PROVE  DialogInv'
<1>1. Shaped /\ UNCHANGED <<data, modal, pending, drag, dialog>>
  BY ModalIs DEF Dialog!page
<1>2. /\ request \in wire' /\ SessionKept
      /\ \A q \in wire' : Requestish(q) /\ (q = request \/ \E r \in wire : Alike(q, r))
      /\ \A what : what # request.what => Mirrored(what) /\ (AtMostOne(what) => AtMostOne(what)')
  BY <1>1, SentIs
<1>3. Mirrored("exclude") /\ Mirrored("mode") /\ Mirrored("place")
  BY <1>2
<1>4. AtMostOne("exclude")' /\ (AtMostOne("place") => AtMostOne("place")')
        /\ (AtMostOne("mode") => AtMostOne("mode")')
  BY <1>2 DEF DialogInv
<1>5. data' \in [sys : {data.sys}, order : {data.order, server.order}]
  BY <1>1 DEF Shaped
<1>6. dialog' # None => dialog' \in [what : {"rename", "delete"}, group : Groups]
  BY <1>1 DEF Shaped
<1>7. ASSUME Typed PROVE TypedWire' /\ TypedDrag'
  <2>1. TypedWire'
    <3> SUFFICES ASSUME NEW q \in wire'
                 PROVE  /\ q.what = "place" => q.ask \in [Systems -> Placement']
                            /\ q.undo \in [Systems -> Listed']
                        /\ q.what = "order" => q.ask \in Seq(Given') /\ q.undo \in Seq(Given')
      BY DEF TypedWire
    <3>1. Placement' = Placement /\ Listed' = Listed /\ Given' = Given
      BY DEF Placement, Listed, Given
    <3> QED
      BY <1>2, <1>7, <3>1 DEF Alike, Typed, TypedWire
  <2>2. \A q \in wire' : q.what = "place" => \E r \in wire : r.what = "place"
    BY <1>3 DEF Mirrored, Alike
  <2> QED
    BY <1>1, <1>7, <2>1, <2>2 DEF Typed, TypedDrag, Dragish, Listed, Placement, Given
<1>8. ASSUME Typed, Regular, ModeIsSaved PROVE ModeIsSaved'
  <2>1. SameModes /\ modal'.full = modal.full /\ AtMostOne("mode")'
    BY <1>1, <1>4, <1>8 DEF SameModes, ModeIsSaved
  <2> QED
    BY <1>1, <1>3, <1>8, <2>1, ModeKept
<1>9. ASSUME Typed, Regular, PlaceIsSaved PROVE PlaceIsSaved'
  <2>1. GroupsKept /\ PlacesKept
    BY <1>9, SamePlaces DEF Typed
  <2> QED
    BY <1>1, <1>3, <1>9, <2>1, PlaceKept DEF Regular
<1> QED
  BY <1>1, <1>2, <1>3, <1>4, <1>5, <1>6, <1>7, <1>8, <1>9, PlainKeeps

LEMMA CreateGroupKeeps == ASSUME DialogInv, Dialog!CreateGroup PROVE DialogInv'
<1> DEFINE request == Dialog!Request("create", None, None)
<1>1. sent = None /\ UNCHANGED <<server, Dialog!page, sent>> /\ Dialog!Send(request)
  BY DEF Dialog!CreateGroup, Dialog!Shown, Dialog!Idle
<1>2. Requestish(request) /\ request.latest /\ request.what = "create"
  BY DEF Dialog!Request, Requestish, Dialog!Kinds
<1> HIDE DEF request
<1> QED
  BY <1>1, <1>2, GroupRequestKeeps

LEMMA ConfirmGroupKeeps == ASSUME DialogInv, Dialog!ConfirmGroup PROVE DialogInv'
<1> DEFINE request == Dialog!Request(dialog.what, dialog.group, None)
<1>1. sent = None /\ UNCHANGED <<server, Dialog!page, sent>> /\ Dialog!Send(request)
        /\ dialog # None
  BY DEF Dialog!ConfirmGroup
<1>2. dialog \in [what : {"rename", "delete"}, group : Groups]
  BY <1>1, ModalIs DEF Shaped
<1>3. Requestish(request) /\ request.latest /\ request.what \in {"rename", "delete"}
  BY <1>2 DEF Dialog!Request, Requestish, Dialog!Kinds
<1> HIDE DEF request
<1> QED
  BY <1>1, <1>3, GroupRequestKeeps

(* What changes the dialog. *)

LEMMA StepKeeps ==
  ASSUME DialogInv, sent = None, sent' = None, UNCHANGED <<server, data, dialog>>, SessionKept,
         modal # None,
         Modalish(modal)', modal'.regular => modal.regular, \A q \in wire' : Requestish(q),
             AtMostOne("exclude")',
         Regular /\ CheckedIsIncluded => CheckedIsIncluded',
         session.alone => TypedModal' /\ TypedPending' /\ TypedDrag' /\ TypedWire'
             /\ AtMostOne("place")',
         session.alone /\ Regular /\ modal'.regular => ChosenIsSaved' /\ ModeIsSaved'
             /\ PlaceIsSaved'
  PROVE  DialogInv'
<1>1. Shaped'
  BY DEF DialogInv, Shaped, SessionKept, Modalish
<1>2. Regular' => Regular /\ modal'.regular
  BY DEF Regular
<1>3. session'.alone = session.alone
  BY DEF SessionKept
<1>4. session.alone => TypedServer' /\ TypedData'
  BY DEF DialogInv, Typed, TypedServer, TypedData, Given, Known
<1>5. Dialog!QueuedAsIncluded'
  BY DEF Dialog!QueuedAsIncluded
<1> QED
  BY <1>1, <1>2, <1>3, <1>4, <1>5 DEF DialogInv, Typed

\* The requests that are typed.
LEMMA WireTyped ==
  ASSUME TypedWire, UNCHANGED server, NEW request,
         \A q \in wire' : q = request \/ \E r \in wire : Alike(q, r),
         request.what = "place" => request.ask \in [Systems -> Placement]
             /\ request.undo \in [Systems -> Listed],
         request.what = "order" => request.ask \in Seq(Given) /\ request.undo \in Seq(Given)
  PROVE  TypedWire'
<1>1. Placement' = Placement /\ Listed' = Listed /\ Given' = Given
  BY DEF Placement, Listed, Given
<1> SUFFICES ASSUME NEW q \in wire'
             PROVE  /\ q.what = "place" => q.ask \in [Systems -> Placement]
                        /\ q.undo \in [Systems -> Listed]
                    /\ q.what = "order" => q.ask \in Seq(Given) /\ q.undo \in Seq(Given)
  BY <1>1 DEF TypedWire
<1> QED
  BY DEF TypedWire, Alike

\* No other request of the kind.
LEMMA NotWaiting == ASSUME NEW what, AtMostOne(what), ~Dialog!Waiting(what)
      PROVE \A r \in wire : r.what # what
BY DEF AtMostOne, Dialog!Waiting

LEMMA ToggleSystemKeeps ==
  ASSUME Dialog!DialogAssumption, DialogInv, NEW s \in Systems, Dialog!ToggleSystem(s)
         PROVE DialogInv'
<1> DEFINE request == Dialog!Request("exclude", [system |-> s, excluded |-> s \in modal.chosen],
                                     None)
<1>1. /\ sent = None /\ drag = None /\ modal # None /\ Dialog!Send(request)
          /\ ~Dialog!Waiting("exclude")
      /\ modal' = [modal EXCEPT !.chosen = IF s \in modal.chosen THEN modal.chosen \ {s} ELSE modal.chosen \cup {s}]
      /\ UNCHANGED <<server, data, pending, drag, dialog, sent>>
  BY DEF Dialog!ToggleSystem, Dialog!Shown, Dialog!Idle
<1>2. PICK e \in BOOLEAN : e = (s \in modal.chosen) /\ (e <=> s \in modal.chosen)
  <2>1. CASE s \in modal.chosen
    <3>1. TRUE = (s \in modal.chosen) /\ (TRUE <=> s \in modal.chosen)
      BY <2>1
    <3> QED
      BY <3>1
  <2>2. CASE s \notin modal.chosen
    <3>1. FALSE = (s \in modal.chosen) /\ (FALSE <=> s \in modal.chosen)
      BY <2>2
    <3> QED
      BY <3>1
  <2> QED
    BY <2>1, <2>2
<1>3. /\ request.what = "exclude" /\ request.ask = [system |-> s, excluded |-> e]
          /\ request.answer = "none"
      /\ request.latest /\ Requestish(request)
  BY <1>2 DEF Dialog!Request, Requestish, Dialog!Kinds
<1> HIDE DEF request
<1>4. Shaped /\ Modalish(modal) /\ AtMostOne("exclude")
  BY <1>1, ModalIs DEF DialogInv
<1>5. PICK c \in SUBSET Systems : c = IF s \in modal.chosen THEN modal.chosen \ {s}
        ELSE modal.chosen \cup {s}
  <2>1. modal.chosen \in SUBSET Systems
    BY <1>4 DEF Modalish
  <2> QED
    BY <2>1
<1>6. /\ Modalish(modal)' /\ modal'.chosen = c /\ modal'.edit = modal.edit
          /\ modal'.regular = modal.regular
      /\ modal'.list = modal.list /\ modal'.full = modal.full /\ modal'.order = modal.order
  BY <1>1, <1>4, <1>5 DEF Modalish
<1>7. \A r \in wire : r.what # "exclude"
  BY <1>1, <1>4, NotWaiting
<1>8. /\ request \in wire' /\ SessionKept
      /\ \A q \in wire' : Requestish(q) /\ (q = request \/ \E r \in wire : Alike(q, r))
      /\ \A what : what # "exclude" => Mirrored(what) /\ (AtMostOne(what) => AtMostOne(what)')
      /\ AtMostOne("exclude")' /\ \A q \in wire' : q.what = "exclude" => q = request
  BY <1>1, <1>3, <1>4, <1>7, SentIs
<1>9. Mirrored("mode") /\ Mirrored("place") /\ (AtMostOne("mode") => AtMostOne("mode")')
        /\ (AtMostOne("place") => AtMostOne("place")')
  BY <1>8
<1>10. ASSUME CheckedIsIncluded PROVE CheckedIsIncluded'
  <2>1. \A t \in Systems : t \in modal.chosen => ~server.sys[t].excluded
    BY <1>7, <1>10 DEF CheckedIsIncluded
  <2>2. ASSUME NEW t \in Systems, t \in c, server'.sys[t].excluded
        PROVE  request.ask = [system |-> t, excluded |-> FALSE]
    <3>1. t = s /\ s \notin modal.chosen
      BY <1>1, <1>5, <2>1, <2>2
    <3> QED
      BY <1>2, <1>3, <3>1
  <2>3. /\ request.ask.excluded => /\ request.ask.system \notin c
                                   /\ ~server.sys[request.ask.system].excluded
        /\ request.answer # "ok"
    <3>1. request.ask.excluded = e /\ request.ask.system = s /\ request.answer = "none"
      BY <1>3
    <3>2. e => s \in modal.chosen /\ s \notin c
      BY <1>2, <1>5
    <3> QED
      BY <2>1, <3>1, <3>2
  <2> QED
    BY <1>1, <1>3, <1>6, <1>8, <2>2, <2>3 DEF CheckedIsIncluded
<1>11. ASSUME ChosenIsSaved PROVE ChosenIsSaved'
  <2>1. \A t \in Systems : (t \in modal.chosen) = ~server.sys[t].excluded
    BY <1>7, <1>11 DEF ChosenIsSaved
  <2>2. ASSUME NEW t \in Systems, t # s PROVE (t \in c) = ~server.sys[t].excluded
    BY <1>5, <2>1, <2>2
  <2>3. (s \in c) = ~e /\ server.sys[s].excluded = ~e
    <3>1. Rowish(server.sys[s])
      BY <1>4 DEF Shaped, Rowish
    <3>2. server.sys[s].excluded \in BOOLEAN
      BY <3>1 DEF Rowish
    <3>3. (s \in c) <=> ~e
      BY <1>2, <1>5
    <3>4. server.sys[s].excluded <=> ~e
      BY <1>2, <2>1, <3>2
    <3> HIDE DEF Rowish
    <3>5. (s \in c) = ~e
      BY <3>3
    <3>6. server.sys[s].excluded = ~e
      BY <3>2, <3>4
    <3> QED
      BY <3>5, <3>6
  <2>4. server' = server /\ modal'.chosen = c /\ request.ask.system = s /\ request.ask.excluded = e
        /\ request.answer = "none" /\ request.what = "exclude"
    BY <1>1, <1>3, <1>6
  <2> QED
    BY <1>8, <2>2, <2>3, <2>4 DEF ChosenIsSaved
<1>12. ASSUME ModeIsSaved PROVE ModeIsSaved'
  <2>1. SameModes /\ AtMostOne("mode")'
    BY <1>1, <1>9, <1>12 DEF SameModes, ModeIsSaved
  <2> QED
    BY <1>4, <1>6, <1>9, <1>12, <2>1, ModeKept
<1>13. ASSUME session.alone
       PROVE  TypedModal' /\ TypedPending' /\ TypedDrag' /\ TypedWire' /\ AtMostOne("place")'
  <2>1. Typed /\ AtMostOne("place")
    BY <1>13 DEF DialogInv
  <2>2. TypedModal' /\ TypedPending' /\ TypedDrag'
    BY <1>1, <1>6, <2>1 DEF Typed, TypedModal, TypedPending, TypedDrag, Listed, Placement, Given
  <2>3. TypedWire'
    BY <1>1, <1>3, <1>8, <2>1, WireTyped DEF Typed
  <2> QED
    BY <1>9, <2>1, <2>2, <2>3
<1>14. ASSUME session.alone, PlaceIsSaved PROVE PlaceIsSaved'
  <2>1. Typed
    BY <1>14 DEF DialogInv
  <2>2. GroupsKept /\ PlacesKept
    BY <1>1, <2>1, SamePlaces DEF Typed
  <2> QED
    BY <1>1, <1>6, <1>9, <1>14, <2>1, <2>2, PlaceKept
<1>15. session.alone /\ Regular => ChosenIsSaved /\ ModeIsSaved /\ PlaceIsSaved
  BY DEF DialogInv
<1> QED
  BY <1>1, <1>6, <1>8, <1>10, <1>11, <1>12, <1>13, <1>14, <1>15, StepKeeps

LEMMA ToggleModeKeeps ==
  ASSUME Dialog!DialogAssumption, DialogInv, NEW s \in Systems, Dialog!ToggleMode(s)
         PROVE DialogInv'
<1> DEFINE now == s \in DOMAIN modal.full /\ modal.full[s]
           none == ~\E r \in wire : r.what = "mode"
<1>1. PICK full \in BOOLEAN, regular \in BOOLEAN :
        full = now /\ regular = (modal.regular /\ none) /\ (full <=> now)
            /\ (regular <=> modal.regular /\ none)
  <2>1. \E b \in BOOLEAN : b = now /\ (b <=> now)
    <3> HIDE DEF now
    <3>1. CASE now
      <4>1. now = TRUE
        BY <3>1 DEF now
      <4> QED
        BY <4>1
    <3>2. CASE ~now
      <4>1. now = FALSE
        BY <3>2 DEF now
      <4> QED
        BY <4>1
    <3> QED
      BY <3>1, <3>2
  <2>2. \E b \in BOOLEAN : b = (modal.regular /\ none) /\ (b <=> modal.regular /\ none)
    <3>1. CASE modal.regular /\ none
      <4>1. (modal.regular /\ none) = TRUE
        BY <3>1
      <4> QED
        BY <4>1
    <3>2. CASE ~(modal.regular /\ none)
      <4>1. (modal.regular /\ none) = FALSE
        BY <3>2
      <4> QED
        BY <4>1
    <3> QED
      BY <3>1, <3>2
  <2> QED
    BY <2>1, <2>2
<1> DEFINE request == Dialog!Request("mode", [system |-> s, full |-> ~full], full)
<1>2. /\ sent = None /\ drag = None /\ modal # None /\ Dialog!Send(request)
      /\ modal' = [modal EXCEPT !.full = Dialog!With(modal.full, s, ~full), !.regular = regular]
      /\ UNCHANGED <<server, data, pending, drag, dialog, sent>>
  BY <1>1 DEF Dialog!ToggleMode, Dialog!Shown, Dialog!Idle
<1>3. /\ request.what = "mode" /\ request.ask = [system |-> s, full |-> ~full]
          /\ request.answer = "none"
      /\ request.latest /\ request.undo = full /\ Requestish(request)
  BY <1>1 DEF Dialog!Request, Requestish, Dialog!Kinds
<1> HIDE DEF request
<1>4. Shaped /\ Modalish(modal) /\ AtMostOne("exclude")
  BY <1>2, ModalIs DEF DialogInv
<1>5. /\ Modalish(modal)' /\ modal'.chosen = modal.chosen /\ modal'.edit = modal.edit
      /\ modal'.regular = regular /\ modal'.list = modal.list /\ modal'.order = modal.order
      /\ modal'.full = Dialog!With(modal.full, s, ~full)
  BY <1>1, <1>2, <1>4 DEF Modalish
<1>6. modal'.regular => modal.regular /\ \A r \in wire : r.what # "mode"
  BY <1>1, <1>5
<1>7. /\ request \in wire' /\ SessionKept
      /\ \A q \in wire' : Requestish(q) /\ (q = request \/ \E r \in wire : Alike(q, r))
      /\ \A what : what # "mode" => Mirrored(what) /\ (AtMostOne(what) => AtMostOne(what)')
      /\ (\A r \in wire : r.what # "mode") => AtMostOne("mode")'
         /\ \A q \in wire' : q.what = "mode" => q = request
  BY <1>2, <1>3, <1>4, SentIs
<1>8. Mirrored("exclude") /\ Mirrored("place") /\ AtMostOne("exclude")'
        /\ (AtMostOne("place") => AtMostOne("place")')
  BY <1>4, <1>7
<1>9. ASSUME CheckedIsIncluded PROVE CheckedIsIncluded'
  <2>1. SameBoxes
    BY <1>2 DEF SameBoxes
  <2> QED
    BY <1>4, <1>5, <1>8, <1>9, <2>1, CheckedKept
<1>10. ASSUME ChosenIsSaved PROVE ChosenIsSaved'
  <2>1. SameBoxes
    BY <1>2 DEF SameBoxes
  <2> QED
    BY <1>4, <1>5, <1>8, <1>10, <2>1, ChosenKept
<1>11. ASSUME session.alone PROVE Typed /\ modal.full \in [Systems -> BOOLEAN]
  BY <1>2, <1>11 DEF DialogInv, Typed, TypedModal
<1>12. ASSUME session.alone
       PROVE  modal'.full \in [Systems -> BOOLEAN]
              /\ \A t \in Systems : modal'.full[t] = IF t = s THEN ~full ELSE modal.full[t]
  <2>1. Dialog!With(modal.full, s,
                    ~full) = [t \in Systems |-> IF t = s THEN ~full ELSE modal.full[t]]
    <3>1. DOMAIN modal.full \cup {s} = Systems
      BY <1>11, <1>12
    <3> QED
      BY <3>1 DEF Dialog!With
  <2> HIDE DEF now
  <2>2. PICK u \in BOOLEAN : u = ~full
    BY <1>1
  <2>3. modal'.full = [t \in Systems |-> IF t = s THEN u ELSE modal.full[t]]
    BY <1>5, <2>1, <2>2
  <2>4. \A t \in Systems : modal.full[t] \in BOOLEAN
    BY <1>11, <1>12
  <2>5. \A t \in Systems : modal'.full[t] = IF t = s THEN u ELSE modal.full[t]
    BY <2>3
  <2>6. modal'.full \in [Systems -> BOOLEAN]
    BY <2>3, <2>4
  <2> QED
    BY <2>2, <2>5, <2>6
<1>13. ASSUME session.alone, ModeIsSaved, modal'.regular PROVE ModeIsSaved'
  <2>1. \A t \in Systems : modal.full[t] = server.sys[t].full
    BY <1>6, <1>13 DEF ModeIsSaved
  <2>2. modal.full[s] = full
    <3>1. DOMAIN modal.full = Systems /\ modal.full[s] \in BOOLEAN
      BY <1>11, <1>13
    <3>2. full <=> modal.full[s]
      BY <1>1, <3>1
    <3> QED
      BY <3>1, <3>2
  <2>3. AtMostOne("mode")' /\ \A q \in wire' : q.what = "mode" => q = request
    BY <1>6, <1>7, <1>13
  <2>4. request.ask.system = s /\ request.ask.full = ~full /\ request.answer = "none"
        /\ request.undo = full
        /\ request.what = "mode" /\ server' = server
    BY <1>2, <1>3
  <2>5. \A t \in Systems : t # s => modal'.full[t] = server'.sys[t].full
    BY <1>12, <1>13, <2>1, <2>4
  <2>6. /\ modal'.full[s] = ~full /\ full = ~(~full)
        /\ server'.sys[s].full = (("none" = "ok") = ~full)
    BY <1>12, <1>13, <2>1, <2>2, <2>4
  <2>7. \A t \in Systems : (\A q \in wire' : q.what = "mode" => q.ask.system # t)
          => modal'.full[t] = server'.sys[t].full
    BY <1>7, <2>4, <2>5
  <2>8. \A q \in wire' : q.what = "mode" =>
          /\ modal'.full[q.ask.system] = q.ask.full /\ q.undo = ~q.ask.full
          /\ server'.sys[q.ask.system].full = ((q.answer = "ok") = q.ask.full)
    BY <2>3, <2>4, <2>6
  <2> QED
    BY <2>3, <2>7, <2>8 DEF ModeIsSaved
<1>14. ASSUME session.alone
       PROVE  TypedModal' /\ TypedPending' /\ TypedDrag' /\ TypedWire' /\ AtMostOne("place")'
  <2>1. Typed /\ AtMostOne("place")
    BY <1>14 DEF DialogInv
  <2>2. TypedModal'
    BY <1>2, <1>5, <1>12, <1>14, <2>1 DEF Typed, TypedModal, Listed, Given
  <2>3. TypedPending' /\ TypedDrag'
    BY <1>2, <2>1 DEF Typed, TypedPending, TypedDrag, Placement, Given
  <2>4. TypedWire'
    BY <1>2, <1>3, <1>7, <2>1, WireTyped DEF Typed
  <2> QED
    BY <1>8, <2>1, <2>2, <2>3, <2>4
<1>15. ASSUME session.alone, PlaceIsSaved PROVE PlaceIsSaved'
  <2>1. Typed
    BY <1>15 DEF DialogInv
  <2>2. GroupsKept /\ PlacesKept
    BY <1>2, <2>1, SamePlaces DEF Typed
  <2> QED
    BY <1>2, <1>5, <1>8, <1>15, <2>1, <2>2, PlaceKept
<1>16. session.alone /\ Regular => ChosenIsSaved /\ ModeIsSaved /\ PlaceIsSaved
  BY DEF DialogInv
<1> QED
  BY <1>2, <1>5, <1>6, <1>7, <1>8, <1>9, <1>10, <1>13, <1>14, <1>15, <1>16, StepKeeps

(* Drags. *)

\* The boxes and the modes, when only places change.
LEMMA BoxesKept ==
  ASSUME DialogInv, UNCHANGED server, modal'.chosen = modal.chosen, modal'.full = modal.full,
         Mirrored("exclude"), Mirrored("mode"), AtMostOne("mode") => AtMostOne("mode")'
  PROVE  /\ CheckedIsIncluded => CheckedIsIncluded'
         /\ ChosenIsSaved => ChosenIsSaved'
         /\ ModeIsSaved => ModeIsSaved'
<1>1. Shaped /\ SameBoxes /\ SameModes
  BY ModalIs DEF SameBoxes, SameModes
<1>2. CheckedIsIncluded => CheckedIsIncluded'
  BY <1>1, CheckedKept
<1>3. ChosenIsSaved => ChosenIsSaved'
  BY <1>1, ChosenKept
<1>4. ModeIsSaved => ModeIsSaved'
  BY <1>1, ModeKept DEF ModeIsSaved
<1> QED
  BY <1>2, <1>3, <1>4

\* In a drag of a system nothing else moves.
LEMMA AtRest ==
  ASSUME Typed, PlaceIsSaved, drag # None
  PROVE  Fitting /\ modal.edit
BY DEF Typed, TypedDrag, PlaceIsSaved

LEMMA StayingMoves ==
  ASSUME UNCHANGED <<wire, session>>, Shaped
  PROVE  /\ SessionKept /\ Mirrored("exclude") /\ Mirrored("mode") /\ Mirrored("place")
         /\ (\A q \in wire' : Requestish(q)) /\ \A what : AtMostOne(what) => AtMostOne(what)'
<1>1. SessionKept
  BY DEF Shaped, SessionKept
<1> QED
  BY <1>1, SameMirrored DEF Shaped, AtMostOne

LEMMA OrderShownIs ==
  ASSUME Typed, modal # None PROVE Dialog!OrderShown \in Seq(Given)
<1>1. data.order \in Seq(Given) /\ modal.order \in Seq(Given) \cup {None}
  BY DEF Typed, TypedData, TypedModal
<1>2. CASE modal.order = None
  BY <1>1, <1>2 DEF Dialog!OrderShown
<1>3. CASE modal.order # None
  <2> DEFINE a == Dialog!Kept(modal.order, Dialog!ToSet(data.order))
             b == Dialog!Kept(data.order, Dialog!ToSet(data.order) \ Dialog!ToSet(modal.order))
  <2>1. a \in Seq(Given \cap Dialog!ToSet(data.order))
    BY <1>1, <1>3, KeptIs
  <2>2. b \in Seq(Given \cap (Dialog!ToSet(data.order) \ Dialog!ToSet(modal.order)))
    BY <1>1, KeptIs
  <2>3. Dialog!OrderShown = a \o b
    BY <1>3 DEF Dialog!OrderShown
  <2> HIDE DEF a, b
  <2>4. a \in Seq(Given) /\ b \in Seq(Given)
    BY <2>1, <2>2, SeqGrows
  <2> QED
    BY <2>3, <2>4, DialogJoined
<1> QED
  BY <1>2, <1>3

LEMMA StartDragKeeps == ASSUME Dialog!DialogAssumption, DialogInv, Dialog!StartDrag PROVE DialogInv'
<1>1. /\ sent = None /\ drag = None /\ modal # None /\ modal.edit /\ ~Dialog!Waiting("place")
      /\ UNCHANGED <<server, data, modal, pending, dialog, wire, sent, session>>
  BY DEF Dialog!StartDrag, Dialog!Shown, Dialog!Idle, Dialog!SortingDisabled
<1>2. \/ \E s \in DOMAIN modal.list :
           drag' = [what |-> "place", of |-> s, before |-> modal.list, to |-> <<>>]
      \/ \E i \in DOMAIN Dialog!OrderShown :
           drag' = [what |-> "order", of |-> Dialog!OrderShown[i], before |-> Dialog!OrderShown,
                    to |-> Dialog!OrderShown]
  BY DEF Dialog!StartDrag
<1>3. Shaped /\ Modalish(modal) /\ AtMostOne("exclude")
  BY <1>1, ModalIs DEF DialogInv
<1>4. /\ SessionKept /\ Mirrored("exclude") /\ Mirrored("mode") /\ Mirrored("place")
      /\ (\A q \in wire' : Requestish(q)) /\ \A what : AtMostOne(what) => AtMostOne(what)'
  BY <1>1, <1>3, StayingMoves
<1>5. Modalish(modal)'
  BY <1>1, <1>3 DEF Modalish
<1>6. ASSUME session.alone
      PROVE  TypedModal' /\ TypedPending' /\ TypedDrag' /\ TypedWire' /\ AtMostOne("place")'
  <2>1. Typed /\ AtMostOne("place")
    BY <1>6 DEF DialogInv
  <2>2. Given' = Given /\ Listed' = Listed /\ Placement' = Placement
    BY <1>1 DEF Given, Listed, Placement
  <2>3. TypedModal' /\ TypedPending' /\ TypedWire'
    BY <1>1, <2>1, <2>2 DEF Typed, TypedModal, TypedPending, TypedWire
  <2>4. \A r \in wire : r.what # "place"
    BY <1>1, <2>1, NotWaiting
  <2>5. modal.list \in [Systems -> Listed]
    BY <1>1, <2>1 DEF Typed, TypedModal
  <2>6. Dialog!OrderShown \in Seq(Given)
    BY <1>1, <2>1, OrderShownIs
  <2>7. Dragish(drag)'
    <3>1. ASSUME NEW s \in DOMAIN modal.list,
                 drag' = [what |-> "place", of |-> s, before |-> modal.list, to |-> <<>>]
          PROVE  Dragish(drag)'
      BY <2>2, <2>5, <3>1 DEF Dragish
    <3>2. ASSUME NEW i \in DOMAIN Dialog!OrderShown,
                 drag' = [what |-> "order", of |-> Dialog!OrderShown[i],
                          before |-> Dialog!OrderShown, to |-> Dialog!OrderShown]
          PROVE  Dragish(drag)'
      <4>1. Dialog!OrderShown[i] \in Given
        BY <2>6, LenProperties, ElementOfSeq
      <4> QED
        BY <2>2, <2>6, <3>2, <4>1 DEF Dragish
    <3> QED
      BY <1>2, <3>1, <3>2
  <2>8. TypedDrag'
    BY <1>1, <2>4, <2>7 DEF TypedDrag
  <2> QED
    BY <1>4, <2>1, <2>3, <2>8
<1>7. ASSUME session.alone, PlaceIsSaved PROVE PlaceIsSaved'
  <2>1. Typed /\ AtMostOne("place")
    BY <1>7 DEF DialogInv
  <2>2. \A r \in wire : r.what # "place"
    BY <1>1, <2>1, NotWaiting
  <2>3. Fitting /\ ~Moving
    BY <1>1, <1>7, <2>2 DEF PlaceIsSaved, Moving
  <2>4. /\ \A s \in DOMAIN pending : Fits(pending[s], s)
        /\ \A s \in Systems : Fits(modal.list[s], s)
    BY <1>1, <2>3 DEF Fitting
  <2>5. /\ \A s \in DOMAIN pending' : Fits(pending[s], s)'
        /\ \A s \in Systems : Fits(modal.list[s], s)'
    BY <1>1, <2>4 DEF Fits, Gone
  <2>6. Moving' => drag'.before = modal'.list
    BY <1>1, <1>2 DEF Moving
  <2> QED
    BY <1>1, <2>2, <2>5, <2>6 DEF PlaceIsSaved, Fitting
<1>8. session.alone /\ Regular => ChosenIsSaved /\ ModeIsSaved /\ PlaceIsSaved
  BY DEF DialogInv
<1>9. /\ CheckedIsIncluded => CheckedIsIncluded'
      /\ ChosenIsSaved => ChosenIsSaved'
      /\ ModeIsSaved => ModeIsSaved'
  BY <1>1, <1>4, BoxesKept
<1> QED
  BY <1>1, <1>3, <1>4, <1>5, <1>6, <1>7, <1>8, <1>9, StepKeeps

\* The places that a drag gives.
LEMMA MovedIs ==
  ASSUME Dialog!DialogAssumption, Typed, modal # None, NEW s \in Systems,
         NEW i \in DOMAIN data.order, NEW at \in Nat
  PROVE  Dialog!Moved(s, data.order[i], at) \in [Systems -> Placement]
<1>1. modal.list \in [Systems -> Listed] /\ data.order \in Seq(Given) /\ IsFiniteSet(Systems)
  BY DialogCount DEF Typed, TypedModal, TypedData, Dialog!DialogAssumption
<1>2. data.order[i] \in Given
  BY <1>1, LenProperties, ElementOfSeq
<1>3. \A t \in Systems : Dialog!GroupOf(modal.list[t]) \in Given
  BY <1>1 DEF Dialog!GroupOf, Listed, Given
<1> DEFINE k == data.order[i]
           rank(t, h) == Dialog!Cardinality({u \in Dialog!Members(h) \ {s} : ~Dialog!Before(t, u)})
           order(t, h) == IF t = s THEN at
                          ELSE IF h = k /\ rank(t, h) >= at THEN rank(t, h) + 1 ELSE rank(t, h)
           group(t) == IF t = s THEN k ELSE Dialog!GroupOf(modal.list[t])
           f == [t \in DOMAIN modal.list |-> [group |-> group(t), order |-> order(t, group(t))]]
<1>4. ASSUME NEW t, NEW h PROVE rank(t, h) \in Nat
  <2>1. {u \in Dialog!Members(h) \ {s} : ~Dialog!Before(t, u)} \subseteq Systems
    BY <1>1 DEF Dialog!Members
  <2>2. rank(t, h) = Cardinality({u \in Dialog!Members(h) \ {s} : ~Dialog!Before(t, u)})
    BY DialogCount
  <2> QED
    BY <1>1, <2>1, <2>2, FS_Subset, FS_CardinalityType
<1>5. Dialog!Moved(s, k, at) = f
  BY DEF Dialog!Moved
<1> HIDE DEF rank
<1>6. ASSUME NEW t, NEW h PROVE order(t, h) \in Nat
  BY <1>4
<1>7. ASSUME NEW t \in Systems PROVE group(t) \in Given
  BY <1>2, <1>3
<1> HIDE DEF order, group, k
<1>8. f \in [Systems -> Placement]
  BY <1>1, <1>6, <1>7 DEF Placement
<1> HIDE DEF f
<1> QED
  BY <1>5, <1>8 DEF k

LEMMA DragSystemKeeps == ASSUME Dialog!DialogAssumption, DialogInv, Dialog!DragSystem
      PROVE DialogInv'
<1>1. /\ sent = None /\ modal # None /\ drag # None /\ drag.what = "place"
          /\ drag.of \in DOMAIN modal.list
      /\ UNCHANGED <<server, data, pending, dialog, wire, sent, session>>
  BY DEF Dialog!DragSystem, Dialog!Dragging
<1>2. PICK i \in DOMAIN data.order, at \in 1 .. Dialog!Cardinality(Systems) :
        /\ drag' = [drag EXCEPT !.to = Dialog!Moved(drag.of, data.order[i], at)]
        /\ modal' = [modal EXCEPT !.list = Dialog!Placed(modal.list,
                                                         Dialog!Moved(drag.of, data.order[i], at))]
  BY DEF Dialog!DragSystem
<1> DEFINE to == Dialog!Moved(drag.of, data.order[i], at)
<1>3. drag' = [drag EXCEPT !.to = to]
        /\ modal' = [modal EXCEPT !.list = Dialog!Placed(modal.list, to)]
  BY <1>2
<1>4. Shaped /\ Modalish(modal) /\ AtMostOne("exclude")
  BY <1>1, ModalIs DEF DialogInv
<1>5. /\ SessionKept /\ Mirrored("exclude") /\ Mirrored("mode") /\ Mirrored("place")
      /\ (\A q \in wire' : Requestish(q)) /\ \A what : AtMostOne(what) => AtMostOne(what)'
  BY <1>1, <1>4, StayingMoves
<1>6. at \in Nat
  OBVIOUS
<1>7. ASSUME session.alone
      PROVE  /\ Typed /\ modal.edit /\ drag.of \in Systems /\ to \in [Systems -> Placement]
                 /\ to # <<>>
             /\ drag \in [what : {"place"}, of : Systems, before : [Systems -> Listed],
                          to : [Systems -> Placement] \cup {<<>>}]
             /\ modal.list \in [Systems -> Listed] /\ \A r \in wire : r.what # "place"
  <2>1. Typed
    BY <1>7 DEF DialogInv
  <2>2. Dragish(drag) /\ modal.edit /\ (\A r \in wire : r.what # "place")
          /\ modal.list \in [Systems -> Listed]
    BY <1>1, <2>1 DEF Typed, TypedDrag, TypedModal
  <2>3. drag \in [what : {"place"}, of : Systems, before : [Systems -> Listed],
                  to : [Systems -> Placement] \cup {<<>>}]
    BY <1>1, <2>2 DEF Dragish
  <2>4. drag.of \in Systems
    BY <2>3
  <2>5. to \in [Systems -> Placement]
    BY <1>1, <1>6, <2>1, <2>4, MovedIs
  <2> HIDE DEF to
  <2>6. to # <<>>
    BY <2>4, <2>5
  <2> QED
    BY <2>1, <2>2, <2>3, <2>4, <2>5, <2>6
<1> HIDE DEF to
<1>8. /\ Modalish(modal)' /\ modal'.chosen = modal.chosen /\ modal'.edit = modal.edit
      /\ modal'.regular = modal.regular /\ modal'.full = modal.full /\ modal'.order = modal.order
      /\ modal'.list = Dialog!Placed(modal.list, to)
  BY <1>3, <1>4 DEF Modalish
<1>9. ASSUME session.alone
      PROVE  modal'.list \in [Systems -> Listed] /\ \A s \in Systems : Same(modal'.list[s], to[s])
  <2> DEFINE entries == modal.list
  <2>1. /\ entries \in [Systems -> Listed] /\ to \in [Systems -> Placement]
            /\ Systems \in SUBSET Systems
        /\ modal'.list = Dialog!Placed(entries, to)
    BY <1>7, <1>8, <1>9
  <2> HIDE DEF entries
  <2>2. /\ Dialog!Placed(entries, to) \in [Systems -> Listed]
        /\ \A s \in Systems : Same(Dialog!Placed(entries, to)[s],
                                   IF s \in Systems THEN to[s] ELSE entries[s])
    BY <2>1, PlacedIs
  <2> QED
    BY <2>1, <2>2
<1>10. ASSUME session.alone
       PROVE  /\ drag' \in [what : {"place"}, of : Systems, before : [Systems -> Listed],
                            to : [Systems -> Placement] \cup {<<>>}]
              /\ drag'.what = "place" /\ drag'.to = to /\ drag'.before = drag.before /\ drag' # None
  <2>1. /\ drag' \in [what : {"place"}, of : Systems, before : [Systems -> Listed],
                      to : [Systems -> Placement] \cup {<<>>}]
        /\ drag'.what = "place" /\ drag'.to = to /\ drag'.before = drag.before
        /\ drag' \in [what : {"place"}, of : Systems, before : [Systems -> Listed],
                      to : [Systems -> Placement]]
    BY <1>3, <1>7, <1>10
  <2>2. Listed \subseteq [group : Dialog!Keys, order : Nat, updates : BOOLEAN]
          /\ Placement \subseteq [group : Dialog!Keys, order : Nat]
    BY <1>7, <1>10 DEF Listed, Placement, Given, Dialog!Keys, Typed, TypedServer
  <2>3. drag' \in [what : {"place"}, of : Systems,
                   before : [Systems -> [group : Dialog!Keys, order : Nat, updates : BOOLEAN]],
                   to : [Systems -> [group : Dialog!Keys, order : Nat]]]
    <3>1. /\ drag'.before \in [Systems -> [group : Dialog!Keys, order : Nat, updates : BOOLEAN]]
          /\ drag'.to \in [Systems -> [group : Dialog!Keys, order : Nat]]
      BY <2>1, <2>2
    <3> QED
      BY <2>1, <3>1
  <2> QED
    BY <2>1, <2>3 DEF Dialog!DialogAssumption
<1>11. ASSUME session.alone
       PROVE  TypedModal' /\ TypedPending' /\ TypedDrag' /\ TypedWire' /\ AtMostOne("place")'
  <2>1. Typed /\ AtMostOne("place")
    BY <1>11 DEF DialogInv
  <2>2. Given' = Given /\ Listed' = Listed /\ Placement' = Placement
    BY <1>1 DEF Given, Listed, Placement
  <2>3. TypedModal'
    BY <1>1, <1>8, <1>9, <1>11, <2>1, <2>2 DEF Typed, TypedModal
  <2>4. TypedPending' /\ TypedWire'
    BY <1>1, <2>1, <2>2 DEF Typed, TypedPending, TypedWire
  <2>5. TypedServer /\ modal'.full \in [Systems -> BOOLEAN]
          /\ modal'.order \in Seq(Given) \cup {None}
    BY <1>1, <1>8, <2>1 DEF Typed, TypedModal
  <2>6. modal' # None
    <3> DEFINE m == modal'
    <3>1. Modalish(m) /\ m.list \in [Systems -> Listed] /\ m.full \in [Systems -> BOOLEAN]
          /\ m.order \in Seq(Given) \cup {None}
      BY <1>8, <1>9, <1>11, <2>5 DEF Modalish
    <3> HIDE DEF m
    <3>2. m # None
      BY <2>5, <3>1, ModalIsOne
    <3> QED
      BY <3>2 DEF m
  <2>7. Dragish(drag)'
    BY <1>10, <1>11, <2>2 DEF Dragish
  <2>8. TypedDrag'
    BY <1>1, <1>7, <1>8, <1>11, <2>6, <2>7 DEF TypedDrag
  <2> QED
    BY <1>5, <2>1, <2>3, <2>4, <2>8
<1>12. ASSUME session.alone, PlaceIsSaved PROVE PlaceIsSaved'
  <2>1. Fitting /\ Moving /\ \A s \in Systems : Fits(drag.before[s], s)
    BY <1>1, <1>7, <1>12, AtRest DEF Moving, PlaceIsSaved
  <2>2. \A s \in DOMAIN pending' : Fits(pending[s], s)'
    BY <1>1, <2>1 DEF Fitting, Fits, Gone
  <2>3. Moving' /\ drag'.to # <<>> /\ \A s \in Systems : Same(modal.list[s], drag.to[s])'
    BY <1>7, <1>9, <1>10, <1>12 DEF Moving, Same
  <2>4. \A s \in Systems : Fits(drag.before[s], s)'
    BY <1>1, <1>10, <1>12, <2>1 DEF Fits, Gone
  <2>5. Fitting'
    BY <2>2, <2>3 DEF Fitting
  <2> QED
    BY <1>1, <1>7, <1>12, <2>4, <2>5 DEF PlaceIsSaved
<1>13. session.alone /\ Regular => ChosenIsSaved /\ ModeIsSaved /\ PlaceIsSaved
  BY DEF DialogInv
<1>14. /\ CheckedIsIncluded => CheckedIsIncluded'
       /\ ChosenIsSaved => ChosenIsSaved'
       /\ ModeIsSaved => ModeIsSaved'
  BY <1>1, <1>5, <1>8, BoxesKept
<1> QED
  BY <1>1, <1>4, <1>5, <1>8, <1>11, <1>12, <1>13, <1>14, StepKeeps

\* The list with the one that is dragged in its new place.
LEMMA InsertedIs ==
  ASSUME NEW S, NEW entries \in Seq(S), NEW at \in 1 .. Len(entries) + 1, NEW it \in S
  PROVE  Dialog!InsertAt(entries, at, it) \in Seq(S)
<1>1. Len(entries) \in Nat /\ \A i \in 1 .. Len(entries) : entries[i] \in S
  BY LenProperties, ElementOfSeq
<1> DEFINE a == SubSeq(entries, 1, at - 1)
           b == SubSeq(entries, at, Len(entries))
           c == <<it>>
<1>2. at - 1 \in Int /\ at \in Int /\ (\A i \in 1 .. at - 1 : entries[i] \in S)
        /\ \A i \in at .. Len(entries) : entries[i] \in S
  BY <1>1
<1>3. a \in Seq(S) /\ b \in Seq(S)
  BY <1>1, <1>2, SubSeqProperties
<1>4. c \in Seq(S)
  BY OneIs
<1>5. Dialog!InsertAt(entries, at, it) = a \o c \o b
  BY DEF Dialog!InsertAt
<1> HIDE DEF a, b, c
<1>6. a \o c \in Seq(S)
  BY <1>3, <1>4, DialogJoined
<1>7. a \o c \o b \in Seq(S)
  BY <1>3, <1>6, DialogJoined
<1> QED
  BY <1>5, <1>7

LEMMA DragGroupKeeps == ASSUME Dialog!DialogAssumption, DialogInv, Dialog!DragGroup PROVE DialogInv'
<1> DEFINE left == Dialog!Kept(drag.to, Dialog!ToSet(drag.to) \ {drag.of})
<1>1. /\ sent = None /\ modal # None /\ drag # None /\ drag.what = "order"
      /\ UNCHANGED <<server, data, pending, dialog, wire, sent, session>>
  BY DEF Dialog!DragGroup, Dialog!Dragging
<1>2. PICK at \in 1 .. Len(left) + 1 :
        /\ drag' = [drag EXCEPT !.to = Dialog!InsertAt(left, at, drag.of)]
        /\ modal' = [modal EXCEPT !.order = Dialog!InsertAt(left, at, drag.of)]
  BY DEF Dialog!DragGroup
<1> DEFINE to == Dialog!InsertAt(left, at, drag.of)
<1>3. drag' = [drag EXCEPT !.to = to] /\ modal' = [modal EXCEPT !.order = to]
  BY <1>2
<1>4. Shaped /\ Modalish(modal) /\ AtMostOne("exclude")
  BY <1>1, ModalIs DEF DialogInv
<1>5. /\ SessionKept /\ Mirrored("exclude") /\ Mirrored("mode") /\ Mirrored("place")
      /\ (\A q \in wire' : Requestish(q)) /\ \A what : AtMostOne(what) => AtMostOne(what)'
  BY <1>1, <1>4, StayingMoves
<1>6. ASSUME session.alone
      PROVE  /\ Typed /\ modal.edit /\ to \in Seq(Given) /\ (\A r \in wire : r.what # "place")
             /\ drag \in [what : {"order"}, of : Given, before : Seq(Given), to : Seq(Given)]
  <2>1. Typed
    BY <1>6 DEF DialogInv
  <2>2. Dragish(drag) /\ modal.edit /\ \A r \in wire : r.what # "place"
    BY <1>1, <2>1 DEF Typed, TypedDrag
  <2>3. drag \in [what : {"order"}, of : Given, before : Seq(Given), to : Seq(Given)]
    BY <1>1, <2>2 DEF Dragish
  <2>4. drag.to \in Seq(Given) /\ drag.of \in Given
    BY <2>3
  <2>5. left \in Seq(Given)
    <3>1. left \in Seq(Given \cap (Dialog!ToSet(drag.to) \ {drag.of}))
      BY <2>4, KeptIs
    <3> HIDE DEF left
    <3> QED
      BY <3>1, SeqGrows
  <2> HIDE DEF left
  <2>6. to \in Seq(Given)
    BY <2>4, <2>5, InsertedIs
  <2> QED
    BY <2>1, <2>2, <2>3, <2>6
<1> HIDE DEF to, left
<1>7. /\ Modalish(modal)' /\ modal'.chosen = modal.chosen /\ modal'.edit = modal.edit
      /\ modal'.regular = modal.regular /\ modal'.full = modal.full /\ modal'.order = to
      /\ modal'.list = modal.list
  BY <1>3, <1>4 DEF Modalish
<1>8. ASSUME session.alone
      PROVE  /\ drag' \in [what : {"order"}, of : Given, before : Seq(Given), to : Seq(Given)]
             /\ drag'.what = "order"
  BY <1>3, <1>6, <1>8
<1>9. ASSUME session.alone
      PROVE  TypedModal' /\ TypedPending' /\ TypedDrag' /\ TypedWire' /\ AtMostOne("place")'
  <2>1. Typed /\ AtMostOne("place")
    BY <1>9 DEF DialogInv
  <2>2. Given' = Given /\ Listed' = Listed /\ Placement' = Placement
    BY <1>1 DEF Given, Listed, Placement
  <2>3. modal.list \in [Systems -> Listed] /\ modal.full \in [Systems -> BOOLEAN] /\ TypedServer
    BY <1>1, <2>1 DEF Typed, TypedModal
  <2>4. TypedModal'
    BY <1>6, <1>7, <1>9, <2>2, <2>3 DEF TypedModal
  <2>5. TypedPending' /\ TypedWire'
    BY <1>1, <2>1, <2>2 DEF Typed, TypedPending, TypedWire
  <2>6. modal' # None
    <3> DEFINE m == modal'
    <3>1. Modalish(m) /\ m.list \in [Systems -> Listed] /\ m.full \in [Systems -> BOOLEAN]
          /\ m.order \in Seq(Given) \cup {None}
      BY <1>6, <1>7, <1>9, <2>3 DEF Modalish
    <3> HIDE DEF m
    <3>2. m # None
      BY <2>3, <3>1, ModalIsOne
    <3> QED
      BY <3>2 DEF m
  <2>7. Dragish(drag)'
    BY <1>8, <1>9, <2>2 DEF Dragish
  <2>8. TypedDrag'
    BY <1>1, <1>6, <1>7, <1>9, <2>6, <2>7 DEF TypedDrag
  <2> QED
    BY <1>5, <2>1, <2>4, <2>5, <2>8
<1>10. ASSUME session.alone, PlaceIsSaved PROVE PlaceIsSaved'
  <2>1. Typed
    BY <1>10 DEF DialogInv
  <2>2. GroupsKept /\ PlacesKept
    BY <1>1, <2>1, SamePlaces DEF Typed
  <2>3. ~Moving /\ ~Moving'
    BY <1>1, <1>8, <1>10 DEF Moving
  <2> QED
    BY <1>1, <1>5, <1>7, <1>10, <2>1, <2>2, <2>3, PlaceKept
<1>11. session.alone /\ Regular => ChosenIsSaved /\ ModeIsSaved /\ PlaceIsSaved
  BY DEF DialogInv
<1>12. /\ CheckedIsIncluded => CheckedIsIncluded'
       /\ ChosenIsSaved => ChosenIsSaved'
       /\ ModeIsSaved => ModeIsSaved'
  BY <1>1, <1>5, <1>7, BoxesKept
<1> QED
  BY <1>1, <1>4, <1>5, <1>7, <1>9, <1>10, <1>11, <1>12, StepKeeps

\* A drag that ends without a request: the list is as before, or fits as before.
LEMMA EndedKeeps ==
  ASSUME Dialog!DialogAssumption, DialogInv, sent = None, modal # None, drag # None, drag' = None,
         UNCHANGED <<server, data, pending, dialog, wire, sent, session>>, Modalish(modal)',
         modal'.chosen = modal.chosen, modal'.edit = modal.edit, modal'.regular = modal.regular,
         modal'.full = modal.full,
         session.alone => /\ modal'.list \in [Systems -> Listed] /\ modal'.order \in Seq(Given) \cup {None}
                          /\ PlaceIsSaved => \A s \in Systems : Fits(modal'.list[s], s)
  PROVE  DialogInv'
<1>1. Shaped /\ AtMostOne("exclude")
  BY ModalIs DEF DialogInv
<1>2. /\ SessionKept /\ Mirrored("exclude") /\ Mirrored("mode") /\ Mirrored("place")
      /\ (\A q \in wire' : Requestish(q)) /\ \A what : AtMostOne(what) => AtMostOne(what)'
  BY <1>1, StayingMoves
<1>3. ASSUME session.alone
      PROVE  TypedModal' /\ TypedPending' /\ TypedDrag' /\ TypedWire' /\ AtMostOne("place")'
  <2>1. Typed /\ AtMostOne("place")
    BY <1>3 DEF DialogInv
  <2>2. Given' = Given /\ Listed' = Listed /\ Placement' = Placement
    BY DEF Given, Listed, Placement
  <2>3. modal.full \in [Systems -> BOOLEAN]
    BY <2>1 DEF Typed, TypedModal
  <2>4. TypedModal'
    BY <1>3, <2>2, <2>3 DEF TypedModal
  <2>5. TypedPending' /\ TypedWire' /\ TypedDrag'
    BY <2>1, <2>2 DEF Typed, TypedPending, TypedWire, TypedDrag
  <2> QED
    BY <1>2, <2>1, <2>4, <2>5
<1>4. ASSUME session.alone, PlaceIsSaved PROVE PlaceIsSaved'
  <2>1. Fitting /\ \A r \in wire : r.what # "place"
    BY <1>4, AtRest DEF DialogInv, Typed, TypedDrag
  <2>2. \A s \in DOMAIN pending' : Fits(pending[s], s)'
    BY <2>1 DEF Fitting, Fits, Gone
  <2>3. \A s \in Systems : Fits(modal.list[s], s)'
    BY <1>4 DEF Fits, Gone
  <2>4. ~Moving'
    BY DEF Moving
  <2> QED
    BY <2>1, <2>2, <2>3, <2>4 DEF PlaceIsSaved, Fitting
<1>5. session.alone /\ Regular => ChosenIsSaved /\ ModeIsSaved /\ PlaceIsSaved
  BY DEF DialogInv
<1>6. /\ CheckedIsIncluded => CheckedIsIncluded'
      /\ ChosenIsSaved => ChosenIsSaved'
      /\ ModeIsSaved => ModeIsSaved'
  BY <1>2, BoxesKept
<1> QED
  BY <1>1, <1>2, <1>3, <1>4, <1>5, <1>6, StepKeeps

\* What a drag knows.
LEMMA DragKnows ==
  ASSUME DialogInv, session.alone, drag # None
  PROVE  /\ Typed /\ modal # None /\ modal.edit /\ modal.list \in [Systems -> Listed]
         /\ modal.order \in Seq(Given) \cup {None} /\ (\A r \in wire : r.what # "place")
         /\ drag.what \in {"place", "order"}
         /\ drag.what = "place" => drag.before \in [Systems -> Listed]
            /\ drag.to \in [Systems -> Placement] \cup {<<>>}
         /\ drag.what = "order" => drag.before \in Seq(Given) /\ drag.to \in Seq(Given)
<1>1. Typed
  BY DEF DialogInv
<1>2. Dragish(drag)
  BY <1>1 DEF Typed, TypedDrag
<1>3. CASE drag.what = "place"
  <2>1. drag \in [what : {"place"}, of : Systems, before : [Systems -> Listed],
                  to : [Systems -> Placement] \cup {<<>>}]
    BY <1>2, <1>3 DEF Dragish
  <2> QED
    BY <1>1, <1>3, <2>1 DEF Typed, TypedDrag, TypedModal
<1>4. CASE drag.what = "order"
  <2>1. drag \in [what : {"order"}, of : Given, before : Seq(Given), to : Seq(Given)]
    BY <1>2, <1>4 DEF Dragish
  <2> QED
    BY <1>1, <1>4, <2>1 DEF Typed, TypedDrag, TypedModal
<1> QED
  BY <1>2, <1>3, <1>4 DEF Dragish

\* The list that was not moved, or moved to where it was, fits.
LEMMA UnmovedFits ==
  ASSUME DialogInv, session.alone, drag # None, PlaceIsSaved,
         drag.what = "place" => ~Dialog!Changes(drag.to, drag.before) \/ drag.to = <<>>
  PROVE  \A s \in Systems : Fits(modal.list[s], s)
<1>1. /\ Typed /\ modal.edit
      /\ drag.what = "place" => drag.before \in [Systems -> Listed]
         /\ drag.to \in [Systems -> Placement] \cup {<<>>}
  BY DragKnows
<1>2. Fitting
  BY <1>1, AtRest
<1>3. CASE Moving /\ drag.to # <<>>
  <2>1. drag.before \in [Systems -> Listed] /\ drag.to \in [Systems -> Placement]
    BY <1>1, <1>3 DEF Moving
  <2>2. \A s \in Systems : drag.to[s].group = drag.before[s].group
          /\ drag.to[s].order = drag.before[s].order
    BY <1>3, <2>1 DEF Dialog!Changes, Moving
  <2>3. \A s \in Systems : Fits(drag.before[s], s)
    BY <1>3 DEF PlaceIsSaved
  <2> QED
    BY <1>1, <1>2, <2>2, <2>3 DEF Fitting, Fits, Same
<1>4. CASE ~(Moving /\ drag.to # <<>>)
  BY <1>1, <1>2, <1>4 DEF Fitting
<1> QED
  BY <1>3, <1>4

LEMMA CancelDragKeeps == ASSUME Dialog!DialogAssumption, DialogInv, Dialog!CancelDrag
      PROVE DialogInv'
<1>1. /\ sent = None /\ modal # None /\ drag # None /\ drag' = None
      /\ modal' = IF drag.what = "order" THEN [modal EXCEPT !.order = drag.before]
                  ELSE IF drag.to # <<>> THEN [modal EXCEPT !.list = drag.before] ELSE modal
      /\ UNCHANGED <<server, data, pending, dialog, wire, sent, session>>
  BY DEF Dialog!CancelDrag, Dialog!Dragging
<1>2. Modalish(modal)
  BY <1>1, ModalIs
<1>3. CASE drag.what = "order"
  <2>1. /\ Modalish(modal)' /\ modal'.chosen = modal.chosen /\ modal'.edit = modal.edit
        /\ modal'.regular = modal.regular /\ modal'.full = modal.full /\ modal'.order = drag.before
        /\ modal'.list = modal.list
    BY <1>1, <1>2, <1>3 DEF Modalish
  <2>2. ASSUME session.alone
        PROVE  /\ modal'.list \in [Systems -> Listed] /\ modal'.order \in Seq(Given) \cup {None}
               /\ PlaceIsSaved => \A s \in Systems : Fits(modal'.list[s], s)
    <3>1. modal.list \in [Systems -> Listed] /\ drag.before \in Seq(Given)
      BY <1>1, <1>3, <2>2, DragKnows
    <3>2. PlaceIsSaved => \A s \in Systems : Fits(modal.list[s], s)
      BY <1>1, <1>3, <2>2, UnmovedFits
    <3> QED
      BY <2>1, <3>1, <3>2
  <2> QED
    BY <1>1, <2>1, <2>2, EndedKeeps
<1>4. CASE drag.what # "order" /\ drag.to # <<>>
  <2>1. /\ Modalish(modal)' /\ modal'.chosen = modal.chosen /\ modal'.edit = modal.edit
        /\ modal'.regular = modal.regular /\ modal'.full = modal.full /\ modal'.order = modal.order
        /\ modal'.list = drag.before
    BY <1>1, <1>2, <1>4 DEF Modalish
  <2>2. ASSUME session.alone
        PROVE  /\ modal'.list \in [Systems -> Listed] /\ modal'.order \in Seq(Given) \cup {None}
               /\ PlaceIsSaved => \A s \in Systems : Fits(modal'.list[s], s)
    <3>1. modal.order \in Seq(Given) \cup {None} /\ drag.before \in [Systems -> Listed]
            /\ drag.what = "place"
      BY <1>1, <1>4, <2>2, DragKnows
    <3>2. PlaceIsSaved => \A s \in Systems : Fits(drag.before[s], s)
      BY <1>1, <3>1 DEF PlaceIsSaved, Moving
    <3> QED
      BY <2>1, <3>1, <3>2
  <2> QED
    BY <1>1, <2>1, <2>2, EndedKeeps
<1>5. CASE drag.what # "order" /\ drag.to = <<>>
  <2>1. modal' = modal
    BY <1>1, <1>5
  <2>2. ASSUME session.alone
        PROVE  /\ modal'.list \in [Systems -> Listed] /\ modal'.order \in Seq(Given) \cup {None}
               /\ PlaceIsSaved => \A s \in Systems : Fits(modal'.list[s], s)
    <3>1. modal.list \in [Systems -> Listed] /\ modal.order \in Seq(Given) \cup {None}
      BY <1>1, <2>2, DragKnows
    <3>2. PlaceIsSaved => \A s \in Systems : Fits(modal.list[s], s)
      BY <1>1, <1>5, <2>2, UnmovedFits
    <3> QED
      BY <2>1, <3>1, <3>2
  <2>3. Modalish(modal)'
    BY <1>2, <2>1 DEF Modalish
  <2> QED
    BY <1>1, <2>1, <2>2, <2>3, EndedKeeps
<1> QED
  BY <1>3, <1>4, <1>5

\* The places are sent.
LEMMA PlaceSentKeeps ==
  ASSUME Dialog!DialogAssumption, DialogInv, sent = None, modal # None, drag # None, drag' = None,
         drag.what = "place", Dialog!Changes(drag.to, drag.before), pending' = drag.to,
         modal' = [modal EXCEPT !.list = Dialog!Placed(modal.list, drag.to)],
         Dialog!Send(Dialog!Request("place", drag.to, drag.before)),
             UNCHANGED <<server, data, dialog, sent>>
  PROVE  DialogInv'
<1>0. PICK request : request = Dialog!Request("place", drag.to, drag.before)
  OBVIOUS
<1>1. /\ request.what = "place" /\ request.ask = drag.to /\ request.undo = drag.before
          /\ request.answer = "none"
      /\ request.latest /\ Requestish(request) /\ Dialog!Send(request)
  BY <1>0 DEF Dialog!Request, Requestish, Dialog!Kinds
<1>2. Shaped /\ Modalish(modal) /\ AtMostOne("exclude")
  BY ModalIs DEF DialogInv
<1>3. /\ Modalish(modal)' /\ modal'.chosen = modal.chosen /\ modal'.edit = modal.edit
      /\ modal'.regular = modal.regular /\ modal'.full = modal.full /\ modal'.order = modal.order
      /\ modal'.list = Dialog!Placed(modal.list, drag.to)
  BY <1>2 DEF Modalish
<1>4. /\ request \in wire' /\ SessionKept
      /\ \A q \in wire' : Requestish(q) /\ (q = request \/ \E r \in wire : Alike(q, r))
      /\ \A what : what # "place" => Mirrored(what) /\ (AtMostOne(what) => AtMostOne(what)')
      /\ (\A r \in wire : r.what # "place") =>
           AtMostOne("place")' /\ \A q \in wire' : q.what = "place" => q = request
  BY <1>1, <1>2, SentIs
<1>5. Mirrored("exclude") /\ Mirrored("mode") /\ AtMostOne("exclude")'
        /\ (AtMostOne("mode") => AtMostOne("mode")')
  BY <1>2, <1>4
<1>6. ASSUME session.alone
      PROVE  /\ Typed /\ modal.edit /\ drag.before \in [Systems -> Listed]
                 /\ drag.to \in [Systems -> Placement]
             /\ modal'.list \in [Systems -> Listed]
                /\ (\A s \in Systems : Same(modal'.list[s], drag.to[s]))
             /\ modal.order \in Seq(Given) \cup {None}
             /\ AtMostOne("place")' /\ \A q \in wire' : q.what = "place" => q = request
  <2>1. /\ Typed /\ modal.edit /\ drag.before \in [Systems -> Listed]
            /\ modal.list \in [Systems -> Listed]
        /\ drag.to \in [Systems -> Placement] \cup {<<>>} /\ modal.order \in Seq(Given) \cup {None}
        /\ \A r \in wire : r.what # "place"
    BY <1>6, DragKnows
  <2>2. drag.to # <<>>
    BY DEF Dialog!Changes
  <2>3. drag.to \in [Systems -> Placement]
    BY <2>1, <2>2
  <2>4. /\ Dialog!Placed(modal.list, drag.to) \in [Systems -> Listed]
        /\ \A s \in Systems : Same(Dialog!Placed(modal.list, drag.to)[s],
                                   IF s \in Systems THEN drag.to[s] ELSE modal.list[s])
    <3> DEFINE l == modal.list
               d == drag.to
               D == Systems
    <3>1. l \in [Systems -> Listed] /\ d \in [D -> Placement] /\ D \in SUBSET Systems
      BY <2>1, <2>3
    <3> HIDE DEF l, d, D
    <3>2. /\ Dialog!Placed(l, d) \in [Systems -> Listed]
          /\ \A s \in Systems : Same(Dialog!Placed(l, d)[s], IF s \in D THEN d[s] ELSE l[s])
      BY <3>1, PlacedIs
    <3> QED
      BY <3>2 DEF l, d, D
  <2>5. modal'.list \in [Systems -> Listed] /\ \A s \in Systems : Same(modal'.list[s], drag.to[s])
    BY <1>3, <2>4
  <2> QED
    BY <1>4, <2>1, <2>3, <2>5
<1>7. ASSUME session.alone
      PROVE  TypedModal' /\ TypedPending' /\ TypedDrag' /\ TypedWire' /\ AtMostOne("place")'
  <2>1. Given' = Given /\ Listed' = Listed /\ Placement' = Placement
    BY DEF Given, Listed, Placement
  <2>2. modal.full \in [Systems -> BOOLEAN]
    BY <1>6, <1>7 DEF Typed, TypedModal
  <2>3. TypedModal'
    BY <1>3, <1>6, <1>7, <2>1, <2>2 DEF TypedModal
  <2>4. TypedPending'
    BY <1>6, <1>7, <2>1 DEF TypedPending
  <2>5. TypedDrag'
    BY DEF TypedDrag
  <2>6. TypedWire'
    BY <1>1, <1>4, <1>6, <1>7, WireTyped DEF Typed
  <2> QED
    BY <1>6, <1>7, <2>3, <2>4, <2>5, <2>6
<1>8. ASSUME session.alone, PlaceIsSaved PROVE PlaceIsSaved'
  <2>1. \A s \in Systems : Fits(request.undo[s], s)'
    BY <1>1, <1>8 DEF PlaceIsSaved, Moving, Fits, Gone
  <2>2. DialogAsked(request)'
    BY <1>1, <1>6, <1>8 DEF DialogAsked, Same
  <2>3. ~Moving'
    BY DEF Moving
  <2>4. \A q \in wire' : q.what = "place" => q = request
    BY <1>6, <1>8
  <2> QED
    BY <1>1, <1>4, <2>1, <2>2, <2>3, <2>4 DEF PlaceIsSaved
<1>9. session.alone /\ Regular => ChosenIsSaved /\ ModeIsSaved /\ PlaceIsSaved
  BY DEF DialogInv
<1>10. /\ CheckedIsIncluded => CheckedIsIncluded'
       /\ ChosenIsSaved => ChosenIsSaved'
       /\ ModeIsSaved => ModeIsSaved'
  BY <1>3, <1>5, BoxesKept
<1> QED
  BY <1>3, <1>4, <1>5, <1>7, <1>8, <1>9, <1>10, StepKeeps

\* The order of the groups is sent.
LEMMA OrderSentKeeps ==
  ASSUME Dialog!DialogAssumption, DialogInv, sent = None, modal # None, drag # None, drag' = None,
         drag.what # "place", Dialog!Send(Dialog!Request("order", drag.to, drag.before)),
         UNCHANGED <<server, data, modal, pending, dialog, sent>>
  PROVE  DialogInv'
<1> DEFINE request == Dialog!Request("order", drag.to, drag.before)
<1>1. /\ request.what = "order" /\ request.ask = drag.to /\ request.undo = drag.before
          /\ request.answer = "none"
      /\ request.latest /\ Requestish(request) /\ Dialog!Send(request)
  BY DEF Dialog!Request, Requestish, Dialog!Kinds
<1> HIDE DEF request
<1>2. Shaped /\ Modalish(modal) /\ AtMostOne("exclude")
  BY ModalIs DEF DialogInv
<1>3. Modalish(modal)'
  BY <1>2 DEF Modalish
<1>4. /\ SessionKept
      /\ \A q \in wire' : Requestish(q) /\ (q = request \/ \E r \in wire : Alike(q, r))
      /\ \A what : what # "order" => Mirrored(what) /\ (AtMostOne(what) => AtMostOne(what)')
  BY <1>1, <1>2, SentIs
<1>5. /\ Mirrored("exclude") /\ Mirrored("mode") /\ Mirrored("place")
      /\ AtMostOne("exclude")' /\ (AtMostOne("mode") => AtMostOne("mode")')
         /\ (AtMostOne("place") => AtMostOne("place")')
  BY <1>2, <1>4
<1>6. ASSUME session.alone
      PROVE  Typed /\ AtMostOne("place") /\ modal.edit /\ drag.before \in Seq(Given)
             /\ drag.to \in Seq(Given)
  BY <1>6, DragKnows DEF DialogInv
<1>7. ASSUME session.alone
      PROVE  TypedModal' /\ TypedPending' /\ TypedDrag' /\ TypedWire' /\ AtMostOne("place")'
  <2>1. Given' = Given /\ Listed' = Listed /\ Placement' = Placement
    BY DEF Given, Listed, Placement
  <2>2. TypedModal' /\ TypedPending' /\ TypedDrag'
    BY <1>6, <1>7, <2>1 DEF Typed, TypedModal, TypedPending, TypedDrag
  <2>3. TypedWire'
    BY <1>1, <1>4, <1>6, <1>7, WireTyped DEF Typed
  <2> QED
    BY <1>5, <1>6, <1>7, <2>2, <2>3
<1>8. ASSUME session.alone, PlaceIsSaved PROVE PlaceIsSaved'
  <2>1. GroupsKept /\ PlacesKept
    BY <1>6, <1>8, SamePlaces DEF Typed
  <2>2. ~Moving /\ ~Moving'
    BY DEF Moving
  <2> QED
    BY <1>5, <1>6, <1>8, <2>1, <2>2, PlaceKept
<1>9. session.alone /\ Regular => ChosenIsSaved /\ ModeIsSaved /\ PlaceIsSaved
  BY DEF DialogInv
<1>10. /\ CheckedIsIncluded => CheckedIsIncluded'
       /\ ChosenIsSaved => ChosenIsSaved'
       /\ ModeIsSaved => ModeIsSaved'
  BY <1>5, BoxesKept
<1> QED
  BY <1>3, <1>4, <1>5, <1>7, <1>8, <1>9, <1>10, StepKeeps

LEMMA DropKeeps == ASSUME Dialog!DialogAssumption, DialogInv, Dialog!Drop PROVE DialogInv'
<1>1. /\ sent = None /\ modal # None /\ drag # None /\ drag' = None
      /\ UNCHANGED <<server, data, dialog, sent>>
  BY DEF Dialog!Drop, Dialog!Dragging
<1>2. \/ /\ drag.what = "place" /\ Dialog!Changes(drag.to, drag.before)
         /\ pending' = drag.to
            /\ modal' = [modal EXCEPT !.list = Dialog!Placed(modal.list, drag.to)]
         /\ Dialog!Send(Dialog!Request("place", drag.to, drag.before))
      \/ drag.what # "place" /\ Dialog!Send(Dialog!Request("order", drag.to, drag.before))
         /\ UNCHANGED <<pending, modal>>
      \/ /\ UNCHANGED <<pending, modal, wire, session>>
         /\ drag.what = "place" => ~Dialog!Changes(drag.to, drag.before)
  BY DEF Dialog!Drop
<1>3. CASE /\ drag.what = "place" /\ Dialog!Changes(drag.to, drag.before)
           /\ pending' = drag.to
              /\ modal' = [modal EXCEPT !.list = Dialog!Placed(modal.list, drag.to)]
           /\ Dialog!Send(Dialog!Request("place", drag.to, drag.before))
  BY <1>1, <1>3, PlaceSentKeeps
<1>4. CASE drag.what # "place" /\ Dialog!Send(Dialog!Request("order", drag.to, drag.before))
        /\ UNCHANGED <<pending, modal>>
  BY <1>1, <1>4, OrderSentKeeps
<1>5. CASE /\ UNCHANGED <<pending, modal, wire, session>>
           /\ drag.what = "place" => ~Dialog!Changes(drag.to, drag.before)
  <2>1. Modalish(modal) /\ Modalish(modal)'
    BY <1>1, <1>5, ModalIs DEF Modalish
  <2>2. ASSUME session.alone
        PROVE  /\ modal'.list \in [Systems -> Listed] /\ modal'.order \in Seq(Given) \cup {None}
               /\ PlaceIsSaved => \A s \in Systems : Fits(modal'.list[s], s)
    <3>1. modal.list \in [Systems -> Listed] /\ modal.order \in Seq(Given) \cup {None}
      BY <1>1, <2>2, DragKnows
    <3>2. PlaceIsSaved => \A s \in Systems : Fits(modal.list[s], s)
      BY <1>1, <1>5, <2>2, UnmovedFits
    <3> QED
      BY <1>5, <3>1, <3>2
  <2> QED
    BY <1>1, <1>5, <2>1, <2>2, EndedKeeps
<1> QED
  BY <1>2, <1>3, <1>4, <1>5

-------------------------------------------------------------------------------
LEMMA DialogInit == ASSUME Dialog!DialogAssumption, Dialog!Init PROVE DialogInv
<1> DEFINE g == CHOOSE h \in Groups : TRUE
<1>1. PICK excluded \in SUBSET Systems, grouped \in SUBSET Systems :
        server = [order |-> <<g, Ungrouped>>, made |-> {g},
                  sys |-> [s \in Systems |->
                    [group |-> IF s \in grouped THEN g ELSE Ungrouped, order |-> 1,
                     excluded |-> s \in excluded, full |-> FALSE, state |-> "updates"]]]
  BY DEF Dialog!Init
<1>2. g \in Groups
  BY DEF Dialog!DialogAssumption
<1> HIDE DEF g
<1> DEFINE row(s) == [group |-> IF s \in grouped THEN g ELSE Ungrouped, order |-> 1,
                      excluded |-> s \in excluded, full |-> FALSE, state |-> "updates"]
           order == <<g, Ungrouped>>
<1>3. server.sys = [s \in Systems |-> row(s)] /\ server.order = order /\ server.made = {g}
      /\ server \in [sys : {server.sys}, order : {server.order}, made : {server.made}]
  BY <1>1
<1>4. order \in Seq({g, Ungrouped}) /\ Len(order) = 2 /\ order[1] = g /\ order[2] = Ungrouped
  OBVIOUS
<1> HIDE DEF order
<1>5. Dialog!ToSet(order) = {g, Ungrouped}
  <2>1. DOMAIN order = {1, 2}
    BY <1>4, LenProperties
  <2> QED
    BY <1>4, <2>1 DEF Dialog!ToSet
<1>6. Given = {g, Ungrouped}
  BY <1>3 DEF Given
<1>7. ASSUME NEW s \in Systems
      PROVE  /\ row(s) \in [group : {g, Ungrouped}, order : {1}, excluded : BOOLEAN, full : BOOLEAN,
                            state : {"updates"}]
             /\ row(s).group \in {g, Ungrouped}
  <2>1. (s \in excluded) \in BOOLEAN /\ FALSE \in BOOLEAN
    OBVIOUS
  <2>2. PICK k \in {g, Ungrouped} : k = IF s \in grouped THEN g ELSE Ungrouped
    OBVIOUS
  <2>3. PICK e \in BOOLEAN : e = (s \in excluded)
    BY <2>1
  <2>4. PICK f \in BOOLEAN : f = FALSE
    BY <2>1
  <2>5. row(s) = [group |-> k, order |-> 1, excluded |-> e, full |-> f, state |-> "updates"]
    BY <2>2, <2>3, <2>4
  <2> QED
    BY <2>5
<1> HIDE DEF row
<1>8. ASSUME NEW s \in Systems
      PROVE  server.sys[s] \in [group : {g, Ungrouped}, order : {1}, excluded : BOOLEAN,
                                full : BOOLEAN,
                                state : {"updates"}]
  BY <1>3, <1>7
<1>9. TypedServer
  <2>1. server.sys \in [Systems -> Known]
    BY <1>3, <1>6, <1>7 DEF Known
  <2> QED
    BY <1>2, <1>3, <1>4, <1>5, <1>6, <1>8, <2>1 DEF TypedServer
<1>10. /\ data = [order |-> server.order, sys |-> server.sys]
       /\ modal = None /\ pending = <<>> /\ drag = None /\ dialog = None /\ wire = {} /\ sent = None
  BY DEF Dialog!Init
<1>11. PICK t \in DialogSessions : session = [kinds |-> t.kinds, requests |-> t.requests,
                                              events |-> t.events, alone |-> TRUE]
  BY DEF Dialog!Init
<1>12. session \in [kinds : {session.kinds}, requests : {session.requests},
                    events : {session.events},
                    alone : BOOLEAN]
  <2>1. PICK b \in BOOLEAN : b = TRUE
    OBVIOUS
  <2>2. session = [kinds |-> t.kinds, requests |-> t.requests, events |-> t.events, alone |-> b]
    BY <1>11, <2>1
  <2> QED
    BY <2>2
<1>13. Shaped
  <2>1. server.sys \in [Systems -> {server.sys[s] : s \in Systems}]
    BY <1>3
  <2>2. \A s \in Systems :
          server.sys[s] \in [group : {server.sys[s].group}, order : {server.sys[s].order},
                             excluded : BOOLEAN, full : BOOLEAN, state : Dialog!States]
    BY <1>8 DEF Dialog!States
  <2> QED
    BY <1>3, <1>10, <1>12, <2>1, <2>2 DEF Shaped
<1>14. TypedData /\ TypedModal /\ TypedPending /\ TypedDrag /\ TypedWire
  BY <1>9, <1>10 DEF TypedData, TypedModal, TypedPending, TypedDrag, TypedWire, TypedServer
<1> QED
  BY <1>9, <1>10, <1>13, <1>14 DEF DialogInv, Typed, AtMostOne, Regular, Dialog!QueuedAsIncluded

LEMMA DialogStep == ASSUME Dialog!DialogAssumption, DialogInv, [Dialog!Next]_Dialog!vars
      PROVE DialogInv'
<1>1. CASE Dialog!Open
  BY <1>1, OpenKeeps
<1>2. CASE Dialog!Close
  BY <1>2, CloseKeeps
<1>3. CASE Dialog!ToggleEdit
  BY <1>3, ToggleEditKeeps
<1>4. CASE Dialog!CreateGroup
  BY <1>4, CreateGroupKeeps
<1>5. CASE Dialog!AskGroup
  BY <1>5, AskGroupKeeps
<1>6. CASE Dialog!DropGroup
  BY <1>6, DropGroupKeeps
<1>7. CASE Dialog!ConfirmGroup
  BY <1>7, ConfirmGroupKeeps
<1>8. CASE \E s \in Systems : Dialog!ToggleSystem(s) \/ Dialog!ToggleMode(s)
  BY <1>8, ToggleSystemKeeps, ToggleModeKeeps
<1>9. CASE Dialog!Submit
  BY <1>9, SubmitKeeps
<1>10. CASE Dialog!StartDrag
  BY <1>10, StartDragKeeps
<1>11. CASE Dialog!DragSystem
  BY <1>11, DragSystemKeeps
<1>12. CASE Dialog!DragGroup
  BY <1>12, DragGroupKeeps
<1>13. CASE Dialog!Drop
  BY <1>13, DropKeeps
<1>14. CASE Dialog!CancelDrag
  BY <1>14, CancelDragKeeps
<1>15. CASE Dialog!Serve
  BY <1>15, ServeKeeps
<1>16. CASE Dialog!Others
  BY <1>16, OthersKeepAll
<1>17. CASE Dialog!Read
  BY <1>17, DialogReadKeeps
<1>18. CASE Dialog!Answer
  BY <1>18, DialogAnswerKeeps
<1>19. CASE UNCHANGED Dialog!vars
  <2>1. UNCHANGED <<server, data, modal, pending, drag, dialog, wire, sent, session>>
    BY <1>19 DEF Dialog!vars, Dialog!page
  <2>2. dialog # None => dialog \in [what : {"rename", "delete"}, group : Groups]
    BY DEF DialogInv, Shaped
  <2> QED
    BY <2>1, <2>2, AllTheSame
<1> QED
  BY <1>1, <1>2, <1>3, <1>4, <1>5, <1>6, <1>7, <1>8, <1>9, <1>10, <1>11, <1>12, <1>13, <1>14, <1>15,
     <1>16,
     <1>17, <1>18, <1>19, Zenon DEF Dialog!Next

LEMMA DialogHolds == ASSUME DialogInv PROVE Dialog!UpgradeDialogSound
<1> SUFFICES ASSUME modal # None, modal.regular, wire = {}, drag = None, Dialog!Current,
                    session.alone,
                    NEW s \in DOMAIN modal.list
             PROVE  /\ (s \in modal.chosen) = ~server.sys[s].excluded
                    /\ modal.full[s] = server.sys[s].full
                    /\ modal.edit => /\ Dialog!GroupOf(modal.list[s]) = server.sys[s].group
                                     /\ modal.list[s].order = server.sys[s].order
  BY DEF Dialog!UpgradeDialogSound, Dialog!ShowsSaved, DialogInv
<1>1. Typed /\ ChosenIsSaved /\ ModeIsSaved /\ PlaceIsSaved
  BY DEF DialogInv, Regular
<1>2. modal.list \in [Systems -> Listed] /\ TypedServer /\ data.order = server.order
        /\ server.order \in Seq(Given)
  BY <1>1 DEF Typed, TypedModal, TypedServer, Dialog!Current
<1>3. s \in Systems
  BY <1>2
<1>4. Fitting /\ ~Moving
  BY <1>1 DEF PlaceIsSaved, Moving
<1>5. ASSUME modal.edit
      PROVE  Dialog!GroupOf(modal.list[s]) = server.sys[s].group
             /\ modal.list[s].order = server.sys[s].order
  <2>1. Fits(modal.list[s], s)
    BY <1>3, <1>4, <1>5 DEF Fitting
  <2>2. server.sys[s].group \in Dialog!ToSet(server.order)
    BY <1>2, <1>3 DEF TypedServer
  <2>3. Dialog!Contains(data.order,
                        modal.list[s].group) = (modal.list[s].group \in Dialog!ToSet(server.order))
    BY <1>2, ContainsIs
  <2> QED
    BY <2>1, <2>2, <2>3 DEF Fits, Gone, Dialog!GroupOf
<1> QED
  BY <1>1, <1>3, <1>5 DEF ChosenIsSaved, ModeIsSaved

--------------------------------------------------------------------------------
Editing == INSTANCE ScriptEditor WITH Absent <- None, Blank <- None, Sessions <- EditorSessions

(***************************************************************************)
(* ScriptEditor.                                                           *)
(***************************************************************************)
-------------------------------------------------------------------------------
EditorRowish(i, row) == row \in [born : {i}, script : {row.script}] /\ Editing!Fine(row.script)

Listing(rows) ==
  /\ rows \in [Editing!Ids -> {rows[i] : i \in Editing!Ids}]
  /\ \A i \in Editing!Ids : rows[i] # None => EditorRowish(i, rows[i])

EditorOneDefault(rows) ==
  \A i, j \in Editing!Ids : rows[i] # None /\ rows[j] # None /\ i # j
      => ~Editing!Clash(rows[i].script, rows[j].script)

Editorish(e) ==
  /\ e \in [id : {e.id}, script : Editing!Draft, neat : {e.neat}, untouched : BOOLEAN,
            source : {e.source}]
  /\ e.id # None => e.id \in Editing!Ids /\ e.source = e.id
  /\ e.neat # None => e.neat.command \in Editing!Command

EditorSaveish(r) ==
  /\ r \in [id : {r.id}, script : Editing!Draft, heard : BOOLEAN, meant : {r.meant},
            untouched : BOOLEAN]
  /\ r.id # None => r.id \in Editing!Ids /\ r.meant = r.id
  /\ Editing!Tidy(r.script)

EditorToggleish(r) ==
  /\ r \in [id : Editing!Ids, script : Editing!Draft, meant : {r.id}, untouched : BOOLEAN]
     /\ Editing!Tidy(r.script)

EditorShape ==
  /\ server \in [rows : {server.rows}, last : {server.last}]
  /\ Listing(server.rows) /\ Listing(data) /\ EditorOneDefault(server.rows)
  /\ editor # None => Editorish(editor)
  /\ asked \in [save : {asked.save}, toggle : {asked.toggle}]
  /\ asked.save # None => EditorSaveish(asked.save)
  /\ asked.toggle # None => EditorToggleish(asked.toggle)
  /\ copying # None => copying \in Editing!Draft
  /\ dialog # None => dialog \in [id : Editing!Ids, meant : {dialog.id}]
  /\ session \in [scripts : {session.scripts}, kinds : {session.kinds}, edits : {session.edits},
                  events : {session.events}]
  /\ Editing!Fine(session.scripts[1])

Kept(i, s) == server.rows[i] # None => server.rows[i].script = s

LooksOnly(e) == e # None /\ e.untouched /\ e.id # None

EditorInv ==
  /\ EditorShape
  /\ LooksOnly(editor) =>
       /\ asked.toggle = None /\ Kept(editor.id, editor.script)
       /\ asked.save # None => asked.save.heard /\ asked.save.id # None
  /\ LooksOnly(asked.save) => asked.toggle = None /\ Kept(asked.save.id, asked.save.script)
  /\ asked.toggle # None /\ asked.toggle.untouched =>
       /\ asked.save = None
       /\ Kept(asked.toggle.id, [asked.toggle.script EXCEPT !.default = ~@])
  /\ Editing!NothingElseChanges /\ Editing!MeetsTheListed

-------------------------------------------------------------------------------
LEMMA DraftIs ==
  ASSUME NEW s, s \in Editing!Draft
  PROVE  /\ s.operation \in {"detect", "check_updates", "system_info"}
         /\ s.manager \in Builtin \cup Custom \cup {None}
         /\ s.default \in BOOLEAN /\ s.steps \in Seq(Editing!Step) /\ s.parse \in {None} \cup Nat
BY DEF Editing!Draft

LEMMA Remarked ==
  ASSUME NEW s, Editing!Fine(s), NEW b \in BOOLEAN
  PROVE  Editing!Fine([s EXCEPT !.default = b])
<1> DEFINE t == [s EXCEPT !.default = b]
<1>1. t \in Editing!Draft /\ t.steps = s.steps /\ t.operation = s.operation /\ t.manager = s.manager
      /\ t.parse = s.parse
  BY DEF Editing!Fine, Editing!Draft
<1> HIDE DEF t
<1>2. Editing!Fine(t)
  BY <1>1 DEF Editing!Fine, Editing!Runs, Editing!Tidy, Editing!ShowsParser
<1> QED
  BY <1>2 DEF t

LEMMA EditorNormalIs ==
  ASSUME NEW s, s \in Editing!Draft, Editing!Tidy(s)
  PROVE  Editing!Normal(s) = s /\ (Editing!Valid(Editing!Normal(s)) => Editing!Fine(s))
<1>1. Editing!Normal(s) = s
  <2>1. CASE s.operation = "check_updates"
    BY <2>1 DEF Editing!Normal
  <2>2. CASE s.operation # "check_updates"
    <3>1. s.parse = None
      BY <2>2 DEF Editing!Tidy, Editing!ShowsParser
    <3>2. [s EXCEPT !.parse = None] = s
      BY <3>1 DEF Editing!Draft
    <3> QED
      BY <2>2, <3>2 DEF Editing!Normal
  <2> QED
    BY <2>1, <2>2
<1>2. ASSUME Editing!Valid(s) PROVE Editing!Fine(s)
  <2>1. s.steps \in Seq(Editing!Step) /\ s.parse \in {None} \cup Nat
    BY DraftIs
  <2>2. Len(s.steps) \in Nat /\ DOMAIN s.steps = 1 .. Len(s.steps)
    BY <2>1, LenProperties
  <2>3. s.parse # None => s.parse + 1 \in DOMAIN s.steps
    BY <1>2, <2>1, <2>2 DEF Editing!Valid
  <2> QED
    BY <1>2, <2>3 DEF Editing!Valid, Editing!Fine, Editing!Runs
<1> QED
  BY <1>1, <1>2

LEMMA RowIs ==
  ASSUME NEW i, NEW row, EditorRowish(i, row)
  PROVE  row.born = i /\ Editing!Fine(row.script) /\ row.script \in Editing!Draft
         /\ row = [born |-> i, script |-> row.script]
BY DEF EditorRowish, Editing!Fine

LEMMA RowMade ==
  ASSUME NEW i, NEW s, Editing!Fine(s)
  PROVE  EditorRowish(i, [born |-> i, script |-> s])
BY DEF EditorRowish

LEMMA RowRemarked ==
  ASSUME NEW i, NEW row, EditorRowish(i, row), NEW b \in BOOLEAN, NEW q,
         q = [row EXCEPT !.script.default = b]
  PROVE  /\ EditorRowish(i, q) /\ q.script = [row.script EXCEPT !.default = b]
         /\ q = [born |-> i, script |-> [row.script EXCEPT !.default = b]]
<1>1. row = [born |-> i, script |-> row.script] /\ Editing!Fine(row.script)
  BY RowIs
<1> DEFINE t == [row.script EXCEPT !.default = b]
<1>2. q = [born |-> i, script |-> t]
  BY <1>1
<1>3. Editing!Fine(t)
  BY <1>1, Remarked
<1> HIDE DEF t
<1>4. EditorRowish(i, [born |-> i, script |-> t])
  BY <1>3, RowMade
<1> QED
  BY <1>2, <1>4 DEF t

LEMMA DefaultIs ==
  ASSUME NEW s, s \in Editing!Draft, NEW b \in BOOLEAN, NEW t, t = [s EXCEPT !.default = b]
  PROVE  /\ t.default = b /\ t.operation = s.operation /\ t.manager = s.manager /\ t.steps = s.steps
         /\ t.parse = s.parse /\ t \in Editing!Draft
BY DEF Editing!Draft

LEMMA StoredIs ==
  ASSUME NEW rows, Listing(rows), NEW i, NEW row, i \in Editing!Ids => EditorRowish(i, row)
  PROVE  /\ Listing(Editing!Stored(rows, i, row))
         /\ EditorOneDefault(rows) => EditorOneDefault(Editing!Stored(rows, i, row))
<1> DEFINE new == Editing!Stored(rows, i, row)
<1>1. new \in [Editing!Ids -> {new[j] : j \in Editing!Ids}]
  BY DEF Editing!Stored
<1>2. ASSUME NEW j \in Editing!Ids
      PROVE  /\ j = i => new[j] = row
             /\ j # i /\ rows[j] = None => new[j] = None
             /\ j # i /\ rows[j] # None =>
                  IF row.script.default /\ Editing!SameScope(rows[j].script, row.script)
                  THEN new[j] = [rows[j] EXCEPT !.script.default = FALSE]
                  ELSE new[j] = rows[j]
  BY DEF Editing!Stored
<1> HIDE DEF new
<1>3. ASSUME NEW j \in Editing!Ids, j # i, new[j] # None
      PROVE  /\ rows[j] # None /\ EditorRowish(j, new[j])
             /\ Editing!SameScope(new[j].script, row.script) /\ row.script.default
                => ~new[j].script.default
             /\ new[j].script.default => rows[j].script.default
             /\ new[j].script.operation = rows[j].script.operation
             /\ new[j].script.manager = rows[j].script.manager
  <2>1. rows[j] # None /\ EditorRowish(j, rows[j])
    BY <1>2, <1>3 DEF Listing
  <2>2. rows[j].script \in Editing!Draft
    BY <2>1, RowIs
  <2>3. CASE row.script.default /\ Editing!SameScope(rows[j].script, row.script)
    <3> DEFINE t == [rows[j].script EXCEPT !.default = FALSE]
    <3>1. new[j] = [rows[j] EXCEPT !.script.default = FALSE]
      BY <1>2, <1>3, <2>1, <2>3
    <3>2. EditorRowish(j, new[j]) /\ new[j].script = t
      BY <3>1, <2>1, RowRemarked
    <3>3. t.default = FALSE /\ t.operation = rows[j].script.operation
            /\ t.manager = rows[j].script.manager
      BY <2>2, DefaultIs
    <3> HIDE DEF t
    <3> QED
      BY <2>1, <3>2, <3>3
  <2>4. CASE ~(row.script.default /\ Editing!SameScope(rows[j].script, row.script))
    <3>1. new[j] = rows[j]
      BY <1>2, <1>3, <2>1, <2>4
    <3> QED
      BY <2>1, <2>4, <3>1
  <2> QED
    BY <2>3, <2>4
<1>4. Listing(new)
  <2>1. ASSUME NEW j \in Editing!Ids, new[j] # None PROVE EditorRowish(j, new[j])
    BY <1>2, <1>3, <2>1
  <2> QED
    BY <1>1, <2>1 DEF Listing
<1>5. ASSUME EditorOneDefault(rows) PROVE EditorOneDefault(new)
  <2>1. SUFFICES ASSUME NEW j \in Editing!Ids, NEW k \in Editing!Ids, new[j] # None, new[k] # None,
                 j # k
                 PROVE  ~Editing!Clash(new[j].script, new[k].script)
    BY DEF EditorOneDefault
  <2>2. CASE j = i
    <3>1. new[j] = row /\ k # i
      BY <1>2, <2>1, <2>2
    <3>2. Editing!SameScope(new[k].script, row.script) /\ row.script.default
            => ~new[k].script.default
      BY <1>3, <2>1, <3>1
    <3> QED
      BY <3>1, <3>2 DEF Editing!Clash, Editing!SameScope
  <2>3. CASE k = i
    <3>1. new[k] = row /\ j # i
      BY <1>2, <2>1, <2>3
    <3>2. Editing!SameScope(new[j].script, row.script) /\ row.script.default
            => ~new[j].script.default
      BY <1>3, <2>1, <3>1
    <3> QED
      BY <3>1, <3>2 DEF Editing!Clash, Editing!SameScope
  <2>4. CASE j # i /\ k # i
    <3>1. /\ rows[j] # None /\ rows[k] # None
          /\ new[j].script.default => rows[j].script.default
          /\ new[k].script.default => rows[k].script.default
          /\ new[j].script.operation = rows[j].script.operation
          /\ new[j].script.manager = rows[j].script.manager
          /\ new[k].script.operation = rows[k].script.operation
          /\ new[k].script.manager = rows[k].script.manager
      BY <1>3, <2>1, <2>4
    <3>2. ~Editing!Clash(rows[j].script, rows[k].script)
      BY <1>5, <2>1, <3>1 DEF EditorOneDefault
    <3> QED
      BY <3>1, <3>2 DEF Editing!Clash, Editing!SameScope
  <2> QED
    BY <2>2, <2>3, <2>4
<1> QED
  BY <1>4, <1>5 DEF new

LEMMA StoredSame ==
  ASSUME NEW rows, Listing(rows), EditorOneDefault(rows), NEW i \in Editing!Ids, rows[i] # None
  PROVE  Editing!Stored(rows, i, rows[i]) = rows
<1>1. ASSUME NEW j \in Editing!Ids PROVE Editing!Stored(rows, i, rows[i])[j] = rows[j]
  <2>1. CASE j # i /\ rows[j] # None /\ rows[i].script.default
          /\ Editing!SameScope(rows[j].script, rows[i].script)
    <3>1. ~Editing!Clash(rows[j].script, rows[i].script)
      BY <2>1 DEF EditorOneDefault
    <3>2. EditorRowish(j, rows[j])
      BY <2>1 DEF Listing
    <3>3. rows[j].script \in Editing!Draft /\ rows[j] = [born |-> j, script |-> rows[j].script]
      BY <3>2, RowIs
    <3>4. rows[j].script.default = FALSE
      BY <3>1, <3>3, <2>1 DEF Editing!Clash, Editing!Draft
    <3>5. [rows[j].script EXCEPT !.default = FALSE] = rows[j].script
      BY <3>3, <3>4 DEF Editing!Draft
    <3>6. [rows[j] EXCEPT !.script.default = FALSE]
            = [born |-> j, script |-> [rows[j].script EXCEPT !.default = FALSE]]
      BY <3>2, RowRemarked
    <3>7. [rows[j] EXCEPT !.script.default = FALSE] = rows[j]
      BY <3>3, <3>5, <3>6
    <3> QED
      BY <3>7 DEF Editing!Stored
  <2>2. CASE ~(j # i /\ rows[j] # None /\ rows[i].script.default /\ Editing!SameScope(rows[j].script, rows[i].script))
    BY <2>2 DEF Editing!Stored
  <2> QED
    BY <2>1, <2>2
<1>2. DOMAIN rows = Editing!Ids /\ rows = [j \in Editing!Ids |-> rows[j]]
  BY DEF Listing
<1>3. Editing!Stored(rows, i, rows[i]) = [j \in Editing!Ids |-> Editing!Stored(rows, i, rows[i])[j]]
  BY DEF Editing!Stored
<1> DEFINE new == Editing!Stored(rows, i, rows[i])
<1>4. \A j \in Editing!Ids : new[j] = rows[j]
  BY <1>1
<1>5. new = [j \in Editing!Ids |-> new[j]]
  BY <1>3
<1> HIDE DEF new
<1>6. new = rows
  BY <1>2, <1>4, <1>5
<1> QED
  BY <1>6 DEF new

\* A toggle as the list shows it: the marks are switched and nothing else.
LEMMA StoredMarked ==
  ASSUME NEW rows, Listing(rows), NEW i \in Editing!Ids, rows[i] # None,
         NEW s, s \in Editing!Draft, rows[i].script = [s EXCEPT !.default = ~@],
         NEW row, row = [born |-> i, script |-> s]
  PROVE  Editing!Stored(rows, i, row) = Editing!Marked(rows, i)
<1> DEFINE new == Editing!Stored(rows, i, row)
           marked == Editing!Marked(rows, i)
<1>1. s.default \in BOOLEAN /\ rows[i].script.default = ~s.default
      /\ rows[i].script.operation = s.operation /\ rows[i].script.manager = s.manager
      /\ [rows[i].script EXCEPT !.default = s.default] = s
  BY DEF Editing!Draft
<1>2. row.script = s /\ row.born = i
  OBVIOUS
<1>3. ASSUME NEW j \in Editing!Ids PROVE new[j] = marked[j]
  <2>1. CASE rows[j] = None
    BY <2>1 DEF Editing!Stored, Editing!Marked
  <2>2. CASE j = i
    <3>1. EditorRowish(i, rows[i])
      BY DEF Listing
    <3>2. marked[j] = [rows[i] EXCEPT !.script.default = ~@]
      BY <2>2 DEF Editing!Marked
    <3>a. PICK old : old = rows[i]
      OBVIOUS
    <3>b. PICK q : q = [old EXCEPT !.script.default = ~@]
      OBVIOUS
    <3>c. q = [born |-> i, script |-> s]
      <4> DEFINE t == old.script
      <4>1. old = [born |-> i, script |-> t] /\ t = [s EXCEPT !.default = ~@] /\ t \in Editing!Draft
        BY <3>1, <3>a, RowIs
      <4> HIDE DEF t
      <4>2. q = [born |-> i, script |-> [t EXCEPT !.default = ~@]]
        BY <4>1, <3>b
      <4>3. [t EXCEPT !.default = ~@] = s
        <5>1. CASE s.default = TRUE
          <6>1. t = [s EXCEPT !.default = FALSE]
            BY <4>1, <5>1
          <6>2. [t EXCEPT !.default = ~@] = [s EXCEPT !.default = TRUE]
            BY <6>1 DEF Editing!Draft
          <6> QED
            BY <5>1, <6>2 DEF Editing!Draft
        <5>2. CASE s.default = FALSE
          <6>1. t = [s EXCEPT !.default = TRUE]
            BY <4>1, <5>2
          <6>2. [t EXCEPT !.default = ~@] = [s EXCEPT !.default = FALSE]
            BY <6>1 DEF Editing!Draft
          <6> QED
            BY <5>2, <6>2 DEF Editing!Draft
        <5> QED
          BY <5>1, <5>2, DraftIs
      <4> QED
        BY <4>2, <4>3
    <3>3. marked[j] = [born |-> i, script |-> s]
      BY <3>2, <3>a, <3>b, <3>c
    <3>4. new[j] = row
      BY <2>2 DEF Editing!Stored
    <3> QED
      BY <3>3, <3>4
  <2>3. CASE j # i /\ rows[j] # None
    <3>1. EditorRowish(j, rows[j])
      BY <2>3 DEF Listing
    <3>2. rows[j] = [born |-> j, script |-> rows[j].script] /\ rows[j].script \in Editing!Draft
      BY <3>1, RowIs
    <3>3. rows[j].script.default \in BOOLEAN
      BY <3>2, DraftIs
    <3>4. Editing!SameScope(rows[j].script, row.script) <=> Editing!SameScope(rows[j].script,
                                                                              rows[i].script)
      BY <1>1, <1>2 DEF Editing!SameScope
    <3> DEFINE old == rows[j].script.default
               same == Editing!SameScope(rows[j].script, rows[i].script)
    <3>5. marked[j] = [rows[j] EXCEPT !.script.default = old /\ (rows[i].script.default \/ ~same)]
      <4>1. marked[j] = [rows[j] EXCEPT !.script.default =
                           @ /\ (rows[i].script.default \/ ~Editing!SameScope(rows[j].script,
                                                                              rows[i].script))]
        BY <2>3 DEF Editing!Marked
      <4> QED
        BY <4>1, <3>2
    <3>6. CASE s.default /\ same
      <4>1. new[j] = [rows[j] EXCEPT !.script.default = FALSE]
        BY <1>2, <2>3, <3>4, <3>6 DEF Editing!Stored
      <4>2. (old /\ (rows[i].script.default \/ ~same)) = FALSE
        BY <1>1, <3>3, <3>6
      <4> QED
        BY <4>1, <4>2, <3>5
    <3>7. CASE ~(s.default /\ same)
      <4>1. new[j] = rows[j]
        BY <1>2, <2>3, <3>4, <3>7 DEF Editing!Stored
      <4>2. (old /\ (rows[i].script.default \/ ~same)) = old
        BY <1>1, <3>3, <3>7
      <4>3. [rows[j].script EXCEPT !.default = old] = rows[j].script
        BY <3>2 DEF Editing!Draft
      <4>4. [rows[j] EXCEPT !.script.default = old] = [born |-> j,
                                                       script |-> [rows[j].script EXCEPT !.default = old]]
        BY <3>1, <3>3, RowRemarked
      <4> QED
        BY <4>1, <4>2, <4>3, <4>4, <3>2, <3>5
    <3> QED
      BY <3>6, <3>7
  <2> QED
    BY <2>1, <2>2, <2>3
<1>4. new = [j \in Editing!Ids |-> new[j]] /\ marked = [j \in Editing!Ids |-> marked[j]]
  BY DEF Editing!Stored, Editing!Marked
<1> HIDE DEF new, marked
<1>5. new = marked
  BY <1>3, <1>4
<1> QED
  BY <1>5 DEF new, marked

\* What a press leaves of the session.
LEMMA Pressing ==
  ASSUME EditorShape, NEW n, Editing!Press(n)
  PROVE  /\ session' \in [scripts : {session'.scripts}, kinds : {session'.kinds},
                          edits : {session'.edits},
                          events : {session'.events}]
         /\ session'.scripts = session.scripts
<1>1. session \in [scripts : {session.scripts}, kinds : {session.kinds}, edits : {session.edits},
                   events : {session.events}]
  BY DEF EditorShape
<1> QED
  BY <1>1 DEF Editing!Press

LEMMA EditorIs ==
  ASSUME NEW e, Editorish(e)
  PROVE  /\ e.script \in Editing!Draft /\ e.untouched \in BOOLEAN
         /\ (e.id # None => e.id \in Editing!Ids /\ e.source = e.id)
            /\ (e.neat # None => e.neat.command \in Editing!Command)
BY DEF Editorish

\* The steps that only touch the editor, and leave it marked as touched.
LEMMA EditorChanged ==
  ASSUME EditorInv, UNCHANGED <<server, data, asked, copying, dialog, told, hit>>,
         editor' # None => Editorish(editor'), ~LooksOnly(editor'),
         UNCHANGED session \/ Editing!Press(1)
  PROVE  EditorInv'
<1>1. /\ session' \in [scripts : {session'.scripts}, kinds : {session'.kinds},
                       edits : {session'.edits},
                       events : {session'.events}]
      /\ session'.scripts = session.scripts
  <2>1. EditorShape
    BY DEF EditorInv
  <2>2. CASE Editing!Press(1)
    BY <2>1, <2>2, Pressing
  <2>3. CASE UNCHANGED session
    BY <2>1, <2>3 DEF EditorShape
  <2> QED
    BY <2>2, <2>3
<1>2. EditorShape'
  BY <1>1 DEF EditorInv, EditorShape, Listing, EditorOneDefault
<1> QED
  BY <1>2 DEF EditorInv, LooksOnly, Kept, Editing!NothingElseChanges, Editing!MeetsTheListed

LEMMA OpeningIs ==
  ASSUME EditorInv, NEW i, i = None \/ (i \in Editing!Ids /\ data[i] # None), NEW s,
         s \in Editing!Draft,
         NEW e, e = Editing!Opening(i, s)
  PROVE  /\ Editorish(e) /\ e.id = i /\ e.script = s /\ (e.untouched <=> Editing!Current)
<1>1. e = [id |-> i, script |-> s, neat |-> None, untouched |-> Editing!Current,
           source |-> IF i = None THEN None ELSE data[i].born]
  BY DEF Editing!Opening
<1>2. PICK b \in BOOLEAN : b = Editing!Current /\ (b <=> Editing!Current)
  <2>1. Editing!Current \in BOOLEAN
    BY DEF Editing!Current
  <2> QED
    BY <2>1
<1>3. e = [id |-> i, script |-> s, neat |-> None, untouched |-> b,
           source |-> IF i = None THEN None ELSE data[i].born]
  BY <1>1, <1>2
<1>4. i # None => data[i].born = i
  BY RowIs DEF EditorInv, EditorShape, Listing
<1> QED
  BY <1>2, <1>3, <1>4 DEF Editorish

LEMMA Changing ==
  ASSUME EditorInv, editor # None, NEW kind, NEW s, s \in Editing!Draft, Editing!Change(kind, s)
  PROVE  EditorInv'
<1>1. /\ editor' = [editor EXCEPT !.script = s, !.untouched = FALSE] /\ Editing!Press(1)
      /\ UNCHANGED <<server, data, asked, copying, dialog, told, hit>>
  BY DEF Editing!Change
<1>2. Editorish(editor)
  BY DEF EditorInv, EditorShape
<1>3. Editorish(editor') /\ ~editor'.untouched
  <2>1. PICK b \in BOOLEAN : b = FALSE
    OBVIOUS
  <2>2. editor' = [editor EXCEPT !.script = s, !.untouched = b]
    BY <1>1, <2>1
  <2> QED
    BY <1>2, <2>1, <2>2 DEF Editorish
<1> QED
  BY <1>1, <1>3, EditorChanged DEF LooksOnly

LEMMA OperationsAre ==
  /\ DOMAIN Editing!Operations = {"package_manager", "system"}
  /\ Editing!Operations["package_manager"] = {"detect", "check_updates"}
     /\ Editing!Operations["system"] = {"system_info"}
BY DEF Editing!Operations

LEMMA RestepIs ==
  ASSUME NEW s, s \in Editing!Draft, NEW q, q \in Seq(Editing!Step), NEW t,
         t = [s EXCEPT !.steps = q]
  PROVE  t \in Editing!Draft
BY DEF Editing!Draft

LEMMA ChooseTypeKeeps ==
  ASSUME EditorInv, editor # None, NEW t, Editing!ChooseType(t) PROVE EditorInv'
<1>1. editor.script \in Editing!Draft
  BY EditorIs DEF EditorInv, EditorShape
<1> DEFINE s == [editor.script EXCEPT !.operation = IF t = "system" THEN "system_info" ELSE "detect",
                                      !.manager = IF t = "system" THEN None ELSE @]
<1>2. Editing!Change("scope", s)
  BY DEF Editing!ChooseType
<1>3. s \in Editing!Draft
  BY <1>1 DEF Editing!Draft
<1> HIDE DEF s
<1> QED
  BY <1>2, <1>3, Changing

LEMMA ChooseOperationKeeps ==
  ASSUME EditorInv, editor # None, NEW operation, Editing!ChooseOperation(operation)
         PROVE EditorInv'
<1>1. editor.script \in Editing!Draft
  BY EditorIs DEF EditorInv, EditorShape
<1> DEFINE s == [editor.script EXCEPT !.operation = operation]
<1>2. Editing!Change("scope", s)
        /\ operation \in Editing!Operations[Editing!TypeOf(editor.script.operation)]
  BY DEF Editing!ChooseOperation
<1>3. operation \in {"detect", "check_updates", "system_info"}
  BY <1>2, OperationsAre DEF Editing!TypeOf
<1>4. s \in Editing!Draft
  BY <1>1, <1>3 DEF Editing!Draft
<1> HIDE DEF s
<1> QED
  BY <1>2, <1>4, Changing

LEMMA ChooseManagerKeeps ==
  ASSUME EditorInv, editor # None, NEW m \in Builtin \cup Custom, Editing!ChooseManager(m)
         PROVE EditorInv'
<1>1. editor.script \in Editing!Draft
  BY EditorIs DEF EditorInv, EditorShape
<1> DEFINE s == [editor.script EXCEPT !.manager = m]
<1>2. Editing!Change("scope", s)
  BY DEF Editing!ChooseManager
<1>3. s \in Editing!Draft
  BY <1>1 DEF Editing!Draft
<1> HIDE DEF s
<1> QED
  BY <1>2, <1>3, Changing

LEMMA ChooseParsedKeeps ==
  ASSUME EditorInv, editor # None, NEW k \in Nat \cup {None}, Editing!ChooseParsed(k)
         PROVE EditorInv'
<1>1. editor.script \in Editing!Draft
  BY EditorIs DEF EditorInv, EditorShape
<1> DEFINE s == [editor.script EXCEPT !.parse = k]
<1>2. Editing!Change("parse", s)
  BY DEF Editing!ChooseParsed
<1>3. s \in Editing!Draft
  BY <1>1 DEF Editing!Draft
<1> HIDE DEF s
<1> QED
  BY <1>2, <1>3, Changing

LEMMA AddStepKeeps == ASSUME EditorInv, editor # None, Editing!AddStep PROVE EditorInv'
<1> DEFINE old == editor.script.steps
           q == Append(old, [label |-> Len(old) + 1, command |-> None])
           s == [editor.script EXCEPT !.steps = q]
<1>1. editor.script \in Editing!Draft /\ old \in Seq(Editing!Step)
  BY EditorIs, DraftIs DEF EditorInv, EditorShape
<1>2. Len(old) < Editing!MaxSteps /\ Editing!Change("steps", s)
  <2>1. /\ Len(old) < Editing!MaxSteps
        /\ Editing!Change("steps",
                          [editor.script EXCEPT !.steps = Append(@,
                                                                 [label |-> Len(@) + 1,
                                                                  command |-> None])])
    BY DEF Editing!AddStep
  <2>2. [editor.script EXCEPT !.steps = Append(@, [label |-> Len(@) + 1, command |-> None])] = s
    BY <1>1 DEF Editing!Draft
  <2> QED
    BY <2>1, <2>2
<1>3. q \in Seq(Editing!Step)
  <2>1. Len(old) \in Nat /\ Len(old) + 1 \in 1 .. Editing!MaxSteps
    BY <1>1, <1>2, LenProperties DEF Editing!MaxSteps
  <2>2. [label |-> Len(old) + 1, command |-> None] \in Editing!Step
    BY <2>1 DEF Editing!Step, Editing!Command
  <2> HIDE DEF old
  <2> QED
    BY <1>1, <2>2, AppendProperties
<1> HIDE DEF q
<1>4. s \in Editing!Draft
  BY <1>1, <1>3, RestepIs
<1> HIDE DEF s
<1> QED
  BY <1>2, <1>4, Changing

LEMMA RemoveStepKeeps ==
  ASSUME EditorInv, editor # None, NEW k \in DOMAIN editor.script.steps, Editing!RemoveStep(k)
         PROVE EditorInv'
<1> DEFINE old == editor.script.steps
           q == Editing!RemoveAt(old, k)
           s == [editor.script EXCEPT !.steps = q]
<1>1. editor.script \in Editing!Draft /\ old \in Seq(Editing!Step)
  BY EditorIs, DraftIs DEF EditorInv, EditorShape
<1>2. Editing!Change("steps", s)
  <2>1. Editing!Change("steps", [editor.script EXCEPT !.steps = Editing!RemoveAt(@, k)])
    BY DEF Editing!RemoveStep
  <2>2. [editor.script EXCEPT !.steps = Editing!RemoveAt(@, k)] = s
    BY <1>1 DEF Editing!Draft
  <2> QED
    BY <2>1, <2>2
<1>3. q \in Seq(Editing!Step)
  <2>1. k \in 1 .. Len(old)
    BY <1>1, LenProperties
  <2> HIDE DEF old
  <2> QED
    BY <1>1, <2>1, LeavingOut DEF Editing!RemoveAt
<1> HIDE DEF q
<1>4. s \in Editing!Draft
  BY <1>1, <1>3, RestepIs
<1> HIDE DEF s
<1> QED
  BY <1>2, <1>4, Changing

LEMMA MoveStepKeeps ==
  ASSUME EditorInv, editor # None, NEW j \in DOMAIN editor.script.steps,
         NEW k \in DOMAIN editor.script.steps,
         Editing!MoveStep(j, k)
  PROVE  EditorInv'
<1> DEFINE old == editor.script.steps
           rest == Editing!RemoveAt(old, j)
           q == Editing!InsertAt(rest, k, old[j])
           s == [editor.script EXCEPT !.steps = q]
<1>1. editor.script \in Editing!Draft /\ old \in Seq(Editing!Step)
  BY EditorIs, DraftIs DEF EditorInv, EditorShape
<1>2. Editing!Change("steps", s)
  <2>1. Editing!Change("steps",
                       [editor.script EXCEPT !.steps = Editing!InsertAt(Editing!RemoveAt(@, j), k,
                                                                        @[j])])
    BY DEF Editing!MoveStep
  <2>2. [editor.script EXCEPT !.steps = Editing!InsertAt(Editing!RemoveAt(@, j), k, @[j])] = s
    BY <1>1 DEF Editing!Draft
  <2> QED
    BY <2>1, <2>2
<1>3. q \in Seq(Editing!Step)
  <2>1. k \in 1 .. Len(old) /\ j \in 1 .. Len(old) /\ Len(old) \in Nat
    BY <1>1, LenProperties
  <2>2. old[j] \in Editing!Step
    BY <1>1, <2>1, ElementOfSeq
  <2> HIDE DEF old
  <2>3. rest \in Seq(Editing!Step) /\ Len(rest) = Len(old) - 1
    BY <1>1, <2>1, LeavingOut DEF Editing!RemoveAt
  <2> HIDE DEF rest
  <2>4. k \in 1 .. Len(rest) + 1
    BY <2>1, <2>3
  <2> QED
    BY <2>2, <2>3, <2>4, PuttingIn DEF Editing!InsertAt
<1> HIDE DEF q
<1>4. s \in Editing!Draft
  BY <1>1, <1>3, RestepIs
<1> HIDE DEF s
<1> QED
  BY <1>2, <1>4, Changing

\* Another command in a step.
LEMMA RecommandIs ==
  ASSUME NEW q, q \in Seq(Editing!Step), NEW k \in DOMAIN q, NEW c, c \in Editing!Command
  PROVE  [q EXCEPT ![k].command = c] \in Seq(Editing!Step)
<1>1. Len(q) \in Nat /\ DOMAIN q = 1 .. Len(q)
  BY LenProperties
<1>2. q[k] \in Editing!Step
  BY <1>1, ElementOfSeq
<1> DEFINE it == [q[k] EXCEPT !.command = c]
<1>3. it \in Editing!Step
  BY <1>2 DEF Editing!Step
<1>4. [q EXCEPT ![k].command = c] = [q EXCEPT ![k] = it]
  OBVIOUS
<1> HIDE DEF it
<1>5. [q EXCEPT ![k] = it] \in Seq(Editing!Step)
  BY <1>1, <1>3, ExceptSeq
<1> QED
  BY <1>4, <1>5

LEMMA TypeCommandKeeps ==
  ASSUME EditorInv, editor # None, NEW k \in DOMAIN editor.script.steps, Editing!TypeCommand(k)
         PROVE EditorInv'
<1> DEFINE old == editor.script.steps
           c == [of |-> old[k].label, form |-> "typed"]
           q == [old EXCEPT ![k].command = c]
           s == [editor.script EXCEPT !.steps = q]
<1>1. editor.script \in Editing!Draft /\ old \in Seq(Editing!Step)
  BY EditorIs, DraftIs DEF EditorInv, EditorShape
<1>2. Editing!Change("type", s)
  <2>1. Editing!Change("type", [editor.script EXCEPT !.steps[k].command = c])
    BY DEF Editing!TypeCommand
  <2>2. [editor.script EXCEPT !.steps[k].command = c] = s
    OBVIOUS
  <2> QED
    BY <2>1, <2>2
<1>3. c \in Editing!Command
  <2>1. k \in 1 .. Len(old)
    BY <1>1, LenProperties
  <2>2. old[k] \in Editing!Step
    BY <1>1, <2>1, ElementOfSeq
  <2> HIDE DEF old
  <2> QED
    BY <2>2 DEF Editing!Step, Editing!Command
<1> HIDE DEF c
<1>4. q \in Seq(Editing!Step)
  BY <1>1, <1>3, RecommandIs
<1> HIDE DEF q
<1>5. s \in Editing!Draft
  BY <1>1, <1>4, RestepIs
<1> HIDE DEF s
<1> QED
  BY <1>2, <1>5, Changing

LEMMA NeatIs == ASSUME NEW c \in Editing!Command PROVE Editing!Neat(c) \in Editing!Command
<1>1. CASE c = None
  BY <1>1 DEF Editing!Neat, Editing!Command
<1>2. CASE c # None
  <2>1. c \in [of : 1 .. Editing!MaxSteps, form : {"raw", "typed", "neat"}]
    BY <1>2 DEF Editing!Command
  <2>2. [c EXCEPT !.form = "neat"] \in [of : 1 .. Editing!MaxSteps, form : {"raw", "typed", "neat"}]
    BY <2>1
  <2> QED
    BY <1>2, <2>2 DEF Editing!Neat, Editing!Command
<1> QED
  BY <1>1, <1>2

LEMMA BeautifyKeeps ==
  ASSUME EditorInv, editor # None, NEW k \in DOMAIN editor.script.steps, Editing!Beautify(k)
         PROVE EditorInv'
<1> DEFINE old == editor.script.steps
           n == [at |-> k, command |-> Editing!Neat(old[k].command)]
<1>1. editor.script \in Editing!Draft /\ old \in Seq(Editing!Step) /\ Editorish(editor)
  BY EditorIs, DraftIs DEF EditorInv, EditorShape
<1>2. Editing!Press(1) /\ editor' = [editor EXCEPT !.neat = n]
        /\ UNCHANGED <<server, data, asked, copying, dialog, told, hit>>
  BY DEF Editing!Beautify
<1>3. n.command \in Editing!Command
  <2>1. k \in 1 .. Len(old)
    BY <1>1, LenProperties
  <2>2. old[k] \in Editing!Step
    BY <1>1, <2>1, ElementOfSeq
  <2> HIDE DEF old
  <2>3. old[k].command \in Editing!Command
    BY <2>2 DEF Editing!Step
  <2> QED
    BY <2>3, NeatIs
<1> HIDE DEF n
<1>4. /\ Editorish(editor') /\ editor'.id = editor.id /\ editor'.script = editor.script
      /\ editor'.untouched = editor.untouched
  BY <1>1, <1>2, <1>3 DEF Editorish
<1>5. EditorShape'
  <2>1. EditorShape
    BY DEF EditorInv
  <2>2. /\ session' \in [scripts : {session'.scripts}, kinds : {session'.kinds},
                         edits : {session'.edits},
                         events : {session'.events}]
        /\ session'.scripts = session.scripts
    BY <1>2, <2>1, Pressing
  <2> QED
    BY <1>2, <1>4, <2>1, <2>2 DEF EditorShape
<1> QED
  BY <1>2, <1>4, <1>5 DEF EditorInv, LooksOnly, Kept, Editing!NothingElseChanges,
     Editing!MeetsTheListed

LEMMA BeautifiedKeeps == ASSUME EditorInv, editor # None, Editing!Beautified PROVE EditorInv'
<1> DEFINE old == editor.script.steps
           q == Editing!PutInto(old, editor.neat.at, editor.neat.command)
           s == [editor.script EXCEPT !.steps = q]
<1>1. editor.script \in Editing!Draft /\ old \in Seq(Editing!Step) /\ Editorish(editor)
  BY EditorIs, DraftIs DEF EditorInv, EditorShape
<1>2. /\ editor.neat # None
          /\ UNCHANGED <<server, data, asked, copying, dialog, told, hit, session>>
      /\ editor' = [editor EXCEPT !.neat = None, !.untouched = FALSE, !.script = s]
  BY <1>1 DEF Editing!Beautified, Editorish
<1>3. q \in Seq(Editing!Step)
  <2>1. editor.neat.command \in Editing!Command
    BY <1>1, <1>2, EditorIs
  <2> DEFINE at == editor.neat.at
             c == editor.neat.command
  <2>2. at \in DOMAIN old => [old EXCEPT ![at].command = c] \in Seq(Editing!Step)
    <3>1. c \in Editing!Command
      BY <2>1
    <3> HIDE DEF at, c, old
    <3> QED
      BY <1>1, <3>1, RecommandIs
  <2> QED
    BY <1>1, <2>2 DEF Editing!PutInto
<1> HIDE DEF q
<1>4. s \in Editing!Draft
  BY <1>1, <1>3, RestepIs
<1> HIDE DEF s
<1>5. Editorish(editor') /\ ~editor'.untouched
  <2>1. PICK b \in BOOLEAN : b = FALSE
    OBVIOUS
  <2>2. editor' = [editor EXCEPT !.neat = None, !.untouched = b, !.script = s]
    BY <1>2, <2>1
  <2> QED
    BY <1>1, <1>4, <2>1, <2>2 DEF Editorish
<1> QED
  BY <1>2, <1>5, EditorChanged DEF LooksOnly

LEMMA EditorBuiltIs ==
  ASSUME NEW s, s \in Editing!Draft
  PROVE  Editing!Built(s) \in Editing!Draft /\ Editing!Tidy(Editing!Built(s))
         /\ (Editing!Tidy(s) => Editing!Built(s) = s)
<1>1. CASE Editing!ShowsParser(s)
  <2>1. Editing!Built(s) = s
    BY <1>1 DEF Editing!Built, Editing!Draft
  <2> QED
    BY <1>1, <2>1 DEF Editing!Tidy
<1>2. CASE ~Editing!ShowsParser(s)
  <2> DEFINE t == [s EXCEPT !.parse = None]
  <2>1. Editing!Built(s) = t
    BY <1>2 DEF Editing!Built
  <2>2. t \in Editing!Draft /\ t.parse = None
    BY DEF Editing!Draft
  <2>3. Editing!Tidy(s) => t = s
    BY <1>2 DEF Editing!Tidy, Editing!Draft
  <2> HIDE DEF t
  <2> QED
    BY <2>1, <2>2, <2>3 DEF Editing!Tidy
<1> QED
  BY <1>1, <1>2

\* What is stored is kept by what is sent unchanged.
LEMMA KeptFine ==
  ASSUME EditorShape, NEW i \in Editing!Ids, NEW s, Kept(i, s), server.rows[i] # None
  PROVE  server.rows[i] = [born |-> i, script |-> s] /\ Editing!Fine(s) /\ s \in Editing!Draft
BY RowIs DEF EditorShape, Listing, Kept

LEMMA EditorSaveKeeps == ASSUME EditorInv, editor # None, Editing!Save PROVE EditorInv'
<1> DEFINE s == Editing!Built(editor.script)
           r == [id |-> editor.id, script |-> s, heard |-> TRUE,
                 meant |-> editor.source, untouched |-> editor.untouched]
<1>1. /\ asked.save = None /\ asked.toggle = None /\ asked' = [asked EXCEPT !.save = r]
      /\ UNCHANGED <<server, data, editor, title, copying, dialog, told, hit, session>>
  BY DEF Editing!Save, Editing!Busy
<1>2. EditorShape /\ Editorish(editor) /\ editor.script \in Editing!Draft
        /\ editor.untouched \in BOOLEAN
  BY EditorIs DEF EditorInv, EditorShape
<1>3. s \in Editing!Draft /\ Editing!Tidy(s) /\ (Editing!Tidy(editor.script) => s = editor.script)
  BY <1>2, EditorBuiltIs
<1>4. /\ r.id = editor.id /\ r.script = s /\ r.untouched = editor.untouched /\ r.heard
      /\ EditorSaveish(r)
  <2>1. PICK b \in BOOLEAN : b = TRUE
    OBVIOUS
  <2>2. r = [id |-> editor.id, script |-> s, heard |-> b, meant |-> editor.source,
             untouched |-> editor.untouched]
    BY <2>1
  <2>3. editor.id # None => editor.id \in Editing!Ids /\ editor.source = editor.id
    BY <1>2, EditorIs
  <2> HIDE DEF s, r
  <2> QED
    BY <1>2, <1>3, <2>1, <2>2, <2>3 DEF EditorSaveish
<1>5. editor.untouched /\ editor.id # None => Kept(editor.id, s)
  <2> SUFFICES ASSUME editor.untouched, editor.id # None, server.rows[editor.id] # None
               PROVE  server.rows[editor.id].script = s
    BY DEF Kept
  <2>1. Kept(editor.id, editor.script)
    BY DEF EditorInv, LooksOnly
  <2>2. editor.id \in Editing!Ids
    BY <1>2, EditorIs
  <2>3. Editing!Fine(editor.script)
    BY <1>2, <2>1, <2>2, KeptFine
  <2> QED
    BY <1>3, <2>1, <2>3 DEF Kept, Editing!Fine
<1> HIDE DEF s, r
<1>6. /\ asked' \in [save : {asked'.save}, toggle : {asked'.toggle}] /\ asked'.save = r
         /\ asked'.toggle = None
  <2>1. asked \in [save : {asked.save}, toggle : {asked.toggle}]
    BY <1>2 DEF EditorShape
  <2> QED
    BY <1>1, <2>1
<1>7. EditorShape'
  BY <1>1, <1>2, <1>4, <1>6 DEF EditorShape
<1> QED
  BY <1>1, <1>4, <1>5, <1>6, <1>7 DEF EditorInv, LooksOnly, Kept, Editing!NothingElseChanges,
     Editing!MeetsTheListed

LEMMA OpenEditorKeeps == ASSUME EditorInv, NEW i \in Editing!Ids, Editing!OpenEditor(i)
      PROVE EditorInv'
<1> DEFINE e == Editing!Opening(i, data[i].script)
<1>1. /\ data[i] # None /\ Editing!Press(1) /\ editor' = e
      /\ UNCHANGED <<server, data, asked, copying, dialog, told, hit>>
  BY DEF Editing!OpenEditor, Editing!IsListed
<1>2. EditorShape /\ data[i].script \in Editing!Draft
  BY <1>1, RowIs DEF EditorInv, EditorShape, Listing
<1>3. Editorish(e) /\ e.id = i /\ e.script = data[i].script /\ (e.untouched <=> Editing!Current)
  BY <1>1, <1>2, OpeningIs
<1> HIDE DEF e
<1>4. /\ session' \in [scripts : {session'.scripts}, kinds : {session'.kinds},
                       edits : {session'.edits},
                       events : {session'.events}]
      /\ session'.scripts = session.scripts
  BY <1>1, <1>2, Pressing
<1>5. EditorShape'
  BY <1>1, <1>2, <1>3, <1>4 DEF EditorShape
<1>6. e.untouched => asked.toggle = None /\ asked.save = None /\ Kept(i, e.script)
  BY <1>3 DEF Editing!Current, Kept
<1> QED
  BY <1>1, <1>3, <1>5, <1>6 DEF EditorInv, LooksOnly, Kept, Editing!NothingElseChanges,
     Editing!MeetsTheListed

LEMMA OpenNewKeeps == ASSUME EditorInv, Editing!OpenNew PROVE EditorInv'
<1>1. PICK m \in Builtin \cup Custom :
        editor' = Editing!Opening(None, [operation |-> "detect", manager |-> m, default |-> FALSE,
                                         steps |-> <<[label |-> 1, command |-> None]>>,
                                             parse |-> None])
  BY DEF Editing!OpenNew
<1>2. Editing!Press(1) /\ UNCHANGED <<server, data, asked, copying, dialog, told, hit>>
  BY DEF Editing!OpenNew
<1> DEFINE q == <<[label |-> 1, command |-> None]>>
           s == [operation |-> "detect", manager |-> m, default |-> FALSE, steps |-> q,
                 parse |-> None]
<1>3. q \in Seq(Editing!Step)
  <2>1. [label |-> 1, command |-> None] \in Editing!Step
    BY DEF Editing!Step, Editing!Command, Editing!MaxSteps
  <2> QED
    BY <2>1
<1>4. editor' = Editing!Opening(None, s)
  BY <1>1
<1> HIDE DEF q
<1>5. s \in Editing!Draft
  <2>1. PICK b \in BOOLEAN : b = FALSE
    OBVIOUS
  <2>2. s = [operation |-> "detect", manager |-> m, default |-> b, steps |-> q, parse |-> None]
    BY <2>1
  <2> QED
    BY <1>3, <2>2 DEF Editing!Draft
<1> HIDE DEF s
<1>6. Editorish(editor') /\ editor'.id = None
  BY <1>4, <1>5, OpeningIs
<1> QED
  BY <1>2, <1>6, EditorChanged DEF LooksOnly

LEMMA StartCopyKeeps == ASSUME EditorInv, NEW i \in Editing!Ids, Editing!StartCopy(i)
      PROVE EditorInv'
<1>1. /\ data[i] # None /\ Editing!Press(1) /\ copying' = Editing!Copy(data[i].script)
      /\ UNCHANGED <<server, data, editor, title, asked, dialog, told, hit>>
  BY DEF Editing!StartCopy, Editing!IsListed
<1>2. EditorShape /\ Editing!Fine(data[i].script)
  BY <1>1, RowIs DEF EditorInv, EditorShape, Listing
<1>3. copying' \in Editing!Draft
  <2> DEFINE t == [data[i].script EXCEPT !.default = FALSE]
  <2>1. copying' = t
    BY <1>1 DEF Editing!Copy
  <2>2. t \in Editing!Draft
    BY <1>2, Remarked DEF Editing!Fine
  <2> QED
    BY <2>1, <2>2
<1>4. /\ session' \in [scripts : {session'.scripts}, kinds : {session'.kinds},
                       edits : {session'.edits},
                       events : {session'.events}]
      /\ session'.scripts = session.scripts
  BY <1>1, <1>2, Pressing
<1>5. EditorShape'
  BY <1>1, <1>2, <1>3, <1>4 DEF EditorShape
<1> QED
  BY <1>1, <1>5 DEF EditorInv, LooksOnly, Kept, Editing!NothingElseChanges, Editing!MeetsTheListed

LEMMA AllNeatIs == ASSUME NEW q \in Seq(Editing!Step) PROVE Editing!AllNeat(q) \in Seq(Editing!Step)
<1>1. Len(q) \in Nat /\ DOMAIN q = 1 .. Len(q) /\ \A k \in 1 .. Len(q) : q[k] \in Editing!Step
  BY LenProperties, ElementOfSeq
<1>2. ASSUME NEW k \in 1 .. Len(q) PROVE [q[k] EXCEPT !.command = Editing!Neat(@)] \in Editing!Step
  <2>1. q[k] \in Editing!Step /\ Editing!Neat(q[k].command) \in Editing!Command
    BY <1>1, NeatIs DEF Editing!Step
  <2> DEFINE c == Editing!Neat(q[k].command)
  <2>2. [q[k] EXCEPT !.command = Editing!Neat(@)] = [q[k] EXCEPT !.command = c]
    OBVIOUS
  <2> HIDE DEF c
  <2>3. c \in Editing!Command
    BY <2>1 DEF c
  <2> QED
    BY <2>1, <2>2, <2>3 DEF Editing!Step
<1> DEFINE f == Editing!AllNeat(q)
<1>3. f \in [1 .. Len(q) -> Editing!Step]
  BY <1>1, <1>2 DEF Editing!AllNeat
<1> HIDE DEF f
<1>4. f \in Seq(Editing!Step)
  BY <1>1, <1>3, IsASeq
<1> QED
  BY <1>4 DEF f

LEMMA CopyReadyKeeps == ASSUME EditorInv, Editing!CopyReady PROVE EditorInv'
<1>1. /\ copying # None /\ copying' = None /\ title' = None
      /\ UNCHANGED <<server, data, asked, dialog, told, hit, session>>
  BY DEF Editing!CopyReady
<1>2. EditorShape /\ copying \in Editing!Draft
  BY <1>1 DEF EditorInv, EditorShape
<1> DEFINE neat == [copying EXCEPT !.steps = Editing!AllNeat(copying.steps)]
<1>3. neat \in Editing!Draft
  <2>1. Editing!AllNeat(copying.steps) \in Seq(Editing!Step)
    BY <1>2, DraftIs, AllNeatIs
  <2> QED
    BY <1>2, <2>1, RestepIs
<1>4. \/ editor # None /\ UNCHANGED editor
      \/ editor = None /\ \E s \in {copying, neat} : editor' = Editing!Opening(None, s)
  BY DEF Editing!CopyReady
<1> HIDE DEF neat
<1>5. CASE editor # None /\ UNCHANGED editor
  <2>1. EditorShape'
    BY <1>1, <1>2, <1>5 DEF EditorShape
  <2> QED
    BY <1>1, <1>5, <2>1 DEF EditorInv, LooksOnly, Kept, Editing!NothingElseChanges,
       Editing!MeetsTheListed
<1>6. ASSUME NEW s \in {copying, neat}, editor' = Editing!Opening(None, s) PROVE EditorInv'
  <2>1. s \in Editing!Draft
    BY <1>2, <1>3, <1>6
  <2>2. Editorish(editor') /\ editor'.id = None
    BY <1>6, <2>1, OpeningIs
  <2>3. EditorShape'
    BY <1>1, <1>2, <2>2 DEF EditorShape
  <2> QED
    BY <1>1, <2>2, <2>3 DEF EditorInv, LooksOnly, Kept, Editing!NothingElseChanges,
       Editing!MeetsTheListed
<1> QED
  BY <1>4, <1>5, <1>6

LEMMA EditorCloseKeeps == ASSUME EditorInv, Editing!Close PROVE EditorInv'
BY EditorChanged DEF Editing!Close, LooksOnly

LEMMA EditorReadKeeps == ASSUME EditorInv, Editing!Read PROVE EditorInv'
<1>1. /\ data' = server.rows
         /\ UNCHANGED <<server, editor, title, asked, copying, dialog, told, hit, session>>
  BY DEF Editing!Read
<1>2. EditorShape'
  BY <1>1 DEF EditorInv, EditorShape, Listing, EditorOneDefault
<1> QED
  BY <1>1, <1>2 DEF EditorInv, LooksOnly, Kept, Editing!NothingElseChanges, Editing!MeetsTheListed

LEMMA AskDeleteKeeps == ASSUME EditorInv, NEW i \in Editing!Ids, Editing!AskDelete(i)
      PROVE EditorInv'
<1>1. /\ data[i] # None /\ Editing!Press(1) /\ dialog' = [id |-> i, meant |-> data[i].born]
      /\ UNCHANGED <<server, data, editor, title, asked, copying, told, hit>>
  BY DEF Editing!AskDelete, Editing!IsListed
<1>2. EditorShape /\ data[i].born = i
  BY <1>1, RowIs DEF EditorInv, EditorShape, Listing
<1>3. dialog' \in [id : Editing!Ids, meant : {dialog'.id}]
  BY <1>1, <1>2
<1>4. /\ session' \in [scripts : {session'.scripts}, kinds : {session'.kinds},
                       edits : {session'.edits},
                       events : {session'.events}]
      /\ session'.scripts = session.scripts
  BY <1>1, <1>2, Pressing
<1>5. EditorShape'
  BY <1>1, <1>2, <1>3, <1>4 DEF EditorShape
<1> QED
  BY <1>1, <1>5 DEF EditorInv, LooksOnly, Kept, Editing!NothingElseChanges, Editing!MeetsTheListed

LEMMA ToggleKeeps == ASSUME EditorInv, NEW i \in Editing!Ids, Editing!Toggle(i) PROVE EditorInv'
<1> DEFINE s == [data[i].script EXCEPT !.default = ~@]
           r == [id |-> i, script |-> s, meant |-> data[i].born, untouched |-> Editing!Current]
           old == asked.save
           save == IF old # None
               /\ old.id # None THEN [old EXCEPT !.heard = FALSE, !.untouched = FALSE] ELSE old
<1>1. /\ editor = None /\ data[i] # None /\ asked.toggle = None /\ Editing!Press(1)
      /\ asked' = [save |-> save, toggle |-> r]
      /\ UNCHANGED <<server, data, editor, title, copying, dialog, told, hit>>
  BY DEF Editing!Toggle, Editing!IsListed, Editing!Listed
<1>2. EditorShape /\ Editing!Fine(data[i].script) /\ data[i].born = i
  BY <1>1, RowIs DEF EditorInv, EditorShape, Listing
<1>3. s \in Editing!Draft /\ Editing!Tidy(s) /\ [s EXCEPT !.default = ~@] = data[i].script
  <2> DEFINE d == data[i].script
  <2>1. d \in Editing!Draft /\ Editing!Fine(d) /\ s = [d EXCEPT !.default = ~@]
    BY <1>2 DEF Editing!Fine
  <2> HIDE DEF d, s
  <2>2. CASE d.default = TRUE
    <3>1. s = [d EXCEPT !.default = FALSE]
      BY <2>1, <2>2
    <3>2. Editing!Fine(s)
      BY <2>1, <3>1, Remarked
    <3>3. [s EXCEPT !.default = ~@] = d
      <4>1. [s EXCEPT !.default = ~@] = [d EXCEPT !.default = TRUE]
        BY <2>1, <3>1 DEF Editing!Draft
      <4> QED
        BY <2>1, <2>2, <4>1 DEF Editing!Draft
    <3> QED
      BY <3>2, <3>3 DEF Editing!Fine, d
  <2>3. CASE d.default = FALSE
    <3>1. s = [d EXCEPT !.default = TRUE]
      BY <2>1, <2>3
    <3>2. Editing!Fine(s)
      BY <2>1, <3>1, Remarked
    <3>3. [s EXCEPT !.default = ~@] = d
      <4>1. [s EXCEPT !.default = ~@] = [d EXCEPT !.default = FALSE]
        BY <2>1, <3>1 DEF Editing!Draft
      <4> QED
        BY <2>1, <2>3, <4>1 DEF Editing!Draft
    <3> QED
      BY <3>2, <3>3 DEF Editing!Fine, d
  <2> QED
    BY <2>1, <2>2, <2>3, DraftIs
<1>4. PICK b \in BOOLEAN : b = Editing!Current /\ (b <=> Editing!Current)
  <2>1. Editing!Current \in BOOLEAN
    BY DEF Editing!Current
  <2> QED
    BY <2>1
<1>5. r = [id |-> i, script |-> s, meant |-> i, untouched |-> b]
  BY <1>2, <1>4
<1> HIDE DEF s, r
<1>6. EditorToggleish(r) /\ r.id = i /\ r.script = s /\ (r.untouched <=> Editing!Current)
  BY <1>3, <1>4, <1>5 DEF EditorToggleish
<1>7. (save # None => EditorSaveish(save)) /\ ~LooksOnly(save) /\ (old = None => save = None)
  <2>1. CASE old # None /\ old.id # None
    <3>1. PICK c \in BOOLEAN : c = FALSE
      OBVIOUS
    <3>2. save = [old EXCEPT !.heard = c, !.untouched = c]
      BY <2>1, <3>1
    <3>3. EditorSaveish(old)
      BY <1>2, <2>1 DEF EditorShape
    <3> HIDE DEF save, old
    <3>4. EditorSaveish(save) /\ save.untouched = c
      BY <3>2, <3>3 DEF EditorSaveish
    <3> QED
      BY <2>1, <3>1, <3>4 DEF LooksOnly
  <2>2. CASE ~(old # None /\ old.id # None)
    <3>1. save = old
      BY <2>2
    <3> QED
      BY <1>2, <2>2, <3>1 DEF EditorShape, LooksOnly
  <2> QED
    BY <2>1, <2>2
<1> HIDE DEF save
<1>8. /\ session' \in [scripts : {session'.scripts}, kinds : {session'.kinds},
                       edits : {session'.edits},
                       events : {session'.events}]
      /\ session'.scripts = session.scripts
  BY <1>1, <1>2, Pressing
<1>9. asked' \in [save : {asked'.save}, toggle : {asked'.toggle}] /\ asked'.save = save
        /\ asked'.toggle = r
  BY <1>1
<1>10. EditorShape'
  BY <1>1, <1>2, <1>6, <1>7, <1>8, <1>9 DEF EditorShape
<1>11. r.untouched => save = None /\ Kept(i, [r.script EXCEPT !.default = ~@])
  BY <1>3, <1>6, <1>7 DEF Editing!Current, Kept
<1> QED
  BY <1>1, <1>6, <1>7, <1>9, <1>10, <1>11 DEF EditorInv, LooksOnly, Kept,
     Editing!NothingElseChanges, Editing!MeetsTheListed

LEMMA Storing ==
  ASSUME EditorShape, NEW i, NEW s, Editing!Fine(s), NEW rows,
         rows = Editing!Stored(server.rows, i, [born |-> i, script |-> Editing!Normal(s)])
  PROVE  Listing(rows) /\ EditorOneDefault(rows)
<1>1. Editing!Normal(s) = s
  BY EditorNormalIs DEF Editing!Fine
<1> DEFINE row == [born |-> i, script |-> s]
<1>2. EditorRowish(i, row) /\ rows = Editing!Stored(server.rows, i, row)
  BY <1>1, RowMade
<1> HIDE DEF row
<1>3. Listing(server.rows) /\ EditorOneDefault(server.rows)
  BY DEF EditorShape
<1> QED
  BY <1>2, <1>3, StoredIs

LEMMA EditorCreatedIs ==
  ASSUME EditorShape, NEW s, Editing!Fine(s), server' = Editing!Created(server, s)
  PROVE  /\ server' \in [rows : {server'.rows}, last : {server'.last}]
         /\ Listing(server'.rows) /\ EditorOneDefault(server'.rows)
<1> DEFINE i == server.last + 1
           rows == Editing!Stored(server.rows, i, [born |-> i, script |-> Editing!Normal(s)])
<1>1. server' = [rows |-> rows, last |-> i]
  BY DEF Editing!Created, Editing!NextId
<1>2. Listing(rows) /\ EditorOneDefault(rows)
  BY Storing
<1> HIDE DEF rows, i
<1> QED
  BY <1>1, <1>2

LEMMA UpdatedIs ==
  ASSUME EditorShape, NEW i \in Editing!Ids, server.rows[i] # None, NEW s, Editing!Fine(s),
         server' = Editing!Updated(server, i, s)
  PROVE  /\ server' \in [rows : {server'.rows}, last : {server'.last}]
         /\ Listing(server'.rows) /\ EditorOneDefault(server'.rows)
         /\ server'.rows = Editing!Stored(server.rows, i, [born |-> i, script |-> s])
<1> DEFINE rows == Editing!Stored(server.rows, i, [born |-> i, script |-> Editing!Normal(s)])
<1>1. server.rows[i].born = i /\ server \in [rows : {server.rows}, last : {server.last}]
  BY RowIs DEF EditorShape, Listing
<1>2. server' = [server EXCEPT !.rows = rows]
  BY <1>1 DEF Editing!Updated
<1>3. Listing(rows) /\ EditorOneDefault(rows)
  BY Storing
<1>4. rows = Editing!Stored(server.rows, i, [born |-> i, script |-> s])
  BY EditorNormalIs DEF Editing!Fine
<1> HIDE DEF rows
<1> QED
  BY <1>1, <1>2, <1>3, <1>4

LEMMA SaveAnsweredKeeps == ASSUME EditorInv, Editing!SaveAnswered PROVE EditorInv'
<1> DEFINE r == asked.save
<1>1. /\ r # None /\ asked' = [asked EXCEPT !.save = None]
         /\ UNCHANGED <<data, copying, dialog, session>>
  BY DEF Editing!SaveAnswered
<1>2. EditorShape /\ EditorSaveish(r)
  BY <1>1 DEF EditorInv, EditorShape
<1>3. r.script \in Editing!Draft /\ Editing!Tidy(r.script)
        /\ (r.id # None => r.id \in Editing!Ids /\ r.meant = r.id) /\ r.untouched \in BOOLEAN
  BY <1>2 DEF EditorSaveish
<1>4. /\ asked' \in [save : {asked'.save}, toggle : {asked'.toggle}] /\ asked'.save = None
      /\ asked'.toggle = asked.toggle
  BY <1>1, <1>2 DEF EditorShape
<1>5. ~(asked'.toggle # None /\ asked'.toggle.untouched)
  BY <1>1, <1>4 DEF EditorInv
<1>6. ~LooksOnly(asked'.save)
  BY <1>4 DEF LooksOnly
<1>7. /\ LooksOnly(editor) => r.heard /\ r.id # None /\ asked.toggle = None
          /\ Kept(editor.id, editor.script)
      /\ LooksOnly(r) => Kept(r.id, r.script)
      /\ Editing!NothingElseChanges /\ Editing!MeetsTheListed
  BY <1>1 DEF EditorInv
<1>8. CASE UNCHANGED <<server, editor, title, told, hit>>
  <2>1. EditorShape'
    BY <1>1, <1>2, <1>4, <1>8 DEF EditorShape
  <2>2. LooksOnly(editor)' => asked'.toggle = None /\ Kept(editor.id, editor.script)'
    BY <1>4, <1>7, <1>8 DEF LooksOnly, Kept
  <2>3. Editing!NothingElseChanges' /\ Editing!MeetsTheListed'
    BY <1>7, <1>8 DEF Editing!NothingElseChanges, Editing!MeetsTheListed
  <2>4. ~(asked.toggle # None /\ asked.toggle.untouched)' /\ ~LooksOnly(asked.save)'
    BY <1>5, <1>6
  <2> QED
    BY <1>4, <2>1, <2>2, <2>3, <2>4 DEF EditorInv
<1>9. CASE /\ Editing!Accepted(server, r.id, r.script)
           /\ server' = IF r.id = None THEN Editing!Created(server, r.script)
              ELSE Editing!Updated(server, r.id, r.script)
           /\ told' = IF r.untouched /\ r.id # None THEN server.rows ELSE None
           /\ hit' = Editing!Meets(r)
           /\ \/ r.heard /\ editor' = None /\ title' = None
              \/ ~r.heard /\ UNCHANGED <<editor, title>>
  <2>1. Editing!Fine(r.script)
    BY <1>3, <1>9, EditorNormalIs DEF Editing!Accepted
  <2>2. ~LooksOnly(editor')
    BY <1>7, <1>9 DEF LooksOnly
  <2>3. /\ server' \in [rows : {server'.rows}, last : {server'.last}]
        /\ Listing(server'.rows) /\ EditorOneDefault(server'.rows) /\ Editing!NothingElseChanges'
           /\ Editing!MeetsTheListed'
    <3>1. CASE r.id = None
      <4>1. server' = Editing!Created(server, r.script) /\ told' = None /\ hit' = None
        BY <1>9, <3>1 DEF Editing!Meets
      <4> QED
        BY <1>2, <2>1, <4>1, EditorCreatedIs DEF Editing!NothingElseChanges, Editing!MeetsTheListed
    <3>2. CASE r.id # None
      <4>1. /\ r.id \in Editing!Ids /\ server.rows[r.id] # None
                /\ server' = Editing!Updated(server, r.id, r.script)
            /\ hit' = [meant |-> r.id, got |-> server.rows[r.id].born]
        BY <1>3, <1>9, <3>2 DEF Editing!Accepted, Editing!Meets
      <4> DEFINE i == r.id
                 s == r.script
      <4>2. i \in Editing!Ids /\ server.rows[i] # None /\ server' = Editing!Updated(server, i, s)
              /\ Editing!Fine(s)
        BY <2>1, <4>1
      <4>3. r.untouched => Kept(i, s)
        BY <1>1, <1>7, <3>2 DEF LooksOnly
      <4>4. told' = IF r.untouched THEN server.rows ELSE None
        BY <1>9, <3>2
      <4>5. hit' = [meant |-> i, got |-> server.rows[i].born]
        BY <4>1
      <4> HIDE DEF i, s
      <4>6. /\ server' \in [rows : {server'.rows}, last : {server'.last}]
            /\ Listing(server'.rows) /\ EditorOneDefault(server'.rows)
            /\ server'.rows = Editing!Stored(server.rows, i, [born |-> i, script |-> s])
        BY <1>2, <4>2, UpdatedIs
      <4>7. ASSUME r.untouched PROVE server'.rows = server.rows
        <5>1. server.rows[i] = [born |-> i, script |-> s]
          BY <1>2, <4>2, <4>3, <4>7, KeptFine
        <5>2. Editing!Stored(server.rows, i, server.rows[i]) = server.rows
          BY <1>2, <4>2, StoredSame DEF EditorShape
        <5> QED
          BY <4>6, <5>1, <5>2
      <4>8. server.rows[i].born = i
        BY <1>2, <4>2, RowIs DEF EditorShape, Listing
      <4> QED
        BY <4>4, <4>5, <4>6, <4>7, <4>8 DEF Editing!NothingElseChanges, Editing!MeetsTheListed
    <3> QED
      BY <3>1, <3>2
  <2>4. EditorShape'
    <3>1. editor' # None => Editorish(editor')
      BY <1>2, <1>9 DEF EditorShape
    <3> QED
      BY <1>1, <1>2, <1>4, <2>3, <3>1 DEF EditorShape
  <2>5. ~(asked.toggle # None /\ asked.toggle.untouched)' /\ ~LooksOnly(asked.save)'
          /\ ~LooksOnly(editor)'
    BY <1>5, <1>6, <2>2
  <2> QED
    BY <2>3, <2>4, <2>5 DEF EditorInv
<1> QED
  BY <1>8, <1>9 DEF Editing!SaveAnswered

LEMMA ToggleAnsweredKeeps == ASSUME Editing!ScriptEditorAssumption, EditorInv,
      Editing!ToggleAnswered PROVE EditorInv'
<1> DEFINE r == asked.toggle
<1>1. /\ r # None /\ asked' = [asked EXCEPT !.toggle = None]
      /\ UNCHANGED <<data, editor, title, copying, dialog, session>>
  BY DEF Editing!ToggleAnswered
<1>2. EditorShape /\ EditorToggleish(r)
  BY <1>1 DEF EditorInv, EditorShape
<1>3. r.script \in Editing!Draft /\ Editing!Tidy(r.script) /\ r.id \in Editing!Ids
        /\ r.meant = r.id /\ r.untouched \in BOOLEAN
  BY <1>2 DEF EditorToggleish
<1>4. /\ asked' \in [save : {asked'.save}, toggle : {asked'.toggle}] /\ asked'.toggle = None
      /\ asked'.save = asked.save
  BY <1>1, <1>2 DEF EditorShape
<1>5. ~LooksOnly(editor) /\ ~LooksOnly(asked.save)
  BY <1>1 DEF EditorInv
<1>6. /\ r.untouched => Kept(r.id, [r.script EXCEPT !.default = ~@])
      /\ Editing!NothingElseChanges /\ Editing!MeetsTheListed
  BY <1>1 DEF EditorInv
<1>7. ~LooksOnly(editor)' /\ ~LooksOnly(asked.save)'
        /\ ~(asked.toggle # None /\ asked.toggle.untouched)'
  BY <1>1, <1>4, <1>5 DEF LooksOnly
<1>8. CASE UNCHANGED <<server, told, hit>>
  <2>1. EditorShape'
    BY <1>1, <1>2, <1>4, <1>8 DEF EditorShape
  <2>2. Editing!NothingElseChanges' /\ Editing!MeetsTheListed'
    BY <1>6, <1>8 DEF Editing!NothingElseChanges, Editing!MeetsTheListed
  <2> QED
    BY <1>7, <2>1, <2>2 DEF EditorInv
<1>9. CASE /\ Editing!Accepted(server, r.id, r.script)
           /\ server' = Editing!Updated(server, r.id, r.script)
           /\ told' = IF r.untouched THEN Editing!Marked(server.rows, r.id) ELSE None
           /\ hit' = Editing!Meets(r)
  <2>1. Editing!Fine(r.script)
    BY <1>3, <1>9, EditorNormalIs DEF Editing!Accepted
  <2> DEFINE i == r.id
             s == r.script
  <2>2. CASE i = None
    BY <1>3, <2>2 DEF Editing!ScriptEditorAssumption
  <2>3. CASE i # None
    <3>1. i \in Editing!Ids /\ server.rows[i] # None /\ server' = Editing!Updated(server, i, s)
            /\ Editing!Fine(s) /\ s \in Editing!Draft
      BY <1>3, <1>9, <2>1, <2>3 DEF Editing!Accepted
    <3>2. hit' = [meant |-> i, got |-> server.rows[i].born]
      BY <1>3, <1>9, <2>3 DEF Editing!Meets
    <3>3. told' = IF r.untouched THEN Editing!Marked(server.rows, i) ELSE None
      BY <1>9
    <3>4. r.untouched => server.rows[i].script = [s EXCEPT !.default = ~@]
      BY <1>6, <3>1 DEF Kept
    <3> HIDE DEF i, s
    <3>5. /\ server' \in [rows : {server'.rows}, last : {server'.last}]
          /\ Listing(server'.rows) /\ EditorOneDefault(server'.rows)
          /\ server'.rows = Editing!Stored(server.rows, i, [born |-> i, script |-> s])
      BY <1>2, <3>1, UpdatedIs
    <3>6. ASSUME r.untouched PROVE server'.rows = Editing!Marked(server.rows, i)
      <4> DEFINE row == [born |-> i, script |-> s]
      <4>1. Listing(server.rows)
        BY <1>2 DEF EditorShape
      <4>2. server'.rows = Editing!Stored(server.rows, i, row)
        BY <3>5
      <4>3. Editing!Stored(server.rows, i, row) = Editing!Marked(server.rows, i)
        BY <3>1, <3>4, <3>6, <4>1, StoredMarked
      <4> QED
        BY <4>2, <4>3
    <3>7. server.rows[i].born = i
      BY <1>2, <3>1, RowIs DEF EditorShape, Listing
    <3>8. Editing!NothingElseChanges' /\ Editing!MeetsTheListed'
      BY <3>2, <3>3, <3>6, <3>7 DEF Editing!NothingElseChanges, Editing!MeetsTheListed
    <3>9. EditorShape'
      BY <1>1, <1>2, <1>4, <3>5 DEF EditorShape
    <3> QED
      BY <1>7, <3>8, <3>9 DEF EditorInv
  <2> QED
    BY <2>2, <2>3
<1> QED
  BY <1>8, <1>9 DEF Editing!ToggleAnswered

LEMMA DroppedIs ==
  ASSUME EditorShape, NEW i \in Editing!Ids, server' = [server EXCEPT !.rows[i] = None]
  PROVE  /\ server' \in [rows : {server'.rows}, last : {server'.last}]
         /\ Listing(server'.rows) /\ EditorOneDefault(server'.rows)
         /\ \A j \in Editing!Ids : server'.rows[j] = IF j = i THEN None ELSE server.rows[j]
<1> DEFINE rows == [server.rows EXCEPT ![i] = None]
<1>1. server \in [rows : {server.rows}, last : {server.last}] /\ Listing(server.rows)
        /\ EditorOneDefault(server.rows)
  BY DEF EditorShape
<1>2. server' = [server EXCEPT !.rows = rows]
  OBVIOUS
<1>3. DOMAIN rows = Editing!Ids /\ rows \in [Editing!Ids -> {rows[j] : j \in Editing!Ids}]
      /\ \A j \in Editing!Ids : rows[j] = IF j = i THEN None ELSE server.rows[j]
  BY <1>1 DEF Listing
<1> HIDE DEF rows
<1>4. Listing(rows) /\ EditorOneDefault(rows)
  BY <1>1, <1>3 DEF Listing, EditorOneDefault
<1> QED
  BY <1>1, <1>2, <1>3, <1>4

LEMMA ConfirmDeleteKeeps == ASSUME EditorInv, Editing!ConfirmDelete PROVE EditorInv'
<1>1. dialog # None /\ dialog' = None /\ UNCHANGED <<data, editor, title, asked, copying, session>>
  BY DEF Editing!ConfirmDelete
<1>2. EditorShape /\ dialog \in [id : Editing!Ids, meant : {dialog.id}]
  BY <1>1 DEF EditorInv, EditorShape
<1>3. CASE UNCHANGED <<server, told, hit>>
  <2>1. EditorShape'
    BY <1>1, <1>2, <1>3 DEF EditorShape
  <2> QED
    BY <1>1, <1>3, <2>1 DEF EditorInv, LooksOnly, Kept, Editing!NothingElseChanges,
       Editing!MeetsTheListed
<1>4. CASE /\ server.rows[dialog.id] # None /\ hit' = Editing!Meets(dialog)
           /\ server' = [server EXCEPT !.rows[dialog.id] = None] /\ told' = None
  <2> DEFINE i == dialog.id
  <2>1. i \in Editing!Ids /\ server' = [server EXCEPT !.rows[i] = None]
    BY <1>2, <1>4
  <2>2. Editing!MeetsTheListed'
    <3>1. dialog.meant = i /\ server.rows[i].born = i
      BY <1>2, <1>4, <2>1, RowIs DEF EditorShape, Listing
    <3> QED
      BY <1>4, <3>1 DEF Editing!Meets, Editing!MeetsTheListed
  <2> HIDE DEF i
  <2>3. /\ server' \in [rows : {server'.rows}, last : {server'.last}]
        /\ Listing(server'.rows) /\ EditorOneDefault(server'.rows)
        /\ \A j \in Editing!Ids : server'.rows[j] = IF j = i THEN None ELSE server.rows[j]
    BY <1>2, <2>1, DroppedIs
  <2>4. EditorShape'
    BY <1>1, <1>2, <2>3 DEF EditorShape
  <2>5. Editing!NothingElseChanges'
    BY <1>4 DEF Editing!NothingElseChanges
  <2>6. ASSUME NEW j \in Editing!Ids, NEW s, Kept(j, s) PROVE Kept(j, s)'
    BY <2>3, <2>6 DEF Kept
  <2>7. LooksOnly(editor)' => /\ asked.toggle' = None /\ Kept(editor.id, editor.script)'
                              /\ asked.save' # None => asked.save.heard' /\ asked.save.id' # None
    <3> SUFFICES ASSUME LooksOnly(editor)'
                 PROVE  /\ asked.toggle' = None /\ Kept(editor.id, editor.script)'
                        /\ asked.save' # None => asked.save.heard' /\ asked.save.id' # None
      OBVIOUS
    <3>1. LooksOnly(editor)
      BY <1>1 DEF LooksOnly
    <3>2. /\ asked.toggle = None /\ Kept(editor.id, editor.script)
          /\ asked.save # None => asked.save.heard /\ asked.save.id # None
      BY <3>1 DEF EditorInv
    <3>3. editor.id \in Editing!Ids
      BY <1>2, <3>1, EditorIs DEF EditorShape, LooksOnly
    <3> QED
      BY <1>1, <2>3, <3>2, <3>3 DEF Kept
  <2>8. LooksOnly(asked.save)' => asked.toggle' = None /\ Kept(asked.save.id, asked.save.script)'
    <3> SUFFICES ASSUME LooksOnly(asked.save)'
                 PROVE  asked.toggle' = None /\ Kept(asked.save.id, asked.save.script)'
      OBVIOUS
    <3>1. LooksOnly(asked.save)
      BY <1>1 DEF LooksOnly
    <3>2. asked.toggle = None /\ Kept(asked.save.id, asked.save.script)
      BY <3>1 DEF EditorInv
    <3>3. asked.save.id \in Editing!Ids
      BY <1>2, <3>1 DEF EditorShape, LooksOnly, EditorSaveish
    <3> QED
      BY <1>1, <2>3, <3>2, <3>3 DEF Kept
  <2>9. asked.toggle' # None /\ asked.toggle.untouched' =>
          asked.save' = None /\ Kept(asked.toggle.id, [asked.toggle.script EXCEPT !.default = ~@])'
    <3> SUFFICES ASSUME asked.toggle # None, asked.toggle.untouched
                 PROVE  asked.save' = None
                        /\ Kept(asked.toggle.id, [asked.toggle.script EXCEPT !.default = ~@])'
      BY <1>1
    <3>1. asked.save = None /\ Kept(asked.toggle.id, [asked.toggle.script EXCEPT !.default = ~@])
      BY DEF EditorInv
    <3>2. asked.toggle.id \in Editing!Ids
      BY <1>2 DEF EditorShape, EditorToggleish
    <3> QED
      BY <1>1, <2>3, <3>1, <3>2 DEF Kept
  <2> QED
    BY <2>2, <2>4, <2>5, <2>7, <2>8, <2>9 DEF EditorInv
<1> QED
  BY <1>1, <1>3, <1>4 DEF Editing!ConfirmDelete

LEMMA RetypedIs ==
  ASSUME Editing!ScriptEditorAssumption, NEW s, Editing!Fine(s), NEW t,
         t = [s EXCEPT !.steps[1].command.form = "typed"]
  PROVE  Editing!Fine(t)
<1> DEFINE q == s.steps
           c == [q[1].command EXCEPT !.form = "typed"]
           p == [q EXCEPT ![1].command = c]
<1>1. s \in Editing!Draft /\ q \in Seq(Editing!Step) /\ Editing!Runs(s) /\ Editing!Tidy(s)
  BY DraftIs DEF Editing!Fine
<1>2. Len(q) \in Nat /\ DOMAIN q = 1 .. Len(q) /\ \A k \in 1 .. Len(q) : q[k] \in Editing!Step
  BY <1>1, LenProperties, ElementOfSeq
<1>3. 1 \in DOMAIN q /\ q[1] \in Editing!Step /\ q[1].command # None
  <2>1. Len(q) # 0
    <3>1. q # <<>> \/ Len(q) = 1
      BY <1>1 DEF Editing!Runs
    <3>2. q \in Seq(Editing!Step) /\ (q = <<>> <=> Len(q) = 0)
      BY <1>1, EmptySeq
    <3> HIDE DEF q
    <3> QED
      BY <3>1, <3>2
  <2>2. 1 \in DOMAIN q
    BY <1>2, <2>1
  <2> QED
    BY <1>1, <1>2, <2>2 DEF Editing!Runs
<1>4. q[1].command \in [of : 1 .. Editing!MaxSteps, form : {"raw", "typed", "neat"}]
  BY <1>3 DEF Editing!Step, Editing!Command
<1>5. c \in [of : 1 .. Editing!MaxSteps, form : {"raw", "typed", "neat"}]
  BY <1>4
<1>6. t = [s EXCEPT !.steps = p]
  OBVIOUS
<1>7. c \in Editing!Command /\ c # None
  BY <1>5 DEF Editing!ScriptEditorAssumption, Editing!Command
<1> HIDE DEF c
<1>8. p \in Seq(Editing!Step) /\ DOMAIN p = DOMAIN q
      /\ \A k \in DOMAIN q : p[k].command = IF k = 1 THEN c ELSE q[k].command
  <2>1. p \in Seq(Editing!Step)
    BY <1>1, <1>3, <1>7, RecommandIs
  <2>2. \A k \in DOMAIN q : p[k].command = IF k = 1 THEN c ELSE q[k].command
    <3>1. q[1] \in Editing!Step
      BY <1>3
    <3> QED
      BY <3>1, <1>2 DEF Editing!Step
  <2> QED
    BY <2>1, <2>2
<1> HIDE DEF p
<1>9. t \in Editing!Draft /\ t.steps = p /\ t.operation = s.operation /\ t.manager = s.manager
        /\ t.parse = s.parse
  BY <1>1, <1>6, <1>8 DEF Editing!Draft
<1>10. Len(p) = Len(q)
  BY <1>2, <1>8, LenProperties
<1>11. p # <<>>
  BY <1>3, <1>8
<1>12. Editing!Runs(t)
  <2>1. IF t.operation = "detect" THEN Len(t.steps) = 1 ELSE t.steps # <<>>
    BY <1>1, <1>9, <1>10, <1>11 DEF Editing!Runs
  <2>2. \A k \in DOMAIN t.steps : t.steps[k].command # None
    BY <1>1, <1>7, <1>8, <1>9 DEF Editing!Runs
  <2>3. t.parse # None => t.parse + 1 \in DOMAIN t.steps
    BY <1>1, <1>8, <1>9 DEF Editing!Runs
  <2> QED
    BY <2>1, <2>2, <2>3 DEF Editing!Runs
<1>13. Editing!Tidy(t)
  BY <1>1, <1>9 DEF Editing!Tidy, Editing!ShowsParser
<1> QED
  BY <1>9, <1>12, <1>13 DEF Editing!Fine

LEMMA SwitchedIs ==
  ASSUME NEW s, Editing!Fine(s)
  PROVE  Editing!Fine([s EXCEPT !.default = ~@])
<1>1. s.default \in BOOLEAN
  BY DraftIs DEF Editing!Fine
<1>2. CASE s.default = TRUE
  <2>1. [s EXCEPT !.default = ~@] = [s EXCEPT !.default = FALSE]
    BY <1>2
  <2> QED
    BY <2>1, Remarked
<1>3. CASE s.default = FALSE
  <2>1. [s EXCEPT !.default = ~@] = [s EXCEPT !.default = TRUE]
    BY <1>3
  <2> QED
    BY <2>1, Remarked
<1> QED
  BY <1>1, <1>2, <1>3

LEMMA OthersKeeps == ASSUME Editing!ScriptEditorAssumption, EditorInv, Editing!Others
      PROVE EditorInv'
<1>1. /\ session' = [session EXCEPT !.events = @ - 1] /\ told' = None
      /\ editor' = IF editor = None THEN None ELSE [editor EXCEPT !.untouched = FALSE]
      /\ asked' = [a \in DOMAIN asked |->
                     IF asked[a] = None THEN None ELSE [asked[a] EXCEPT !.untouched = FALSE]]
      /\ UNCHANGED <<data, title, copying, dialog, hit>>
  BY DEF Editing!Others
<1>2. EditorShape
  BY DEF EditorInv
<1>3. /\ server' \in [rows : {server'.rows}, last : {server'.last}]
      /\ Listing(server'.rows) /\ EditorOneDefault(server'.rows)
  <2>1. ASSUME NEW i \in Editing!Ids, server' = [server EXCEPT !.rows[i] = None] PROVE <1>3
    BY <1>2, <2>1, DroppedIs
  <2>2. ASSUME NEW i \in Editing!Ids, server.rows[i] # None,
               server' = Editing!Updated(server, i,
                                         [server.rows[i].script EXCEPT !.steps[1].command.form = "typed"])
        PROVE  <1>3
    <3> DEFINE s == [server.rows[i].script EXCEPT !.steps[1].command.form = "typed"]
    <3>1. Editing!Fine(server.rows[i].script)
      BY <1>2, <2>2, RowIs DEF EditorShape, Listing
    <3>2. Editing!Fine(s) /\ server' = Editing!Updated(server, i, s)
      BY <2>2, <3>1, RetypedIs
    <3> HIDE DEF s
    <3> QED
      BY <1>2, <2>2, <3>2, UpdatedIs
  <2>3. ASSUME NEW i \in Editing!Ids, server.rows[i] # None,
               server' = Editing!Updated(server, i, [server.rows[i].script EXCEPT !.default = ~@])
        PROVE  <1>3
    <3> DEFINE s == [server.rows[i].script EXCEPT !.default = ~@]
    <3>1. Editing!Fine(server.rows[i].script)
      BY <1>2, <2>3, RowIs DEF EditorShape, Listing
    <3>2. Editing!Fine(s) /\ server' = Editing!Updated(server, i, s)
      BY <2>3, <3>1, SwitchedIs
    <3> HIDE DEF s
    <3> QED
      BY <1>2, <2>3, <3>2, UpdatedIs
  <2>4. CASE server' = Editing!Created(server, session.scripts[1])
    <3>1. Editing!Fine(session.scripts[1])
      BY <1>2 DEF EditorShape
    <3> QED
      BY <1>2, <2>4, <3>1, EditorCreatedIs
  <2>5. \/ \E i \in Editing!Ids :
             /\ server.rows[i] # None
             /\ \/ server' = [server EXCEPT !.rows[i] = None]
                \/ server' = Editing!Updated(server, i,
                                             [server.rows[i].script EXCEPT !.steps[1].command.form = "typed"])
                \/ server' = Editing!Updated(server, i,
                                             [server.rows[i].script EXCEPT !.default = ~@])
        \/ server' = Editing!Created(server, session.scripts[1])
    BY DEF Editing!Others
  <2> QED
    BY <2>1, <2>2, <2>3, <2>4, <2>5
<1>4. editor' # None => Editorish(editor') /\ ~editor'.untouched
  <2> SUFFICES ASSUME editor # None PROVE Editorish(editor') /\ ~editor'.untouched
    BY <1>1
  <2>1. PICK b \in BOOLEAN : b = FALSE
    OBVIOUS
  <2>2. editor' = [editor EXCEPT !.untouched = b] /\ Editorish(editor)
    BY <1>1, <1>2, <2>1 DEF EditorShape
  <2> QED
    BY <2>1, <2>2 DEF Editorish
<1>5. /\ asked' \in [save : {asked'.save}, toggle : {asked'.toggle}]
      /\ asked'.save = IF asked.save = None THEN None ELSE [asked.save EXCEPT !.untouched = FALSE]
      /\ asked'.toggle = IF asked.toggle = None THEN None
         ELSE [asked.toggle EXCEPT !.untouched = FALSE]
  <2>1. asked \in [save : {asked.save}, toggle : {asked.toggle}]
    BY <1>2 DEF EditorShape
  <2> QED
    BY <1>1, <2>1
<1>6. asked'.save # None => EditorSaveish(asked'.save) /\ ~asked'.save.untouched
  <2> SUFFICES ASSUME asked.save # None PROVE EditorSaveish(asked'.save) /\ ~asked'.save.untouched
    BY <1>5
  <2>1. PICK b \in BOOLEAN : b = FALSE
    OBVIOUS
  <2> DEFINE old == asked.save
             new == asked'.save
  <2>2. new = [old EXCEPT !.untouched = b] /\ EditorSaveish(old)
    BY <1>2, <1>5, <2>1 DEF EditorShape
  <2> HIDE DEF old, new
  <2>3. EditorSaveish(new) /\ ~new.untouched
    BY <2>1, <2>2 DEF EditorSaveish
  <2> QED
    BY <2>3 DEF new
<1>7. asked'.toggle # None => EditorToggleish(asked'.toggle) /\ ~asked'.toggle.untouched
  <2> SUFFICES ASSUME asked.toggle # None PROVE EditorToggleish(asked'.toggle)
                      /\ ~asked'.toggle.untouched
    BY <1>5
  <2>1. PICK b \in BOOLEAN : b = FALSE
    OBVIOUS
  <2> DEFINE old == asked.toggle
             new == asked'.toggle
  <2>2. new = [old EXCEPT !.untouched = b] /\ EditorToggleish(old)
    BY <1>2, <1>5, <2>1 DEF EditorShape
  <2> HIDE DEF old, new
  <2>3. EditorToggleish(new) /\ ~new.untouched
    BY <2>1, <2>2 DEF EditorToggleish
  <2> QED
    BY <2>3 DEF new
<1>8. /\ session' \in [scripts : {session'.scripts}, kinds : {session'.kinds},
                       edits : {session'.edits},
                       events : {session'.events}]
      /\ session'.scripts = session.scripts
  BY <1>1, <1>2 DEF EditorShape
<1>9. EditorShape'
  BY <1>1, <1>2, <1>3, <1>4, <1>5, <1>6, <1>7, <1>8 DEF EditorShape
<1> QED
  BY <1>1, <1>4, <1>6, <1>7, <1>9 DEF EditorInv, LooksOnly, Editing!NothingElseChanges,
     Editing!MeetsTheListed

LEMMA EditorInit == ASSUME Editing!ScriptEditorAssumption, Editing!Init PROVE EditorInv
<1>1. PICK t \in EditorSessions :
        /\ session = t
        /\ server = [rows |-> [i \in Editing!Ids |-> IF i \in DOMAIN t.scripts
                                                     THEN [born |-> i, script |-> t.scripts[i]]
                                                         ELSE None],
                     last |-> Len(t.scripts)]
        /\ data = server.rows
        /\ editor = None /\ title = None /\ copying = None /\ dialog = None
        /\ asked = [save |-> None, toggle |-> None] /\ told = None /\ hit = None
  BY Zenon DEF Editing!Init
<1>2. /\ t \in [scripts : {t.scripts}, kinds : {t.kinds}, edits : {t.edits}, events : {t.events}]
      /\ t.scripts \in Seq(Editing!Draft) /\ t.scripts # <<>>
      /\ \A i \in DOMAIN t.scripts : Editing!Fine(t.scripts[i])
      /\ \A i, j \in DOMAIN t.scripts : i # j => ~Editing!Clash(t.scripts[i], t.scripts[j])
  BY DEF Editing!ScriptEditorAssumption
<1> DEFINE s == t.scripts
           rows == [i \in Editing!Ids |-> IF i \in DOMAIN s THEN [born |-> i,
                                                                  script |-> s[i]] ELSE None]
<1>3. server = [rows |-> rows, last |-> Len(s)] /\ data = rows
  BY <1>1
<1>4. 1 \in DOMAIN s
  <2>1. Len(s) \in Nat /\ DOMAIN s = 1 .. Len(s) /\ Len(s) # 0
    BY <1>2, LenProperties, EmptySeq
  <2> QED
    BY <2>1
<1>5. rows \in [Editing!Ids -> {rows[i] : i \in Editing!Ids}]
  OBVIOUS
<1>6. ASSUME NEW i \in Editing!Ids, rows[i] # None
      PROVE  EditorRowish(i, rows[i]) /\ i \in DOMAIN s /\ rows[i].script = s[i]
  BY <1>2, <1>6, RowMade
<1> HIDE DEF rows
<1>7. Listing(rows) /\ EditorOneDefault(rows)
  <2>1. Listing(rows)
    BY <1>5, <1>6 DEF Listing
  <2>2. EditorOneDefault(rows)
    BY <1>2, <1>6 DEF EditorOneDefault
  <2> QED
    BY <2>1, <2>2
<1>8. Editing!Fine(session.scripts[1])
  BY <1>1, <1>2, <1>4
<1>9. server \in [rows : {server.rows}, last : {server.last}] /\ server.rows = rows
  BY <1>3
<1>10. asked \in [save : {asked.save}, toggle : {asked.toggle}] /\ asked.save = None
         /\ asked.toggle = None
  BY <1>1
<1>11. EditorShape
  BY <1>1, <1>2, <1>3, <1>7, <1>8, <1>9, <1>10 DEF EditorShape
<1> QED
  BY <1>1, <1>10, <1>11 DEF EditorInv, LooksOnly, Editing!NothingElseChanges, Editing!MeetsTheListed

LEMMA EditingKeeps == ASSUME EditorInv, Editing!Editing PROVE EditorInv'
<1>1. editor # None
  BY DEF Editing!Editing
<1>2. editor.script.steps \in Seq(Editing!Step)
  BY <1>1, EditorIs, DraftIs DEF EditorInv, EditorShape
<1>3. ASSUME NEW k \in DOMAIN editor.script.steps,
             \/ Editing!RemoveStep(k) \/ Editing!TypeCommand(k) \/ Editing!Beautify(k)
                \/ Editing!ChooseParsed(k - 1)
             \/ \E j \in DOMAIN editor.script.steps : Editing!MoveStep(j, k)
      PROVE  EditorInv'
  <2>1. k - 1 \in Nat \cup {None}
    <3>1. Len(editor.script.steps) \in Nat /\ k \in 1 .. Len(editor.script.steps)
      BY <1>2, LenProperties
    <3> QED
      BY <3>1
  <2> DEFINE n == k - 1
  <2>2. n \in Nat \cup {None}
    BY <2>1
  <2>3. \/ Editing!RemoveStep(k) \/ Editing!TypeCommand(k) \/ Editing!Beautify(k)
            \/ Editing!ChooseParsed(n)
        \/ \E j \in DOMAIN editor.script.steps : Editing!MoveStep(j, k)
    BY <1>3
  <2> HIDE DEF n
  <2> QED
    BY <1>1, <2>2, <2>3, RemoveStepKeeps, TypeCommandKeeps, BeautifyKeeps, ChooseParsedKeeps,
       MoveStepKeeps
<1>4. CASE \E t \in DOMAIN Editing!Operations : Editing!ChooseType(t)
  BY <1>1, <1>4, ChooseTypeKeeps
<1>5. CASE \E operation \in UNION {Editing!Operations[t] : t \in DOMAIN Editing!Operations} : Editing!ChooseOperation(operation)
  BY <1>1, <1>5, ChooseOperationKeeps
<1>6. CASE \E m \in Builtin \cup Custom : Editing!ChooseManager(m)
  BY <1>1, <1>6, ChooseManagerKeeps
<1>7. CASE Editing!AddStep \/ Editing!ChooseParsed(None) \/ Editing!Beautified \/ Editing!Save
  <2>1. None \in Nat \cup {None}
    OBVIOUS
  <2> QED
    BY <1>1, <1>7, <2>1, AddStepKeeps, ChooseParsedKeeps, BeautifiedKeeps, EditorSaveKeeps
<1> QED
  BY <1>3, <1>4, <1>5, <1>6, <1>7, Zenon DEF Editing!Editing

LEMMA EditorStep == ASSUME Editing!ScriptEditorAssumption, EditorInv, [Editing!Next]_Editing!vars
      PROVE EditorInv'
<1>1. CASE UNCHANGED Editing!vars
  <2>1. EditorShape'
    BY <1>1 DEF EditorInv, EditorShape, Editing!vars
  <2> QED
    BY <1>1, <2>1 DEF EditorInv, LooksOnly, Kept, Editing!NothingElseChanges,
       Editing!MeetsTheListed, Editing!vars
<1>2. CASE \E i \in Editing!Ids : Editing!OpenEditor(i) \/ Editing!StartCopy(i)
        \/ Editing!Toggle(i) \/ Editing!AskDelete(i)
  BY <1>2, OpenEditorKeeps, StartCopyKeeps, ToggleKeeps, AskDeleteKeeps
<1>3. CASE Editing!OpenNew \/ Editing!CopyReady \/ Editing!Close \/ Editing!Editing \/ Editing!Read
  BY <1>3, OpenNewKeeps, CopyReadyKeeps, EditorCloseKeeps, EditingKeeps, EditorReadKeeps
<1>4. CASE Editing!SaveAnswered \/ Editing!ToggleAnswered \/ Editing!ConfirmDelete \/ Editing!Others
  BY <1>4, SaveAnsweredKeeps, ToggleAnsweredKeeps, ConfirmDeleteKeeps, OthersKeeps
<1> QED
  BY <1>1, <1>2, <1>3, <1>4, Zenon DEF Editing!Next

LEMMA EditorHolds == ASSUME EditorInv PROVE Editing!ScriptEditorSound
<1>1. ASSUME NEW i \in Editing!Ids, server.rows[i] # None
      PROVE  Editing!Runs(server.rows[i].script)
  BY <1>1, RowIs DEF EditorInv, EditorShape, Listing, Editing!Fine
<1>2. Editing!ScriptsRun
  BY <1>1 DEF Editing!ScriptsRun, Editing!Runs
<1> QED
  BY <1>2 DEF Editing!ScriptEditorSound, EditorInv

--------------------------------------------------------------------------------
Timing == INSTANCE SchedulePage WITH
  Absent <- None, Blank <- None, All <- None, Sessions <- ScheduleSessions

-------------------------------------------------------------------------------
(***************************************************************************)
(* SchedulePage.                                                           *)
(***************************************************************************)
Types == {"refresh", "update", "digest"}

Item == [id : Nat, row : Timing!Row]

Before(f) == IF f.before.systems = None THEN {} ELSE f.before.systems

\* A form has the systems of its row that it never listed.
TimingFormish(f) ==
  /\ f \in [mode : {"new", "edit", "copy"}, id : {f.id}, before : {f.before}, type : Types,
            enabled : BOOLEAN, name : {f.name}, choice : {f.choice}, custom : {f.custom},
            hours : Int \cup {None}, all : BOOLEAN, systems : SUBSET Systems,
            channels : SUBSET Channels, seen : SUBSET Systems]
  /\ f.systems \ f.seen = Before(f) \ f.seen

TimingSaveish(ask) ==
  /\ ask.what = "save"
  /\ ask \in [what : {"save"}, id : {ask.id}, row : {ask.row}, form : {ask.form},
              visible : {ask.visible}, listed : {ask.listed}]
  /\ TimingFormish(ask.form)
  /\ ask.row \in [type : {ask.form.type}, enabled : {ask.form.enabled}, name : {ask.row.name},
                  cron : {ask.row.cron}, hours : 0 .. 168,
                  systems : {IF ask.form.type = "digest" \/ ask.form.all THEN None ELSE ask.form.systems},
                  channels : {IF ask.form.type = "digest" THEN ask.form.channels ELSE {}}]

TimingToggleish(ask) == ask.what = "toggle"
    /\ ask \in [what : {"toggle"}, id : {ask.id}, enabled : BOOLEAN]

Deleteish(ask) == ask.what = "delete" /\ ask \in [what : {"delete"}, id : {ask.id}]

Orderish(ask) ==
  /\ ask.what = "order"
  /\ ask \in [what : {"order"}, order : {ask.order}, from : {ask.from}, to : {ask.to},
              previous : Seq(Item)]
  /\ ask.from \in DOMAIN ask.previous /\ ask.to \in DOMAIN ask.previous
  /\ ask.order = Timing!IdsOf(Timing!Moved(ask.previous, ask.from, ask.to))

TimingRequestish(r) ==
  /\ r \in [hook : {"create", "update", "delete", "reorder"}, ask : {r.ask}, latest : BOOLEAN,
            answer : {"none", "ok", "error"}]
  /\ r.hook = "create" => TimingSaveish(r.ask)
  /\ r.hook = "update" => TimingSaveish(r.ask) \/ TimingToggleish(r.ask)
  /\ r.hook = "delete" => Deleteish(r.ask)
  /\ r.hook = "reorder" => Orderish(r.ask)

Requestsish(w) == w \in Seq({w[k] : k \in DOMAIN w}) /\ \A k \in DOMAIN w : TimingRequestish(w[k])

Serverish(s) ==
  /\ s \in [rows : [DOMAIN s.rows -> Timing!Row], place : [DOMAIN s.rows -> Nat], last : Nat,
            visible : SUBSET Systems, channels : SUBSET Channels]
  /\ DOMAIN s.rows \subseteq 1 .. s.last
  /\ \A i, j \in DOMAIN s.rows : i # j => s.place[i] # s.place[j]

PageTyped ==
  /\ Serverish(server)
  /\ data \in [schedules : Seq(Item), visible : SUBSET Systems, channels : SUBSET Channels]
  /\ list \in Seq(Item)
  /\ form # None => TimingFormish(form) /\ data.visible \subseteq form.seen
  /\ Requestsish(wire)

\* What was stored last is still so.
ToldIsSo(t, s) ==
  \/ TimingSaveish(t) /\ t.id \in DOMAIN s.rows /\ s.rows[t.id] = Timing!Normal(t.row)
  \/ TimingToggleish(t) /\ t.id \in DOMAIN s.rows /\ s.rows[t.id].enabled = t.enabled
  \/ Deleteish(t) /\ t.id \notin DOMAIN s.rows
  \/ /\ Orderish(t) /\ Len(t.order) = Cardinality(DOMAIN s.rows)
     /\ {t.order[k] : k \in DOMAIN t.order} = DOMAIN s.rows
     /\ \A k \in DOMAIN t.order : s.place[t.order[k]] = k - 1

TimingInv == PageTyped /\ (told # None => ToldIsSo(told, server))

(***************************************************************************)
(* Lists.                                                                  *)
(***************************************************************************)
LEMMA RemovedAt ==
  ASSUME NEW S, NEW s \in Seq(S), NEW i \in 1 .. Len(s)
  PROVE  /\ Timing!RemoveAt(s, i) \in Seq(S) /\ Len(Timing!RemoveAt(s, i)) = Len(s) - 1
         /\ \A k \in 1 .. Len(s) - 1 : Timing!RemoveAt(s, i)[k] = IF k < i THEN s[k] ELSE s[k + 1]
BY LeavingOut DEF Timing!RemoveAt

LEMMA InsertedAt ==
  ASSUME NEW S, NEW s \in Seq(S), NEW i \in 1 .. Len(s) + 1, NEW e \in S
  PROVE  /\ Timing!InsertAt(s, i, e) \in Seq(S) /\ Len(Timing!InsertAt(s, i, e)) = Len(s) + 1
         /\ \A k \in 1 .. Len(s) + 1 :
              Timing!InsertAt(s, i, e)[k] = IF k < i THEN s[k] ELSE IF k = i THEN e ELSE s[k - 1]
<1> DEFINE t == Timing!InsertAt(s, i, e)
           c == <<e>>
           a == SubSeq(s, 1, i - 1)
           b == SubSeq(s, i, Len(s))
<1>1. Len(s) \in Nat /\ i \in Int /\ \A k \in 1 .. Len(s) : s[k] \in S
  BY ElementOfSeq, LenProperties
<1>2. a \in Seq(S) /\ Len(a) = i - 1 /\ \A k \in 1 .. i - 1 : a[k] = s[k]
  <2>1. 1 \in Int /\ i - 1 \in Int /\ \A k \in 1 .. i - 1 : s[k] \in S
    BY <1>1
  <2>2. /\ a \in Seq(S) /\ Len(a) = IF 1 <= i - 1 THEN i - 1 - 1 + 1 ELSE 0
        /\ \A k \in 1 .. i - 1 - 1 + 1 : a[k] = s[1 + k - 1]
    BY <2>1, SubSeqProperties
  <2> HIDE DEF a
  <2> QED
    BY <1>1, <2>2
<1>3. b \in Seq(S) /\ Len(b) = Len(s) - i + 1 /\ \A k \in 1 .. Len(s) - i + 1 : b[k] = s[i + k - 1]
  <2>1. i \in Int /\ Len(s) \in Int /\ \A k \in i .. Len(s) : s[k] \in S
    BY <1>1
  <2>2. /\ b \in Seq(S) /\ Len(b) = IF i <= Len(s) THEN Len(s) - i + 1 ELSE 0
        /\ \A k \in 1 .. Len(s) - i + 1 : b[k] = s[i + k - 1]
    BY <2>1, SubSeqProperties
  <2> HIDE DEF b
  <2> QED
    BY <1>1, <2>2
<1>4. c \in Seq(S) /\ Len(c) = 1 /\ c[1] = e
  OBVIOUS
<1> HIDE DEF a, b, c
<1>5. /\ a \o c \in Seq(S) /\ Len(a \o c) = Len(a) + Len(c)
      /\ \A k \in 1 .. Len(a) + Len(c) : (a \o c)[k] = IF k <= Len(a) THEN a[k] ELSE c[k - Len(a)]
  BY <1>2, <1>4, ConcatProperties
<1> DEFINE d == a \o c
<1>6. d \in Seq(S) /\ Len(d) = i /\ \A k \in 1 .. i : d[k] = IF k < i THEN s[k] ELSE e
  BY <1>1, <1>2, <1>4, <1>5
<1> HIDE DEF d
<1>7. /\ d \o b \in Seq(S) /\ Len(d \o b) = Len(d) + Len(b)
      /\ \A k \in 1 .. Len(d) + Len(b) : (d \o b)[k] = IF k <= Len(d) THEN d[k] ELSE b[k - Len(d)]
  BY <1>3, <1>6, ConcatProperties
<1>8. Len(d \o b) = Len(s) + 1
  BY <1>1, <1>3, <1>6, <1>7
<1>9. ASSUME NEW k \in 1 .. Len(s) + 1
      PROVE  (d \o b)[k] = IF k < i THEN s[k] ELSE IF k = i THEN e ELSE s[k - 1]
  BY <1>1, <1>3, <1>6, <1>7
<1>10. t = d \o b
  BY Zenon DEF Timing!InsertAt, a, b, c, d, t
<1> HIDE DEF t
<1>11. /\ t \in Seq(S) /\ Len(t) = Len(s) + 1
       /\ \A k \in 1 .. Len(s) + 1 : t[k] = IF k < i THEN s[k] ELSE IF k = i THEN e ELSE s[k - 1]
  BY <1>7, <1>8, <1>9, <1>10
<1> QED
  BY <1>11, Zenon DEF t

LEMMA TimingMovedIs ==
  ASSUME NEW S, NEW s \in Seq(S), NEW i \in 1 .. Len(s), NEW j \in 1 .. Len(s)
  PROVE  /\ Timing!Moved(s, i, j) \in Seq(S) /\ Len(Timing!Moved(s, i, j)) = Len(s)
             /\ Timing!Moved(s, i, j)[j] = s[i]
         /\ Timing!RemoveAt(Timing!Moved(s, i, j), j) = Timing!RemoveAt(s, i)
<1>0. PICK e \in S : e = s[i]
  BY ElementOfSeq
<1> DEFINE r == Timing!RemoveAt(s, i)
           m == Timing!InsertAt(r, j, e)
<1>1. Len(s) \in Nat /\ i \in Int /\ j \in Int /\ s[i] \in S
  BY ElementOfSeq, LenProperties
<1>2. r \in Seq(S) /\ Len(r) = Len(s) - 1
  BY RemovedAt
<1> HIDE DEF r
<1>3. Len(r) + 1 = Len(s)
  BY <1>1, <1>2
<1>3a. j \in 1 .. Len(r) + 1
  BY <1>3
<1>4. /\ m \in Seq(S) /\ Len(m) = Len(r) + 1
      /\ \A k \in 1 .. Len(r) + 1 : m[k] = IF k < j THEN r[k] ELSE IF k = j THEN e ELSE r[k - 1]
  <2>1. r \in Seq(S) /\ j \in 1 .. Len(r) + 1 /\ e \in S
    BY <1>2, <1>3a
  <2> QED
    BY <2>1, InsertedAt
<1> HIDE DEF m
<1>5. m[j] = s[i] /\ j \in 1 .. Len(m) /\ Len(m) = Len(s)
  BY <1>0, <1>1, <1>3, <1>4
<1> DEFINE q == Timing!RemoveAt(m, j)
<1>6. /\ q \in Seq(S) /\ Len(q) = Len(m) - 1
      /\ \A k \in 1 .. Len(m) - 1 : q[k] = IF k < j THEN m[k] ELSE m[k + 1]
  BY <1>4, <1>5, RemovedAt
<1> HIDE DEF q
<1>7. Len(q) = Len(r)
  BY <1>1, <1>2, <1>5, <1>6
<1>8. ASSUME NEW k \in 1 .. Len(q) PROVE q[k] = r[k]
  <2>1. k \in 1 .. Len(m) - 1 /\ k \in Int /\ k + 1 \in 1 .. Len(r) + 1 /\ k \in 1 .. Len(r) + 1
    BY <1>1, <1>2, <1>5, <1>7
  <2>2. CASE k < j
    BY <1>4, <1>6, <2>1, <2>2
  <2>3. CASE ~ (k < j)
    <3>1. ~ (k + 1 < j) /\ k + 1 # j /\ (k + 1) - 1 = k
      BY <1>1, <2>1, <2>3
    <3>2. m[k + 1] = r[k]
      BY <1>4, <2>1, <3>1
    <3> QED
      BY <1>6, <2>1, <2>3, <3>2
  <2> QED
    BY <2>2, <2>3
<1>9. q = r
  BY <1>2, <1>6, <1>7, <1>8, SeqEqual
<1> QED
  BY <1>0, <1>4, <1>5, <1>9 DEF m, r, q, Timing!Moved

LEMMA IdsAre ==
  ASSUME NEW s \in Seq(Item)
  PROVE  /\ Timing!IdsOf(s) \in Seq(Nat) /\ Len(Timing!IdsOf(s)) = Len(s)
         /\ \A k \in 1 .. Len(s) : Timing!IdsOf(s)[k] = s[k].id
<1>1. Len(s) \in Nat /\ DOMAIN s = 1 .. Len(s) /\ \A k \in 1 .. Len(s) : s[k] \in Item
  BY ElementOfSeq, LenProperties
<1>2. \A k \in 1 .. Len(s) : s[k].id \in Nat
  BY <1>1 DEF Item
<1> DEFINE ids == [k \in 1 .. Len(s) |-> s[k].id]
<1>3. ids \in [1 .. Len(s) -> Nat]
  BY <1>2
<1>4. Timing!IdsOf(s) = ids
  BY <1>1 DEF Timing!IdsOf
<1>5. ids \in Seq(Nat) /\ Len(ids) = Len(s)
  <2> HIDE DEF ids
  <2>1. PICK n \in Nat : n = Len(s)
    BY <1>1
  <2> QED
    BY <1>1, <1>3, SeqDef, LenProperties
<1> QED
  BY <1>4, <1>5

(* The ids after a move are those before, but for the one that was moved.  *)
LEMMA IdsMoved ==
  ASSUME NEW s \in Seq(Item), NEW i \in 1 .. Len(s), NEW j \in 1 .. Len(s)
  PROVE  LET o == Timing!IdsOf(Timing!Moved(s, i, j))
         IN o \in Seq(Nat) /\ Len(o) = Len(s) /\ o[j] = s[i].id
             /\ Timing!RemoveAt(o, j) = Timing!RemoveAt(Timing!IdsOf(s), i)
<1> DEFINE m == Timing!Moved(s, i, j)
           o == Timing!IdsOf(m)
           p == Timing!IdsOf(s)
<1>1. Len(s) \in Nat /\ i \in Int /\ j \in Int
  BY LenProperties
<1>2. m \in Seq(Item) /\ Len(m) = Len(s) /\ m[j] = s[i]
        /\ Timing!RemoveAt(m, j) = Timing!RemoveAt(s, i)
  BY TimingMovedIs
<1> HIDE DEF m
<1>3. /\ o \in Seq(Nat) /\ Len(o) = Len(m) /\ \A k \in 1 .. Len(m) : o[k] = m[k].id
      /\ p \in Seq(Nat) /\ Len(p) = Len(s) /\ \A k \in 1 .. Len(s) : p[k] = s[k].id
  BY <1>2, IdsAre
<1> HIDE DEF o, p
<1>4. o[j] = s[i].id
  BY <1>1, <1>2, <1>3
<1>5. /\ Timing!RemoveAt(o, j) \in Seq(Nat) /\ Len(Timing!RemoveAt(o, j)) = Len(o) - 1
      /\ \A k \in 1 .. Len(o) - 1 : Timing!RemoveAt(o, j)[k] = IF k < j THEN o[k] ELSE o[k + 1]
  BY <1>2, <1>3, RemovedAt
<1>6. /\ Timing!RemoveAt(p, i) \in Seq(Nat) /\ Len(Timing!RemoveAt(p, i)) = Len(p) - 1
      /\ \A k \in 1 .. Len(p) - 1 : Timing!RemoveAt(p, i)[k] = IF k < i THEN p[k] ELSE p[k + 1]
  BY <1>2, <1>3, RemovedAt
<1>7. \A k \in 1 .. Len(s) - 1 : Timing!RemoveAt(m, j)[k] = IF k < j THEN m[k] ELSE m[k + 1]
  BY <1>2, RemovedAt
<1>8. \A k \in 1 .. Len(s) - 1 : Timing!RemoveAt(s, i)[k] = IF k < i THEN s[k] ELSE s[k + 1]
  BY RemovedAt
<1>9. ASSUME NEW k \in 1 .. Len(s) - 1 PROVE Timing!RemoveAt(o, j)[k] = Timing!RemoveAt(p, i)[k]
  <2>1. k \in 1 .. Len(s) /\ k + 1 \in 1 .. Len(s)
    BY <1>1
  <2>2. Timing!RemoveAt(o, j)[k] = Timing!RemoveAt(m, j)[k].id
    BY <1>2, <1>3, <1>5, <1>7, <2>1
  <2>3. Timing!RemoveAt(p, i)[k] = Timing!RemoveAt(s, i)[k].id
    BY <1>3, <1>6, <1>8, <2>1
  <2> QED
    BY <1>2, <2>2, <2>3
<1>10. Timing!RemoveAt(o, j) = Timing!RemoveAt(p, i)
  <2>1. Len(Timing!RemoveAt(o, j)) = Len(Timing!RemoveAt(p, i))
          /\ Len(Timing!RemoveAt(o, j)) = Len(s) - 1
    BY <1>2, <1>3, <1>5, <1>6
  <2> QED
    BY <1>5, <1>6, <1>9, <2>1, SeqEqual
<1> QED
  BY <1>2, <1>3, <1>4, <1>10 DEF o, m, p

LEMMA Domains == ASSUME NEW s, Serverish(s)
  PROVE IsFiniteSet(DOMAIN s.rows) /\ Cardinality(DOMAIN s.rows) \in Nat
<1>1. 1 \in Int /\ s.last \in Int /\ DOMAIN s.rows \in SUBSET (1 .. s.last)
  BY DEF Serverish
<1>2. IsFiniteSet(1 .. s.last)
  BY <1>1, FS_Interval
<1> QED
  BY <1>1, <1>2, FS_Subset, FS_CardinalityType

\* Cardinality as the module of the schedules page has it is the one the library theorems speak of.
LEMMA TimingCount ==
  \A S : /\ Timing!Cardinality(S) = Cardinality(S)
         /\ Timing!IsFiniteSet(S) = IsFiniteSet(S)
BY DEF Timing!Cardinality, Timing!IsFiniteSet, Cardinality, IsFiniteSet

(* The list is in the order of the places.                                 *)
LEMMA ListedIs ==
  ASSUME NEW s, Serverish(s)
  PROVE  /\ Timing!Listed(s) \in Seq(Item)
         /\ \A o \in Seq(Nat) :
              /\ Len(o) = Cardinality(DOMAIN s.rows) /\ {o[k] : k \in DOMAIN o} = DOMAIN s.rows
              /\ \A k \in DOMAIN o : s.place[o[k]] = k - 1
              => Timing!IdsOf(Timing!Listed(s)) = o
<1> DEFINE D == DOMAIN s.rows
           n == Timing!Cardinality(D)
           place == s.place
           before(i, j) == place[i] < place[j] \/ (place[i] = place[j] /\ i < j)
           R == {p \in D \X D : place[p[1]] < place[p[2]]}
           Is(q) == \A k, l \in DOMAIN q : k < l => before(q[k], q[l])
           order == CHOOSE q \in [1 .. n -> D] : Is(q)
<1>1. /\ IsFiniteSet(D) /\ n \in Nat /\ D \subseteq Nat
      /\ s.rows \in [D -> Timing!Row] /\ place \in [D -> Nat]
      /\ \A i, j \in D : i # j => place[i] # place[j]
  BY Domains, TimingCount DEF Serverish
<1>2a. n = Cardinality(D)
  BY TimingCount
<1> HIDE DEF D, place, n
<1>2. \A i, j \in D : <<i, j>> \in R <=> place[i] < place[j]
  OBVIOUS
<1> HIDE DEF R
<1>3. PICK q \in [1 .. n -> D] : \A k, l \in 1 .. n : k < l => <<q[k], q[l]>> \in R
  <2>1. \A a, b \in D : a # b => <<a, b>> \in R \/ <<b, a>> \in R
    BY <1>1, <1>2
  <2>2. \A a, b, c \in D : <<a, b>> \in R /\ <<b, c>> \in R => <<a, c>> \in R
    BY <1>1, <1>2
  <2> QED
    BY <1>1, <1>2a, <2>1, <2>2, HasOrder
<1>4. Is(q)
  BY <1>2, <1>3
<1>5. order \in [1 .. n -> D] /\ Is(order)
  <2> HIDE DEF Is
  <2> QED
    BY <1>3, <1>4
<1>6. Timing!Listed(s) = [k \in DOMAIN order |-> [id |-> order[k], row |-> s.rows[order[k]]]]
  BY DEF Timing!Listed, D, place, n
<1> HIDE DEF order
<1>7. Timing!Listed(s) \in [1 .. n -> Item] /\ \A k \in 1 .. n : Timing!Listed(s)[k].id = order[k]
  <2>1. \A k \in 1 .. n : order[k] \in Nat /\ s.rows[order[k]] \in Timing!Row
    BY <1>1, <1>5
  <2>2. \A k \in 1 .. n : [id |-> order[k], row |-> s.rows[order[k]]] \in Item
    BY <2>1 DEF Item
  <2> HIDE DEF Is
  <2> QED
    BY <1>5, <1>6, <2>2
<1>8. Timing!Listed(s) \in Seq(Item)
  BY <1>1, <1>7, SeqDef
<1>9. ASSUME NEW o \in Seq(Nat), Len(o) = n, {o[k] : k \in DOMAIN o} = D,
             \A k \in DOMAIN o : place[o[k]] = k - 1
      PROVE  Timing!IdsOf(Timing!Listed(s)) = o
  <2>1. DOMAIN o = 1 .. n /\ \A k \in 1 .. n : o[k] \in D
    BY <1>9, LenProperties
  <2> DEFINE f == [k \in 1 .. n |-> place[order[k]]]
  <2>1a. /\ \A k \in 1 .. n : order[k] \in D /\ place[order[k]] \in Nat
         /\ \A k, l \in 1 .. n : k < l => before(order[k], order[l])
    BY <1>1, <1>5
  <2> HIDE DEF Is
  <2>2. f \in [1 .. n -> Int]
    BY <2>1a
  <2>3. ASSUME NEW k \in 1 .. n PROVE 0 <= f[k] /\ f[k] <= n - 1
    <3>0. order[k] \in {o[m] : m \in DOMAIN o}
      BY <1>9, <2>1a, Zenon
    <3>1. PICK m \in 1 .. n : order[k] = o[m]
      BY <2>1, <3>0
    <3>2. f[k] = m - 1
      BY <1>9, <2>1, <3>1
    <3> QED
      BY <1>1, <3>2
  <2>4. ASSUME NEW k \in 1 .. n, NEW l \in 1 .. n, k < l PROVE f[k] < f[l]
    <3>1. before(order[k], order[l]) /\ order[k] \in D /\ order[l] \in D
      BY <2>1a, <2>4
    <3>2. ~ (place[order[k]] = place[order[l]] /\ order[k] < order[l])
      <4> DEFINE a == order[k]
                 b == order[l]
      <4>1. a \in D /\ b \in D /\ a \in Nat /\ b \in Nat
        BY <1>1, <3>1
      <4> HIDE DEF a, b
      <4>2. a < b => a # b
        BY <4>1
      <4>3. a # b => place[a] # place[b]
        BY <1>1, <4>1
      <4> QED
        BY <4>2, <4>3 DEF a, b
    <3>3. f[k] = place[order[k]] /\ f[l] = place[order[l]] /\ f[k] \in Int /\ f[l] \in Int
      BY <2>2
    <3> DEFINE a == order[k]
               b == order[l]
    <3>4. place[a] < place[b] \/ (place[a] = place[b] /\ a < b)
      BY <3>1
    <3>5. f[k] = place[a] /\ f[l] = place[b] /\ ~ (place[a] = place[b] /\ a < b)
      BY <3>2, <3>3
    <3> HIDE DEF a, b, f, place
    <3>6. place[a] < place[b]
      BY <3>4, <3>5
    <3> QED
      BY <3>5, <3>6
  <2> HIDE DEF f
  <2>5. \A k \in 1 .. n : f[k] = k - 1
    BY <1>1, <2>2, <2>3, <2>4, Climbing
  <2>6. ASSUME NEW k \in 1 .. n PROVE order[k] = o[k]
    <3>0. order[k] \in {o[m] : m \in DOMAIN o}
      BY <1>9, <2>1a, Zenon
    <3>1. PICK m \in 1 .. n : order[k] = o[m]
      BY <2>1, <3>0
    <3>2. place[order[k]] = m - 1
      BY <1>9, <2>1, <3>1
    <3>3. place[order[k]] = k - 1
      BY <2>5 DEF f
    <3>4. m = k
      <4> DEFINE p == place[order[k]]
      <4>1. p = m - 1 /\ p = k - 1 /\ m \in Int /\ k \in Int
        BY <1>1, <3>2, <3>3
      <4> HIDE DEF p
      <4> QED
        BY <4>1
    <3> QED
      BY <3>1, <3>4
  <2>7. Len(Timing!Listed(s)) = n
    BY <1>1, <1>7, <1>8, LenProperties
  <2>8. /\ Timing!IdsOf(Timing!Listed(s)) \in Seq(Nat) /\ Len(Timing!IdsOf(Timing!Listed(s))) = n
        /\ \A k \in 1 .. n : Timing!IdsOf(Timing!Listed(s))[k] = o[k]
    BY <1>7, <1>8, <2>6, <2>7, IdsAre
  <2> QED
    BY <1>9, <2>8, SeqEqual
<1> QED
  BY <1>2a, <1>8, <1>9 DEF D, place

(***************************************************************************)
(* The server.                                                             *)
(***************************************************************************)
LEMMA NextPlaceIs ==
  ASSUME Serverish(server)
  PROVE  Timing!NextPlace \in Nat
         /\ \A i \in DOMAIN server.rows : server.place[i] < Timing!NextPlace
<1> DEFINE D == DOMAIN server.rows
           n == Cardinality(D)
           place == server.place
           P == {place[i] : i \in D}
           R == {p \in D \X D : place[p[1]] < place[p[2]]}
<1>1. /\ IsFiniteSet(D) /\ n \in Nat /\ place \in [D -> Nat]
      /\ \A i, j \in D : i # j => place[i] # place[j]
  BY Domains DEF Serverish
<1>2. Timing!NextPlace = IF D = {} THEN 0 ELSE 1 + Timing!Max(P)
  <2>1. DOMAIN server.place = D
    BY DEF Serverish
  <2> QED
    BY <2>1 DEF Timing!NextPlace
<1>3. n # 0 \/ D = {}
  BY <1>1, FS_EmptySet
<1> HIDE DEF D, place, n
<1>4. CASE D = {}
  BY <1>2, <1>4 DEF D
<1>5. CASE D # {}
  <2>1. \A i, j \in D : <<i, j>> \in R <=> place[i] < place[j]
    OBVIOUS
  <2> HIDE DEF R
  <2>2. \A a, b \in D : a # b => <<a, b>> \in R \/ <<b, a>> \in R
    BY <1>1, <2>1
  <2>3. \A a, b, c \in D : <<a, b>> \in R /\ <<b, c>> \in R => <<a, c>> \in R
    BY <1>1, <2>1
  <2>4. PICK q \in [1 .. n -> D] :
          /\ \A k, l \in 1 .. n : k < l => <<q[k], q[l]>> \in R
          /\ \A i \in D : \E k \in 1 .. n : q[k] = i
    <3>1. \E q \in [1 .. Cardinality(D) -> D] :
            /\ \A k, l \in 1 .. Cardinality(D) : k < l => <<q[k], q[l]>> \in R
            /\ \A i \in D : \E k \in 1 .. Cardinality(D) : q[k] = i
      <4>1. IsFiniteSet(D)
        BY <1>1
      <4> HIDE DEF P, R, D, n
      <4> QED
        BY <2>2, <2>3, <4>1, HasOrder
    <3> QED
      BY <3>1 DEF n
  <2>5. n \in 1 .. n /\ q[n] \in D
    BY <1>1, <1>3, <1>5, <2>4
  <2> DEFINE m == place[q[n]]
  <2>6. ASSUME NEW i \in D PROVE m >= place[i]
    <3>1. PICK k \in 1 .. n : q[k] = i
      BY <2>4
    <3>2. k = n \/ k < n
      BY <1>1
    <3>3. CASE k = n
      BY <1>1, <3>1, <3>3
    <3>4. CASE k < n
      <4>1. <<q[k], q[n]>> \in R /\ q[k] \in D /\ q[n] \in D
        BY <2>4, <2>5, <3>4
      <4>2. place[i] < m
        BY <2>1, <3>1, <4>1
      <4>3. place[i] \in Nat /\ m \in Nat
        BY <1>1, <2>5
      <4> HIDE DEF m
      <4> QED
        BY <4>2, <4>3
    <3> QED
      BY <3>2, <3>3, <3>4
  <2>7. m \in Nat /\ m \in P /\ \A y \in P : m >= y
    BY <1>1, <2>5, <2>6
  <2>8. Timing!Max(P) \in P /\ \A y \in P : Timing!Max(P) >= y
    <3> HIDE DEF m, P
    <3> QED
      BY <2>7 DEF Timing!Max
  <2>9. P \subseteq Nat /\ \A i \in D : place[i] \in P
    BY <1>1
  <2> HIDE DEF P
  <2>10. PICK top \in Nat : top = Timing!Max(P)
    BY <2>8, <2>9
  <2>11. Timing!NextPlace = 1 + top
    BY <1>2, <1>5, <2>10
  <2>12. \A i \in D : place[i] \in Nat /\ top >= place[i]
    BY <2>8, <2>9, <2>10
  <2>13. \A i \in D : place[i] < 1 + top
    BY <2>12
  <2> QED
    BY <2>11, <2>13 DEF D, place
<1> QED
  BY <1>4, <1>5

LEMMA TimingCreatedIs ==
  ASSUME Serverish(server), NEW row \in Timing!Row
  PROVE  /\ Serverish(Timing!Created(row)) /\ server.last + 1 \in DOMAIN Timing!Created(row).rows
         /\ Timing!Created(row).rows[server.last + 1] = row
<1> DEFINE D == DOMAIN server.rows
           i == server.last + 1
           rows == Timing!Added(server.rows, i, row)
           place == Timing!Added(server.place, i, Timing!NextPlace)
<1>1. /\ server \in [rows : [D -> Timing!Row], place : [D -> Nat], last : Nat,
                     visible : SUBSET Systems, channels : SUBSET Channels]
      /\ D \subseteq 1 .. server.last
      /\ \A j, k \in D : j # k => server.place[j] # server.place[k]
  BY DEF Serverish
<1>2. Timing!NextPlace \in Nat /\ \A j \in D : server.place[j] < Timing!NextPlace
  BY NextPlaceIs
<1> HIDE DEF D
<1>3. i \notin D /\ i \in Nat /\ D \cup {i} \subseteq 1 .. i
  <2>1. PICK last \in Nat : last = server.last
    BY <1>1
  <2>2. \A j \in D : j \in 1 .. last
    BY <1>1, <2>1
  <2>3. i = last + 1
    BY <2>1
  <2> HIDE DEF i
  <2>4. \A j \in D : j # i /\ j \in 1 .. i
    BY <2>2, <2>3
  <2> QED
    BY <2>3, <2>4
<1> HIDE DEF i
<1>4. rows \in [D \cup {i} -> Timing!Row] /\ rows[i] = row
  BY <1>1 DEF Timing!Added, D
<1>5. place \in [D \cup {i} -> Nat] /\ place[i] = Timing!NextPlace
        /\ \A j \in D : place[j] = server.place[j]
  BY <1>1, <1>2, <1>3 DEF Timing!Added, D
<1>6. Timing!Created(row) = [server EXCEPT !.last = i, !.rows = rows, !.place = place]
  BY DEF Timing!Created, i
<1> HIDE DEF rows, place
<1>7. /\ Timing!Created(row) \in [rows : [D \cup {i} -> Timing!Row], place : [D \cup {i} -> Nat],
                                  last : Nat,
                                  visible : SUBSET Systems, channels : SUBSET Channels]
      /\ Timing!Created(row).rows = rows /\ Timing!Created(row).place = place
         /\ Timing!Created(row).last = i
  BY <1>1, <1>3, <1>4, <1>5, <1>6
<1>8. \A j, k \in D \cup {i} : j # k => place[j] # place[k]
  <2>1. \A j \in D : place[j] # place[i] /\ place[j] \in Nat /\ place[i] \in Nat
    BY <1>1, <1>2, <1>5
  <2> QED
    BY <1>1, <1>5, <2>1
<1> QED
  BY <1>3, <1>4, <1>7, <1>8 DEF Serverish, i

LEMMA DeletedIs ==
  ASSUME Serverish(server), NEW i \in DOMAIN server.rows
  PROVE  Serverish(Timing!Deleted(i)) /\ i \notin DOMAIN Timing!Deleted(i).rows
<1> DEFINE D == DOMAIN server.rows
           rows == [j \in D \ {i} |-> server.rows[j]]
           place == [j \in D \ {i} |-> server.place[j]]
<1>1. /\ server \in [rows : [D -> Timing!Row], place : [D -> Nat], last : Nat,
                     visible : SUBSET Systems, channels : SUBSET Channels]
      /\ D \subseteq 1 .. server.last
      /\ \A j, k \in D : j # k => server.place[j] # server.place[k]
  BY DEF Serverish
<1>2. Timing!Deleted(i) = [server EXCEPT !.rows = rows, !.place = place]
  BY <1>1 DEF Timing!Deleted
<1>3. rows \in [D \ {i} -> Timing!Row] /\ place \in [D \ {i} -> Nat]
        /\ \A j \in D \ {i} : place[j] = server.place[j]
  BY <1>1
<1> HIDE DEF rows, place, D
<1>4. /\ Timing!Deleted(i) \in [rows : [D \ {i} -> Timing!Row], place : [D \ {i} -> Nat],
                                last : Nat,
                                visible : SUBSET Systems, channels : SUBSET Channels]
      /\ Timing!Deleted(i).rows = rows /\ Timing!Deleted(i).place = place
         /\ Timing!Deleted(i).last = server.last
  BY <1>1, <1>2, <1>3
<1> QED
  BY <1>1, <1>3, <1>4 DEF Serverish

(* Each schedule that is named gets the place it has among them.           *)
LEMMA ReorderedIs ==
  ASSUME Serverish(server), NEW order \in Seq(Nat), Timing!Covers(order)
  PROVE  /\ Serverish(Timing!Reordered(order)) /\ Timing!Reordered(order).rows = server.rows
         /\ \A k \in DOMAIN order : Timing!Reordered(order).place[order[k]] = k - 1
<1> DEFINE D == DOMAIN server.rows
           n == Len(order)
           at(i) == {k \in DOMAIN order : order[k] = i}
           place == [i \in D |-> IF at(i) = {} THEN server.place[i]
                                 ELSE CHOOSE p \in 0 .. n : p + 1 \in at(i)]
<1>1. /\ server \in [rows : [D -> Timing!Row], place : [D -> Nat], last : Nat,
                     visible : SUBSET Systems, channels : SUBSET Channels]
      /\ D \subseteq 1 .. server.last
  BY DEF Serverish
<1>2. Timing!Reordered(order) = [server EXCEPT !.place = place]
  BY <1>1 DEF Timing!Reordered
<1>3. DOMAIN order = 1 .. n /\ n \in Nat /\ n = Cardinality(D)
        /\ {order[k] : k \in DOMAIN order} = D
  BY LenProperties, TimingCount DEF Timing!Covers
<1>4. IsFiniteSet(D) /\ IsFiniteSet(1 .. n) /\ Cardinality(1 .. n) = n
  BY <1>3, Domains, FS_Interval
<1> HIDE DEF D
<1>5. order \in Surjection(1 .. n, D)
  <2>1. order \in [1 .. n -> D]
    BY <1>3, LenProperties
  <2>2. \A i \in D : \E k \in 1 .. n : order[k] = i
    BY <1>3
  <2> QED
    BY <2>1, <2>2 DEF Surjection
<1>6. order \in Injection(1 .. n, D)
  BY <1>3, <1>4, <1>5, FS_SurjSameCardinalityImpliesInj
<1>7. \A k, l \in 1 .. n : order[k] = order[l] => k = l
  BY <1>6 DEF Injection, IsInjective
<1>8. ASSUME NEW i \in D PROVE place[i] \in 0 .. n - 1 /\ order[place[i] + 1] = i
  <2>1. PICK k \in 1 .. n : order[k] = i
    BY <1>5 DEF Surjection
  <2>2. k \in at(i) /\ k - 1 \in 0 .. n /\ (k - 1) + 1 = k
    BY <1>3, <2>1
  <2>3. place[i] \in 0 .. n /\ place[i] + 1 \in at(i)
    BY <2>2
  <2> QED
    BY <1>3, <2>3
<1>9. place \in [D -> Nat]
  <2>1. DOMAIN place = D /\ place = [i \in D |-> place[i]] /\ \A i \in D : place[i] \in Nat
    BY <1>3, <1>8
  <2> HIDE DEF place
  <2> QED
    BY <2>1
<1> HIDE DEF place, at
<1>10. \A i, j \in D : i # j => place[i] # place[j]
  BY <1>8
<1>11. ASSUME NEW k \in 1 .. n PROVE place[order[k]] = k - 1
  <2>1. order[k] \in D
    BY <1>5 DEF Surjection
  <2>2. place[order[k]] + 1 \in 1 .. n /\ order[place[order[k]] + 1] = order[k]
    BY <1>3, <1>8, <2>1
  <2>3. place[order[k]] + 1 = k
    BY <1>7, <2>2
  <2> QED
    BY <1>8, <2>1, <2>3
<1>12. /\ Timing!Reordered(order) \in [rows : [D -> Timing!Row], place : [D -> Nat], last : Nat,
                                       visible : SUBSET Systems, channels : SUBSET Channels]
       /\ Timing!Reordered(order).rows = server.rows /\ Timing!Reordered(order).place = place
       /\ Timing!Reordered(order).last = server.last
  BY <1>1, <1>2, <1>9
<1> QED
  BY <1>1, <1>3, <1>10, <1>11, <1>12 DEF Serverish, D

(***************************************************************************)
(* Forms and requests.                                                     *)
(***************************************************************************)
LEMMA TimingNormalIs ==
  ASSUME NEW ask, TimingSaveish(ask), Timing!Valid(ask.row)
  PROVE  Timing!Normal(ask.row) \in Timing!Row
<1> DEFINE f == ask.form
           row == ask.row
           systems == IF f.type = "digest" \/ f.all THEN None ELSE f.systems
           channels == IF f.type = "digest" THEN f.channels ELSE {}
<1>1. /\ f.type \in Types /\ f.enabled \in BOOLEAN /\ f.systems \in SUBSET Systems
      /\ f.channels \in SUBSET Channels
  BY DEF TimingSaveish, TimingFormish
<1>2. row \in [type : {f.type}, enabled : {f.enabled}, name : {row.name}, cron : {row.cron},
               hours : 0 .. 168, systems : {systems}, channels : {channels}]
  BY DEF TimingSaveish
<1>3. row.name \in {"fit", "full"} /\ row.cron \in Timing!Crons
  BY DEF Timing!Valid
<1> HIDE DEF f, row
<1>4. systems \in (SUBSET Systems) \cup {None} /\ channels \in SUBSET Channels
  <2>1. systems = None \/ systems = f.systems
    OBVIOUS
  <2>2. channels = f.channels \/ channels = {}
    OBVIOUS
  <2> HIDE DEF systems, channels
  <2> QED
    BY <1>1, <2>1, <2>2
<1> HIDE DEF systems, channels
<1>5. row \in Timing!Row
  BY <1>1, <1>2, <1>3, <1>4 DEF Timing!Row, Types
<1>6. PICK s \in (SUBSET Systems) \cup {None} : s = IF row.type = "digest" THEN None
        ELSE row.systems
  <2>1. row.systems \in (SUBSET Systems) \cup {None} /\ None \in (SUBSET Systems) \cup {None}
    BY <1>5 DEF Timing!Row
  <2> QED
    BY <2>1, Zenon
<1>7. PICK c \in SUBSET Channels : c = IF row.type = "digest" THEN row.channels ELSE {}
  BY <1>5 DEF Timing!Row
<1>8. PICK h \in 0 .. 168 : h = IF row.type = "refresh" THEN row.hours ELSE 12
  BY <1>5 DEF Timing!Row
<1>9. Timing!Normal(row) = [row EXCEPT !.systems = s, !.channels = c, !.hours = h]
  BY <1>6, <1>7, <1>8 DEF Timing!Normal
<1> QED
  BY <1>5, <1>9 DEF Timing!Row, row

LEMMA TimingBuiltIs ==
  ASSUME form # None, TimingFormish(form), NEW id, NEW visible, NEW listed
  PROVE  TimingSaveish([what |-> "save", id |-> id, row |-> Timing!Built, form |-> form,
                  visible |-> visible, listed |-> listed])
<1> DEFINE ask == [what |-> "save", id |-> id, row |-> Timing!Built, form |-> form,
                   visible |-> visible, listed |-> listed]
           systems == IF form.type = "digest" \/ form.all THEN None ELSE form.systems
           channels == IF form.type = "digest" THEN form.channels ELSE {}
<1>1. PICK h \in 0 .. 168 : h = IF form.type = "refresh" THEN Timing!Bounded(form.hours) ELSE 12
  <2>1. form.hours = None \/ form.hours \in Int
    BY DEF TimingFormish
  <2>2. Timing!Bounded(form.hours) \in 0 .. 168
    BY <2>1 DEF Timing!Bounded
  <2> QED
    BY <2>2
<1>2. Timing!Built = [type |-> form.type, enabled |-> form.enabled, name |-> form.name,
                      cron |-> Timing!Active,
                      hours |-> h, systems |-> systems, channels |-> channels]
  BY <1>1 DEF Timing!Built
<1> HIDE DEF systems, channels
<1>3. /\ ask.what = "save" /\ ask.row = Timing!Built /\ ask.form = form
      /\ ask \in [what : {"save"}, id : {ask.id}, row : {ask.row}, form : {ask.form},
                  visible : {ask.visible}, listed : {ask.listed}]
  OBVIOUS
<1>4. Timing!Built \in [type : {form.type}, enabled : {form.enabled}, name : {Timing!Built.name},
                        cron : {Timing!Built.cron},
                        hours : 0 .. 168, systems : {systems}, channels : {channels}]
  BY <1>2
<1> HIDE DEF ask
<1>5. TimingSaveish(ask)
  BY <1>3, <1>4 DEF TimingSaveish, systems, channels
<1> QED
  BY <1>5 DEF ask

LEMMA RequestsOf ==
  ASSUME NEW S, NEW w \in Seq(S), \A r \in S : TimingRequestish(r)
  PROVE  Requestsish(w)
<1>1. Len(w) \in Nat /\ DOMAIN w = 1 .. Len(w) /\ w \in [1 .. Len(w) -> S]
  BY LenProperties
<1> DEFINE T == {w[k] : k \in DOMAIN w}
<1>2. w \in [1 .. Len(w) -> T]
  BY <1>1
<1>3. w \in Seq(T)
  BY <1>1, <1>2, SeqDef
<1>4. \A k \in DOMAIN w : TimingRequestish(w[k])
  BY <1>1
<1> QED
  BY <1>3, <1>4 DEF Requestsish

LEMMA TimingSentIs ==
  ASSUME Requestsish(wire), NEW hook, NEW ask, Timing!Send(hook, ask),
         TimingRequestish([hook |-> hook, ask |-> ask, latest |-> TRUE, answer |-> "none"])
  PROVE  Requestsish(wire')
<1> DEFINE r == [hook |-> hook, ask |-> ask, latest |-> TRUE, answer |-> "none"]
           old(k) == [wire[k] EXCEPT !.latest = wire[k].latest /\ wire[k].hook # hook]
           m == [k \in DOMAIN wire |-> old(k)]
           S == {old(k) : k \in DOMAIN wire} \cup {r}
<1>1. \A k \in DOMAIN wire : TimingRequestish(wire[k])
  BY DEF Requestsish
<1>2. Len(wire) \in Nat /\ DOMAIN wire = 1 .. Len(wire)
  BY LenProperties DEF Requestsish
<1>3. wire' = Append(m, r)
  BY DEF Timing!Send
<1>4. ASSUME NEW k \in DOMAIN wire PROVE TimingRequestish(old(k))
  <2> DEFINE q == wire[k]
  <2>1. TimingRequestish(q)
    BY <1>1
  <2>2. PICK b \in BOOLEAN : b = (q.latest /\ q.hook # hook)
    BY <2>1 DEF TimingRequestish
  <2>3. old(k) = [q EXCEPT !.latest = b]
    BY <2>2
  <2> DEFINE it == [q EXCEPT !.latest = b]
  <2> HIDE DEF q, old
  <2>4. /\ it \in [hook : {"create", "update", "delete", "reorder"}, ask : {it.ask},
                   latest : BOOLEAN,
                 answer : {"none", "ok", "error"}]
        /\ it.hook = q.hook /\ it.ask = q.ask
    BY <2>1 DEF TimingRequestish
  <2> HIDE DEF it
  <2>5. TimingRequestish(it)
    BY <2>1, <2>4 DEF TimingRequestish
  <2> QED
    BY <2>3, <2>5 DEF it
<1>5. m \in [1 .. Len(wire) -> S]
  BY <1>2
<1>6. \A it \in S : TimingRequestish(it)
  <2> HIDE DEF old
  <2> QED
    BY <1>4
<1> HIDE DEF S, m, old
<1>7. m \in Seq(S) /\ r \in S
  BY <1>2, <1>5, SeqDef DEF S
<1>8. wire' \in Seq(S)
  <2> HIDE DEF r
  <2> QED
    BY <1>3, <1>7, AppendProperties
<1> QED
  BY <1>6, <1>8, RequestsOf

LEMMA TimingAnsweredIs ==
  ASSUME Requestsish(wire), NEW k \in DOMAIN wire
  PROVE  TimingRequestish(wire[k]) /\ Requestsish(Timing!RemoveAt(wire, k))
<1> DEFINE S == {wire[i] : i \in DOMAIN wire}
<1>1. wire \in Seq(S) /\ \A r \in S : TimingRequestish(r)
  BY DEF Requestsish
<1>2. k \in 1 .. Len(wire) /\ TimingRequestish(wire[k])
  BY <1>1, LenProperties
<1> HIDE DEF S
<1>3. Timing!RemoveAt(wire, k) \in Seq(S)
  BY <1>1, <1>2, RemovedAt
<1> QED
  BY <1>1, <1>2, <1>3, RequestsOf

LEMMA ServedIs ==
  ASSUME Requestsish(wire), NEW k \in DOMAIN wire, NEW a \in {"ok", "error"}
  PROVE  Requestsish([wire EXCEPT ![k].answer = a])
<1> DEFINE S == {wire[i] : i \in DOMAIN wire}
           r == [wire[k] EXCEPT !.answer = a]
           w == [wire EXCEPT ![k] = r]
<1>1. wire \in Seq(S) /\ \A q \in S : TimingRequestish(q)
  BY DEF Requestsish
<1>2. k \in 1 .. Len(wire) /\ TimingRequestish(wire[k])
  BY <1>1, LenProperties
<1>3. TimingRequestish(r)
  BY <1>2 DEF TimingRequestish
<1>4. [wire EXCEPT ![k].answer = a] = w
  OBVIOUS
<1> HIDE DEF S, r
<1>5. wire \in Seq(S \cup {r}) /\ r \in S \cup {r} /\ \A q \in S \cup {r} : TimingRequestish(q)
  BY <1>1, <1>3, SeqMonotonic
<1>6. w \in Seq(S \cup {r})
  BY <1>2, <1>5, ExceptSeq
<1> HIDE DEF w
<1>7. Requestsish(w)
  BY <1>5, <1>6, RequestsOf
<1> QED
  BY <1>4, <1>7

(***************************************************************************)
(* What is stored is as it was asked.                                      *)
(***************************************************************************)
LEMMA StoredAsShown ==
  ASSUME Timing!SchedulePageAssumption, NEW t, TimingSaveish(t), NEW row, row = Timing!Normal(t.row)
  PROVE  /\ row.type = t.form.type /\ row.enabled = t.form.enabled
         /\ row.type = "digest" => row.channels = t.form.channels
         /\ Timing!SystemsAsShown(row, t)
<1> DEFINE f == t.form
           systems == IF f.type = "digest" \/ f.all THEN None ELSE f.systems
           channels == IF f.type = "digest" THEN f.channels ELSE {}
           old == t.row
<1>1. /\ old \in [type : {f.type}, enabled : {f.enabled}, name : {old.name}, cron : {old.cron},
                  hours : 0 .. 168, systems : {systems}, channels : {channels}]
      /\ f.systems \in SUBSET Systems /\ f.systems \ f.seen = Before(f) \ f.seen
  BY DEF TimingSaveish, TimingFormish
<1>2. row.type = f.type /\ row.enabled = f.enabled
  BY <1>1 DEF Timing!Normal
<1>3. row.systems = IF f.type = "digest" THEN None ELSE old.systems
  BY <1>1 DEF Timing!Normal
<1>4. f.type = "digest" => row.channels = f.channels
  BY <1>1 DEF Timing!Normal
<1>5. Timing!SystemsAsShown(row, t)
  <2>1. CASE f.type = "digest" \/ f.all
    <3>1. row.systems = None
      BY <1>1, <1>3, <2>1
    <3> QED
      BY <2>1, <3>1 DEF Timing!SystemsAsShown
  <2>2. CASE ~ (f.type = "digest" \/ f.all)
    <3>1. row.systems = f.systems
      BY <1>1, <1>3, <2>2
    <3>2. row.systems # None
      BY <1>1, <3>1 DEF Timing!SchedulePageAssumption
    <3> HIDE DEF f
    <3> QED
      BY <1>1, <2>2, <3>1, <3>2 DEF Timing!SystemsAsShown, Before, f
  <2> QED
    BY <2>1, <2>2
<1> QED
  BY <1>2, <1>4, <1>5

LEMMA TimingHolds == ASSUME Timing!SchedulePageAssumption PROVE TimingInv
      => Timing!SchedulePageSound
<1> SUFFICES ASSUME TimingInv PROVE Timing!SchedulePageSound
  OBVIOUS
<1>1. Serverish(server)
  BY DEF TimingInv, PageTyped
<1>2. Timing!PlacesDiffer
  BY <1>1 DEF Timing!PlacesDiffer, Serverish
<1>3. ASSUME told # None PROVE Timing!StoredAsAsked
  <2>1. ToldIsSo(told, server)
    BY <1>3 DEF TimingInv
  <2>2. CASE TimingSaveish(told) /\ told.id \in DOMAIN server.rows
          /\ server.rows[told.id] = Timing!Normal(told.row)
    <3> DEFINE row == server.rows[told.id]
    <3>1. told.what = "save"
      BY <2>2 DEF TimingSaveish
    <3>2. row = Timing!Normal(told.row)
      BY <2>2
    <3> HIDE DEF row
    <3>3. /\ row.type = told.form.type /\ row.enabled = told.form.enabled
          /\ row.type = "digest" => row.channels = told.form.channels
          /\ Timing!SystemsAsShown(row, told)
      BY <2>2, <3>2, StoredAsShown
    <3> QED
      BY <3>1, <3>3 DEF Timing!StoredAsAsked, row
  <2>3. CASE TimingToggleish(told) /\ told.id \in DOMAIN server.rows
          /\ server.rows[told.id].enabled = told.enabled
    BY <2>3 DEF Timing!StoredAsAsked, TimingToggleish
  <2>4. CASE Deleteish(told) /\ told.id \notin DOMAIN server.rows
    BY <2>4 DEF Timing!StoredAsAsked, Deleteish
  <2>5. CASE /\ Orderish(told) /\ Len(told.order) = Cardinality(DOMAIN server.rows)
             /\ {told.order[k] : k \in DOMAIN told.order} = DOMAIN server.rows
             /\ \A k \in DOMAIN told.order : server.place[told.order[k]] = k - 1
    <3> DEFINE before == told.previous
               i == told.from
               j == told.to
               o == told.order
               items == Timing!IdsOf(Timing!Listed(server))
    <3>1. told.what = "order" /\ before \in Seq(Item) /\ i \in DOMAIN before /\ j \in DOMAIN before
          /\ o = Timing!IdsOf(Timing!Moved(before, i, j))
      BY <2>5 DEF Orderish
    <3> HIDE DEF before, i, j, o
    <3>2. i \in 1 .. Len(before) /\ j \in 1 .. Len(before)
      BY <3>1, LenProperties
    <3>3. /\ o \in Seq(Nat) /\ o[j] = before[i].id
          /\ Timing!RemoveAt(o, j) = Timing!RemoveAt(Timing!IdsOf(before), i)
      BY <3>1, <3>2, IdsMoved
    <3>4. items = o
      BY <1>1, <2>5, <3>3, ListedIs DEF o
    <3> HIDE DEF items
    <3>5. items[j] = before[i].id
            /\ Timing!RemoveAt(items, j) = Timing!RemoveAt(Timing!IdsOf(before), i)
      BY <3>3, <3>4
    <3> QED
      BY <3>1, <3>5 DEF Timing!StoredAsAsked, items, before, i, j
  <2> QED
    BY <2>1, <2>2, <2>3, <2>4, <2>5 DEF ToldIsSo
<1> QED
  BY <1>2, <1>3 DEF Timing!SchedulePageSound, Timing!StoredAsAsked

(***************************************************************************)
(* The page.                                                               *)
(***************************************************************************)
LEMMA Unserved ==
  ASSUME TimingInv, PageTyped', server' = server, told' = told PROVE TimingInv'
BY DEF TimingInv

LEMMA OpenedIs ==
  ASSUME NEW mode \in {"new", "edit", "copy"}, NEW id, NEW row, row \in Timing!Row
         \/ row = Timing!New,
         data.visible \subseteq Systems
  PROVE  TimingFormish(Timing!Opened(mode, id, row))
         /\ Timing!Opened(mode, id, row).seen = data.visible
<1> DEFINE f == Timing!Opened(mode, id, row)
           systems == IF row.systems = None THEN {} ELSE row.systems
<1>1. /\ row.type \in Types /\ row.enabled \in BOOLEAN /\ row.hours \in Int
      /\ row.channels \in SUBSET Channels /\ systems \in SUBSET Systems
  <2>1. CASE row = Timing!New
    BY <2>1 DEF Timing!New, Types
  <2>2. CASE row \in Timing!Row
    BY <2>2 DEF Timing!Row, Types
  <2> QED
    BY <2>1, <2>2
<1> HIDE DEF systems
<1>2. /\ f \in [mode : {"new", "edit", "copy"}, id : {f.id}, before : {f.before}, type : Types,
                enabled : BOOLEAN, name : {f.name}, choice : {f.choice}, custom : {f.custom},
                hours : Int \cup {None}, all : BOOLEAN, systems : SUBSET Systems,
                channels : SUBSET Channels, seen : SUBSET Systems]
      /\ f.before = row /\ f.systems = systems /\ f.seen = data.visible
  <2>1. PICK all \in BOOLEAN : all = (row.systems = None)
    OBVIOUS
  <2>2. PICK name, choice, custom :
          f = [mode |-> mode, id |-> id, before |-> row, type |-> row.type, enabled |-> row.enabled,
               name |-> name, choice |-> choice, custom |-> custom, hours |-> row.hours,
                   all |-> all,
               systems |-> systems, channels |-> row.channels, seen |-> data.visible]
    BY <2>1, Zenon DEF Timing!Opened, systems
  <2> HIDE DEF f
  <2> QED
    BY <1>1, <2>2
<1> HIDE DEF f
<1>3. TimingFormish(f)
  BY <1>2 DEF TimingFormish, Before, systems
<1> QED
  BY <1>2, <1>3 DEF f

LEMMA TimingKeptIs ==
  ASSUME NEW f, f # None => TimingFormish(f), NEW read, read.visible \subseteq Systems,
         Timing!Kept(f, read) # None
  PROVE  TimingFormish(Timing!Kept(f, read)) /\ read.visible \subseteq Timing!Kept(f, read).seen
<1>1. f # None /\ Timing!Kept(f, read) = [f EXCEPT !.seen = f.seen \cup read.visible]
  BY DEF Timing!Kept
<1>2. PICK seen \in SUBSET Systems : seen = f.seen \cup read.visible
  BY <1>1 DEF TimingFormish
<1> DEFINE g == [f EXCEPT !.seen = seen]
<1>3. /\ g \in [mode : {"new", "edit", "copy"}, id : {g.id}, before : {g.before}, type : Types,
                enabled : BOOLEAN, name : {g.name}, choice : {g.choice}, custom : {g.custom},
                hours : Int \cup {None}, all : BOOLEAN, systems : SUBSET Systems,
                channels : SUBSET Channels, seen : SUBSET Systems]
      /\ g.systems = f.systems /\ g.before = f.before /\ g.seen = seen
  BY <1>1 DEF TimingFormish
<1> HIDE DEF g
<1>4. TimingFormish(g)
  <2>1. f.systems \ f.seen = Before(f) \ f.seen /\ Before(g) = Before(f)
    BY <1>1, <1>3 DEF TimingFormish, Before
  <2>2. g.systems \ g.seen = Before(g) \ g.seen
    BY <1>2, <1>3, <2>1
  <2> QED
    BY <1>3, <2>2 DEF TimingFormish
<1> QED
  BY <1>1, <1>2, <1>3, <1>4 DEF g

LEMMA EditedIs ==
  ASSUME form # None, TimingFormish(form), data.channels \subseteq Channels,
         data.visible \subseteq form.seen, Timing!InForm
  PROVE  /\ TimingFormish(form') /\ form'.seen = form.seen
         /\ UNCHANGED <<server, data, list, armed, dialog, wire, told>>
<1> DEFINE f == form
<1>0. /\ f \in [mode : {"new", "edit", "copy"}, id : {f.id}, before : {f.before}, type : Types,
                enabled : BOOLEAN, name : {f.name}, choice : {f.choice}, custom : {f.custom},
                hours : Int \cup {None}, all : BOOLEAN, systems : SUBSET Systems,
                channels : SUBSET Channels, seen : SUBSET Systems]
      /\ f.systems \ f.seen = Before(f) \ f.seen
  BY DEF TimingFormish
<1>1. ASSUME NEW g, NEW kind, Timing!Edit(kind, g),
             \/ \E n : g = [f EXCEPT !.name = n]
             \/ \E n \in Types : g = [f EXCEPT !.type = n]
             \/ \E n \in BOOLEAN : g = [f EXCEPT !.enabled = n]
             \/ \E n \in BOOLEAN : g = [f EXCEPT !.all = n]
             \/ \E n : g = [f EXCEPT !.choice = n]
             \/ \E n : g = [f EXCEPT !.custom = n]
             \/ \E n \in Int \cup {None} : g = [f EXCEPT !.hours = n]
             \/ \E n \in SUBSET Channels : g = [f EXCEPT !.channels = n]
             \/ \E n \in SUBSET Systems : g = [f EXCEPT !.systems = n]
                /\ n \ f.seen = f.systems \ f.seen
      PROVE  /\ TimingFormish(form') /\ form'.seen = form.seen
             /\ UNCHANGED <<server, data, list, armed, dialog, wire, told>>
  <2>1. /\ g \in [mode : {"new", "edit", "copy"}, id : {g.id}, before : {g.before}, type : Types,
                  enabled : BOOLEAN, name : {g.name}, choice : {g.choice}, custom : {g.custom},
                  hours : Int \cup {None}, all : BOOLEAN, systems : SUBSET Systems,
                  channels : SUBSET Channels, seen : SUBSET Systems]
        /\ g.before = f.before /\ g.seen = f.seen /\ g.systems \ f.seen = f.systems \ f.seen
    <3> HIDE DEF f
    <3>1. CASE \E n : g = [f EXCEPT !.name = n]
      BY <1>0, <3>1
    <3>2. CASE \E n \in Types : g = [f EXCEPT !.type = n]
      BY <1>0, <3>2
    <3>3. CASE \E n \in BOOLEAN : g = [f EXCEPT !.enabled = n]
      BY <1>0, <3>3
    <3>4. CASE \E n \in BOOLEAN : g = [f EXCEPT !.all = n]
      BY <1>0, <3>4
    <3>5. CASE \E n : g = [f EXCEPT !.choice = n]
      BY <1>0, <3>5
    <3>6. CASE \E n : g = [f EXCEPT !.custom = n]
      BY <1>0, <3>6
    <3>7. CASE \E n \in Int \cup {None} : g = [f EXCEPT !.hours = n]
      BY <1>0, <3>7
    <3>8. CASE \E n \in SUBSET Channels : g = [f EXCEPT !.channels = n]
      BY <1>0, <3>8
    <3>9. CASE \E n \in SUBSET Systems : g = [f EXCEPT !.systems = n]
            /\ n \ f.seen = f.systems \ f.seen
      BY <1>0, <3>9
    <3> QED
      BY <1>1, <3>1, <3>2, <3>3, <3>4, <3>5, <3>6, <3>7, <3>8, <3>9 DEF f
  <2>2. TimingFormish(g)
    BY <1>0, <2>1 DEF TimingFormish, Before
  <2> QED
    BY <1>1, <2>1, <2>2 DEF Timing!Edit
<1>2. CASE Timing!EditName \/ Timing!GenerateName
  BY <1>1, <1>2 DEF Timing!EditName, Timing!GenerateName
<1>3. CASE Timing!ChooseType
  BY <1>1, <1>3 DEF Timing!ChooseType, Types
<1>4. CASE Timing!Enable
  <2>1. PICK n \in BOOLEAN : n = ~ form.enabled
    BY <1>0
  <2>2. Timing!Edit("enabled", [f EXCEPT !.enabled = n])
    BY <1>4, <2>1 DEF Timing!Enable
  <2> QED
    BY <1>1, <2>2
<1>5. CASE Timing!ChooseScope
  <2>1. PICK n \in BOOLEAN : n = ~ form.all
    BY <1>0
  <2>2. Timing!Edit("systems", [f EXCEPT !.all = n])
    BY <1>5, <2>1 DEF Timing!ChooseScope
  <2> QED
    BY <1>1, <2>2
<1>6. CASE Timing!EditCron
  <2>1. CASE Timing!Edit("cron",
                         [form EXCEPT !.choice = IF form.choice = "preset" THEN "custom" ELSE "preset"])
    <3>1. PICK n : n = IF form.choice = "preset" THEN "custom" ELSE "preset"
      OBVIOUS
    <3>2. Timing!Edit("cron", [f EXCEPT !.choice = n])
      BY <2>1, <3>1
    <3> QED
      BY <1>1, <3>2
  <2>2. CASE \E c \in {"own", "frequent", "invalid", None} : Timing!Edit("cron",
                                                                         [form EXCEPT !.custom = c])
    BY <1>1, <2>2
  <2> QED
    BY <1>6, <2>1, <2>2 DEF Timing!EditCron
<1>7. CASE Timing!EditHours
  <2>1. PICK h \in {None, -1, 0, 200} : Timing!Edit("hours", [f EXCEPT !.hours = h])
    BY <1>7 DEF Timing!EditHours
  <2>2. h \in Int \cup {None}
    OBVIOUS
  <2> QED
    BY <1>1, <2>1, <2>2
<1>8. CASE \E c \in Channels : Timing!ToggleChannel(c)
  <2>1. PICK c \in Channels : Timing!ToggleChannel(c)
    BY <1>8
  <2>2. PICK n \in SUBSET Channels : n = Timing!Toggled(form.channels, c)
    BY <1>0 DEF Timing!Toggled
  <2>3. Timing!Edit("channels", [f EXCEPT !.channels = n])
    BY <2>1, <2>2 DEF Timing!ToggleChannel
  <2> QED
    BY <1>1, <2>3
<1>9. CASE \E it \in Systems : Timing!ToggleSystem(it)
  <2>1. PICK it \in Systems : Timing!ToggleSystem(it)
    BY <1>9
  <2>2. it \in f.seen
    BY <2>1 DEF Timing!ToggleSystem
  <2>3. PICK n \in SUBSET Systems : n = Timing!Toggled(form.systems, it)
          /\ n \ f.seen = f.systems \ f.seen
    <3> DEFINE n == Timing!Toggled(form.systems, it)
    <3>1. n = form.systems \ {it} \/ n = form.systems \cup {it}
      BY DEF Timing!Toggled
    <3> HIDE DEF n
    <3>2. n \in SUBSET Systems /\ n \ f.seen = f.systems \ f.seen
      BY <1>0, <2>2, <3>1
    <3> QED
      BY <3>2 DEF n
  <2>4. Timing!Edit("systems", [f EXCEPT !.systems = n])
    BY <2>1, <2>3 DEF Timing!ToggleSystem
  <2> QED
    BY <1>1, <2>3, <2>4
<1> QED
  BY <1>2, <1>3, <1>4, <1>5, <1>6, <1>7, <1>8, <1>9 DEF Timing!InForm

LEMMA TimingReadKeeps == ASSUME TimingInv, Timing!Read PROVE TimingInv'
<1>1. /\ Serverish(server) /\ list \in Seq(Item)
      /\ data \in [schedules : Seq(Item), visible : SUBSET Systems, channels : SUBSET Channels]
      /\ form # None => TimingFormish(form) /\ data.visible \subseteq form.seen
      /\ Requestsish(wire)
  BY DEF TimingInv, PageTyped
<1>2. UNCHANGED <<server, wire, told>> /\ form' = Timing!Kept(form, data')
  BY DEF Timing!Read
<1>3. Timing!Listed(server) \in Seq(Item) /\ server.visible \in SUBSET Systems
        /\ server.channels \in SUBSET Channels
  BY <1>1, ListedIs DEF Serverish
<1>4. /\ data' \in [schedules : Seq(Item), visible : SUBSET Systems, channels : SUBSET Channels]
      /\ list' \in Seq(Item)
  <2>1. CASE data' = [data EXCEPT !.schedules = Timing!Listed(server)] /\ list' = data'.schedules
    BY <1>1, <1>3, <2>1
  <2>2. CASE data' = [data EXCEPT !.visible = server.visible] /\ list' = list
    BY <1>1, <1>3, <2>2
  <2>3. CASE data' = [data EXCEPT !.channels = server.channels] /\ list' = list
    BY <1>1, <1>3, <2>3
  <2> QED
    BY <2>1, <2>2, <2>3 DEF Timing!Read
<1>5. form' # None => TimingFormish(form') /\ data'.visible \subseteq form'.seen
  <2>1. data'.visible \subseteq Systems
    BY <1>4
  <2> QED
    BY <1>1, <1>2, <2>1, TimingKeptIs
<1>6. PageTyped'
  BY <1>1, <1>2, <1>4, <1>5 DEF PageTyped
<1> QED
  BY <1>2, <1>6, Unserved

LEMMA TimingOpenKeeps ==
  ASSUME TimingInv, Timing!OpenNew \/ \E k \in DOMAIN list,
         mode \in {"edit", "copy"} : Timing!Open(mode, k)
  PROVE  TimingInv'
<1>1. /\ list \in Seq(Item) /\ data.visible \subseteq Systems
  BY DEF TimingInv, PageTyped
<1>2. UNCHANGED <<server, data, list, wire, told>>
  BY DEF Timing!OpenNew, Timing!Open
<1>3. TimingFormish(form') /\ form'.seen = data.visible
  <2>1. CASE Timing!OpenNew
    BY <1>1, <2>1, OpenedIs DEF Timing!OpenNew, Timing!Draw
  <2>2. CASE \E k \in DOMAIN list, mode \in {"edit", "copy"} : Timing!Open(mode, k)
    <3>1. PICK k \in DOMAIN list, mode \in {"edit", "copy"} : Timing!Open(mode, k)
      BY <2>2
    <3>2. list[k].row \in Timing!Row
      <4>1. k \in 1 .. Len(list)
        BY <1>1, LenProperties
      <4>2. list[k] \in Item
        BY <1>1, <4>1, ElementOfSeq
      <4> QED
        BY <4>2 DEF Item
    <3>3. form' = Timing!Opened(mode, list[k].id, list[k].row)
      BY <3>1 DEF Timing!Open, Timing!Draw
    <3> QED
      BY <1>1, <3>2, <3>3, OpenedIs
  <2> QED
    BY <2>1, <2>2
<1>4. PageTyped'
  BY <1>2, <1>3 DEF TimingInv, PageTyped
<1> QED
  BY <1>2, <1>4, Unserved

LEMMA TimingEditKeeps == ASSUME TimingInv, Timing!InForm PROVE TimingInv'
<1>1. /\ form # None /\ TimingFormish(form) /\ data.visible \subseteq form.seen
         /\ data.channels \subseteq Channels
  BY DEF TimingInv, PageTyped, Timing!InForm
<1>2. TimingFormish(form') /\ form'.seen = form.seen /\ UNCHANGED <<server, data, list, wire, told>>
  BY <1>1, EditedIs
<1>3. PageTyped'
  BY <1>1, <1>2 DEF TimingInv, PageTyped
<1> QED
  BY <1>2, <1>3, Unserved

LEMMA StillKeeps ==
  ASSUME TimingInv, UNCHANGED <<server, data, list, wire, told>>, form' \in {form, None}
  PROVE  TimingInv'
<1>1. PageTyped'
  BY DEF TimingInv, PageTyped
<1> QED
  BY <1>1, Unserved

LEMMA SendKeeps ==
  ASSUME TimingInv, NEW hook \in {"create", "update", "delete", "reorder"}, NEW ask,
         Timing!Send(hook, ask),
         TimingRequestish([hook |-> hook, ask |-> ask, latest |-> TRUE, answer |-> "none"]),
         UNCHANGED <<server, data, form, told>>, list' \in Seq(Item)
  PROVE  TimingInv'
<1>1. Requestsish(wire')
  BY TimingSentIs DEF TimingInv, PageTyped
<1>2. PageTyped'
  BY <1>1 DEF TimingInv, PageTyped
<1> QED
  BY <1>2, Unserved

LEMMA Asking ==
  ASSUME NEW hook \in {"create", "update", "delete", "reorder"}, NEW ask,
         \/ hook \in {"create", "update"} /\ TimingSaveish(ask)
         \/ hook = "update" /\ TimingToggleish(ask)
         \/ hook = "delete" /\ Deleteish(ask)
         \/ hook = "reorder" /\ Orderish(ask)
  PROVE  TimingRequestish([hook |-> hook, ask |-> ask, latest |-> TRUE, answer |-> "none"])
BY DEF TimingRequestish

LEMMA TimingSubmitKeeps == ASSUME TimingInv, Timing!Submit PROVE TimingInv'
<1> DEFINE hook == IF form.mode = "edit" THEN "update" ELSE "create"
           ask == [what |-> "save", id |-> form.id, row |-> Timing!Built, form |-> form,
                   visible |-> data.visible, listed |-> data.channels]
<1>1. form # None /\ TimingFormish(form) /\ list \in Seq(Item)
  BY DEF Timing!Submit, TimingInv, PageTyped
<1>2. Timing!Send(hook, ask) /\ UNCHANGED <<server, data, list, form, told>>
  BY DEF Timing!Submit
<1>3. TimingSaveish(ask)
  BY <1>1, TimingBuiltIs
<1>4. hook \in {"create", "update"}
  OBVIOUS
<1> HIDE DEF ask, hook
<1>5. TimingRequestish([hook |-> hook, ask |-> ask, latest |-> TRUE, answer |-> "none"])
  BY <1>3, <1>4, Asking
<1> QED
  BY <1>1, <1>2, <1>4, <1>5, SendKeeps

LEMMA TimingAskKeeps ==
  ASSUME TimingInv, Timing!ConfirmDelete \/ \E k \in DOMAIN list : Timing!ToggleEnabled(k)
  PROVE  TimingInv'
<1>1. list \in Seq(Item)
  BY DEF TimingInv, PageTyped
<1>2. CASE Timing!ConfirmDelete
  <2> DEFINE ask == [what |-> "delete", id |-> dialog]
  <2>1. Timing!Send("delete", ask) /\ UNCHANGED <<server, data, list, form, told>>
    BY <1>2 DEF Timing!ConfirmDelete
  <2>2. Deleteish(ask)
    BY DEF Deleteish
  <2> HIDE DEF ask
  <2>3. TimingRequestish([hook |-> "delete", ask |-> ask, latest |-> TRUE, answer |-> "none"])
    BY <2>2, Asking
  <2> QED
    BY <1>1, <2>1, <2>3, SendKeeps
<1>3. CASE \E k \in DOMAIN list : Timing!ToggleEnabled(k)
  <2>1. PICK k \in DOMAIN list : Timing!ToggleEnabled(k)
    BY <1>3
  <2> DEFINE ask == [what |-> "toggle", id |-> list[k].id, enabled |-> ~list[k].row.enabled]
  <2>2. Timing!Send("update", ask) /\ UNCHANGED <<server, data, list, form, told>>
    BY <2>1 DEF Timing!ToggleEnabled
  <2>3. PICK b \in BOOLEAN : b = ~list[k].row.enabled
    OBVIOUS
  <2>4. ask = [what |-> "toggle", id |-> list[k].id, enabled |-> b]
    BY <2>3
  <2> HIDE DEF ask
  <2>5. TimingToggleish(ask)
    BY <2>4 DEF TimingToggleish
  <2>6. TimingRequestish([hook |-> "update", ask |-> ask, latest |-> TRUE, answer |-> "none"])
    BY <2>5, Asking
  <2> QED
    BY <1>1, <2>2, <2>6, SendKeeps
<1> QED
  BY <1>2, <1>3

LEMMA TimingDropKeeps ==
  ASSUME TimingInv, NEW i \in DOMAIN list, NEW j \in DOMAIN list, Timing!Drop(i, j)
  PROVE  TimingInv'
<1> DEFINE ask == [what |-> "order", order |-> Timing!IdsOf(list'), from |-> i, to |-> j,
                   previous |-> list]
<1>1. list \in Seq(Item) /\ i \in 1 .. Len(list) /\ j \in 1 .. Len(list)
  BY LenProperties DEF TimingInv, PageTyped
<1>2. list' = Timing!Moved(list, i, j) /\ Timing!Send("reorder", ask)
        /\ UNCHANGED <<server, data, form, told>>
  BY DEF Timing!Drop
<1>3. list' \in Seq(Item)
  BY <1>1, <1>2, TimingMovedIs
<1>4. Orderish(ask)
  BY <1>1, <1>2 DEF Orderish
<1> HIDE DEF ask
<1>5. TimingRequestish([hook |-> "reorder", ask |-> ask, latest |-> TRUE, answer |-> "none"])
  BY <1>4, Asking
<1> QED
  BY <1>2, <1>3, <1>5, SendKeeps

LEMMA ServedKeeps ==
  ASSUME TimingInv, Serverish(server'), UNCHANGED <<data, list, form>>, Requestsish(wire'),
         told' # None => ToldIsSo(told', server')
  PROVE  TimingInv'
BY DEF TimingInv, PageTyped

LEMMA WithoutIs ==
  ASSUME NEW row \in Timing!Row, NEW channels \in SUBSET Channels
  PROVE  [row EXCEPT !.channels = channels] \in Timing!Row
BY DEF Timing!Row

LEMMA TimingOthersKeep == ASSUME TimingInv, Timing!Others PROVE TimingInv'
<1>1. Serverish(server) /\ Requestsish(wire) /\ (told # None => ToldIsSo(told, server))
  BY DEF TimingInv, PageTyped
<1>2. UNCHANGED <<data, list, form, wire>>
  BY DEF Timing!Others
<1>3. /\ server \in [rows : [DOMAIN server.rows -> Timing!Row], place : [DOMAIN server.rows -> Nat],
                     last : Nat,
                     visible : SUBSET Systems, channels : SUBSET Channels]
      /\ DOMAIN server.rows \subseteq 1 .. server.last
      /\ \A i, j \in DOMAIN server.rows : i # j => server.place[i] # server.place[j]
  BY <1>1 DEF Serverish
<1>4. ASSUME NEW it \in Systems,
             server' = [server EXCEPT !.visible = Timing!Toggled(server.visible, it)],
             told' = told
      PROVE  TimingInv'
  <2>1. PICK visible \in SUBSET Systems : visible = Timing!Toggled(server.visible, it)
    BY <1>3 DEF Timing!Toggled
  <2>2. server' = [server EXCEPT !.visible = visible]
    BY <1>4, <2>1
  <2>3. Serverish(server') /\ server'.rows = server.rows /\ server'.place = server.place
    BY <1>3, <2>2 DEF Serverish
  <2>4. told' # None => ToldIsSo(told', server')
    BY <1>1, <1>4, <2>3 DEF ToldIsSo
  <2> QED
    BY <1>1, <1>2, <2>3, <2>4, ServedKeeps
<1>5. ASSUME NEW rows \in [DOMAIN server.rows -> Timing!Row], NEW channels \in SUBSET Channels,
             server' = [server EXCEPT !.channels = channels, !.rows = rows], told' = None
      PROVE  TimingInv'
  <2>1. /\ server' \in [rows : [DOMAIN server.rows -> Timing!Row],
                        place : [DOMAIN server.rows -> Nat], last : Nat,
                         visible : SUBSET Systems, channels : SUBSET Channels]
        /\ server'.rows = rows /\ server'.place = server.place /\ server'.last = server.last
    BY <1>3, <1>5
  <2>2. DOMAIN server'.rows = DOMAIN server.rows
    BY <2>1
  <2>3. Serverish(server')
    BY <1>3, <2>1, <2>2 DEF Serverish
  <2> QED
    BY <1>1, <1>2, <1>5, <2>3, ServedKeeps
<1>6. CASE \E it \in Systems :
             server' = [server EXCEPT !.visible = Timing!Toggled(server.visible, it)]
                 /\ UNCHANGED told
  BY <1>4, <1>6
<1>7. ASSUME NEW c \in server.channels, told' = None,
             server' = [server EXCEPT !.channels = server.channels \ {c},
                          !.rows = [i \in DOMAIN server.rows |-> Timing!Without(server.rows[i], c)]]
      PROVE  TimingInv'
  <2> DEFINE rows == [i \in DOMAIN server.rows |-> Timing!Without(server.rows[i], c)]
  <2>1. ASSUME NEW i \in DOMAIN server.rows PROVE Timing!Without(server.rows[i], c) \in Timing!Row
    <3>1. server.rows[i] \in Timing!Row
      BY <1>3
    <3>2. PICK channels \in SUBSET Channels : channels = server.rows[i].channels \ {c}
      BY <3>1 DEF Timing!Row
    <3>3. Timing!Without(server.rows[i], c) = [server.rows[i] EXCEPT !.channels = channels]
      BY <3>2 DEF Timing!Without
    <3> QED
      BY <3>1, <3>3, WithoutIs
  <2>2. rows \in [DOMAIN server.rows -> Timing!Row]
    BY <2>1
  <2>3. PICK channels \in SUBSET Channels : channels = server.channels \ {c}
    BY <1>3
  <2>4. server' = [server EXCEPT !.channels = channels, !.rows = rows]
    BY <1>7, <2>3
  <2> HIDE DEF rows
  <2> QED
    BY <1>5, <1>7, <2>2, <2>4
<1>8. ASSUME NEW c \in server.channels, NEW i \in DOMAIN server.rows, told' = None,
             server' = [server EXCEPT !.rows[i] = Timing!Redirected(server.rows[i], c)]
      PROVE  TimingInv'
  <2>1. server.rows[i] \in Timing!Row
    BY <1>3
  <2>2. PICK channels \in SUBSET Channels : channels = Timing!Toggled(server.rows[i].channels, c)
    BY <1>3, <2>1 DEF Timing!Row, Timing!Toggled
  <2>3. PICK row \in Timing!Row : row = Timing!Redirected(server.rows[i], c)
    BY <2>1, <2>2, WithoutIs DEF Timing!Redirected
  <2> DEFINE rows == [server.rows EXCEPT ![i] = row]
  <2>4. rows \in [DOMAIN server.rows -> Timing!Row]
    BY <1>3
  <2>5. server' = [server EXCEPT !.channels = server.channels, !.rows = rows]
    BY <1>3, <1>8, <2>3
  <2>6. server.channels \in SUBSET Channels
    BY <1>3
  <2> HIDE DEF rows
  <2> QED
    BY <1>5, <1>8, <2>4, <2>5, <2>6
<1>9. CASE server' = Timing!Created([Timing!New EXCEPT !.name = "fit"]) /\ told' = None
  <2> DEFINE row == [Timing!New EXCEPT !.name = "fit"]
  <2>0. Timing!New \in [type : {"refresh"}, enabled : BOOLEAN, name : {None}, cron : {"preset"},
                        hours : {12}, systems : {None}, channels : {{}}]
    BY DEF Timing!New
  <2>1. row \in Timing!Row
    BY <2>0 DEF Timing!Row, Timing!Crons
  <2> HIDE DEF row
  <2>2. Serverish(server')
    BY <1>1, <1>9, <2>1, TimingCreatedIs DEF row
  <2> QED
    BY <1>1, <1>2, <1>9, <2>2, ServedKeeps
<1>10. CASE \E i \in DOMAIN server.rows : server' = Timing!Deleted(i) /\ told' = None
  <2>1. Serverish(server')
    BY <1>1, <1>10, DeletedIs
  <2> QED
    BY <1>1, <1>2, <1>10, <2>1, ServedKeeps
<1>11. CASE \E c \in server.channels :
               /\ server' = [server EXCEPT !.channels = server.channels \ {c},
                               !.rows = [i \in DOMAIN server.rows |-> Timing!Without(server.rows[i],
                                                                                     c)]]
               /\ told' = None
  BY <1>7, <1>11
<1>12. CASE \E c \in server.channels, i \in DOMAIN server.rows :
               /\ server' = [server EXCEPT !.rows[i] = Timing!Redirected(server.rows[i], c)]
               /\ told' = None
  BY <1>8, <1>12
<1> QED
  BY <1>6, <1>9, <1>10, <1>11, <1>12 DEF Timing!Others

LEMMA TimingServeKeeps == ASSUME TimingInv, NEW k \in DOMAIN wire, Timing!Serve(k) PROVE TimingInv'
<1> DEFINE r == wire[k]
<1>1. /\ Serverish(server) /\ Requestsish(wire) /\ TimingRequestish(r)
      /\ (told # None => ToldIsSo(told, server))
  BY TimingAnsweredIs DEF TimingInv, PageTyped
<1>2. UNCHANGED <<data, list, form>>
  BY DEF Timing!Serve
<1>3. Requestsish(wire')
  <2>1. PICK a \in {"ok", "error"} : wire' = [wire EXCEPT ![k].answer = a]
    BY DEF Timing!Serve
  <2> QED
    BY <1>1, <2>1, ServedIs
<1> HIDE DEF r
<1>4. CASE UNCHANGED <<server, told>>
  BY <1>1, <1>2, <1>3, <1>4, ServedKeeps
<1>5. CASE Timing!Effect(r)
  <2>1. CASE /\ r.hook = "create" /\ Timing!Valid(r.ask.row)
             /\ server' = Timing!Created(Timing!Normal(r.ask.row))
                /\ told' = [r.ask EXCEPT !.id = server.last + 1]
    <3> DEFINE ask == r.ask
    <3>1. TimingSaveish(ask) /\ Timing!Valid(ask.row)
      BY <1>1, <2>1 DEF TimingRequestish
    <3>2. Timing!Normal(ask.row) \in Timing!Row
      BY <3>1, TimingNormalIs
    <3>3. /\ Serverish(server') /\ server.last + 1 \in DOMAIN server'.rows
          /\ server'.rows[server.last + 1] = Timing!Normal(ask.row)
      BY <1>1, <2>1, <3>2, TimingCreatedIs
    <3>4. told' = [ask EXCEPT !.id = server.last + 1]
      BY <2>1
    <3> HIDE DEF ask
    <3>5. TimingSaveish(told') /\ told'.id = server.last + 1 /\ told'.row = ask.row
      <4>1. PICK n : n = server.last + 1
        OBVIOUS
      <4> QED
        BY <3>1, <3>4, <4>1 DEF TimingSaveish
    <3>6. ToldIsSo(told', server')
      BY <3>3, <3>5 DEF ToldIsSo
    <3> QED
      BY <1>2, <1>3, <3>3, <3>6, ServedKeeps
  <2>2. CASE /\ r.hook = "update" /\ r.ask.id \in DOMAIN server.rows
             /\ LET row == IF r.ask.what = "save" THEN r.ask.row
                ELSE server.rows[r.ask.id] IN Timing!Valid(row)
             /\ server' = [server EXCEPT !.rows[r.ask.id] = Timing!Changed(server.rows[r.ask.id],
                                                                           r.ask)]
             /\ told' = r.ask
    <3> DEFINE ask == r.ask
               i == r.ask.id
    <3>1. /\ server \in [rows : [DOMAIN server.rows -> Timing!Row],
                         place : [DOMAIN server.rows -> Nat], last : Nat,
                         visible : SUBSET Systems, channels : SUBSET Channels]
          /\ DOMAIN server.rows \subseteq 1 .. server.last
          /\ \A j, l \in DOMAIN server.rows : j # l => server.place[j] # server.place[l]
      BY <1>1 DEF Serverish
    <3>2. TimingSaveish(ask) \/ TimingToggleish(ask)
      BY <1>1, <2>2 DEF TimingRequestish
    <3>3. i \in DOMAIN server.rows /\ server.rows[i] \in Timing!Row
      BY <2>2, <3>1
    <3>4. /\ Timing!Changed(server.rows[i], ask) \in Timing!Row
          /\ TimingSaveish(ask) => Timing!Changed(server.rows[i], ask) = Timing!Normal(ask.row)
          /\ TimingToggleish(ask) => Timing!Changed(server.rows[i], ask).enabled = ask.enabled
      <4>1. CASE TimingSaveish(ask)
        <5>1. ask.what = "save"
          BY <4>1 DEF TimingSaveish
        <5>2. Timing!Valid(ask.row)
          BY <2>2, <5>1
        <5>3. Timing!Changed(server.rows[i], ask) = Timing!Normal(ask.row)
          BY <5>1 DEF Timing!Changed
        <5>4. ~ TimingToggleish(ask)
          BY <5>1 DEF TimingToggleish
        <5> QED
          BY <4>1, <5>2, <5>3, <5>4, TimingNormalIs
      <4>2. CASE TimingToggleish(ask)
        <5>1. ask.what = "toggle" /\ ask.enabled \in BOOLEAN
          BY <4>2 DEF TimingToggleish
        <5>2. Timing!Changed(server.rows[i], ask) = [server.rows[i] EXCEPT !.enabled = ask.enabled]
          BY <5>1 DEF Timing!Changed
        <5>3. ~ TimingSaveish(ask)
          BY <5>1 DEF TimingSaveish
        <5> DEFINE it == server.rows[i]
        <5>4. it \in Timing!Row
          BY <3>3
        <5> HIDE DEF it
        <5>5. [it EXCEPT !.enabled = ask.enabled] \in Timing!Row
                /\ [it EXCEPT !.enabled = ask.enabled].enabled = ask.enabled
          BY <5>1, <5>4 DEF Timing!Row
        <5> QED
          BY <5>2, <5>3, <5>5 DEF it
      <4> QED
        BY <3>2, <4>1, <4>2
    <3>5. PICK row \in Timing!Row : row = Timing!Changed(server.rows[i], ask)
      BY <3>4
    <3> DEFINE rows == [server.rows EXCEPT ![i] = row]
    <3>6. rows \in [DOMAIN server.rows -> Timing!Row] /\ rows[i] = row
      BY <3>1, <3>3
    <3>7. server' = [server EXCEPT !.rows = rows]
      BY <2>2, <3>5
    <3> HIDE DEF rows
    <3>8. Serverish(server') /\ server'.rows = rows
      BY <3>1, <3>6, <3>7 DEF Serverish
    <3>9. told' = ask /\ told'.id = i /\ i \in DOMAIN server'.rows /\ server'.rows[i] = row
      BY <2>2, <3>3, <3>6, <3>8
    <3> HIDE DEF ask, i
    <3>10. ToldIsSo(told', server')
      BY <3>2, <3>4, <3>5, <3>9 DEF ToldIsSo
    <3> QED
      BY <1>2, <1>3, <3>8, <3>10, ServedKeeps
  <2>3. CASE r.hook = "delete" /\ r.ask.id \in DOMAIN server.rows
          /\ server' = Timing!Deleted(r.ask.id) /\ told' = r.ask
    <3>1. Serverish(server') /\ r.ask.id \notin DOMAIN server'.rows
      BY <1>1, <2>3, DeletedIs
    <3>2. Deleteish(r.ask)
      BY <1>1, <2>3 DEF TimingRequestish
    <3>3. ToldIsSo(told', server')
      BY <2>3, <3>1, <3>2 DEF ToldIsSo
    <3> QED
      BY <1>2, <1>3, <3>1, <3>3, ServedKeeps
  <2>4. CASE r.hook = "reorder" /\ Timing!Covers(r.ask.order)
        /\ server' = Timing!Reordered(r.ask.order) /\ told' = r.ask
    <3> DEFINE ask == r.ask
               o == ask.order
    <3>1. Orderish(ask) /\ Timing!Covers(o)
      BY <1>1, <2>4 DEF TimingRequestish
    <3>2. o \in Seq(Nat)
      <4>1. /\ ask.previous \in Seq(Item) /\ ask.from \in 1 .. Len(ask.previous)
            /\ ask.to \in 1 .. Len(ask.previous)
               /\ o = Timing!IdsOf(Timing!Moved(ask.previous, ask.from, ask.to))
        BY <3>1, LenProperties DEF Orderish
      <4> QED
        BY <4>1, IdsMoved
    <3>3. /\ Serverish(server') /\ server'.rows = server.rows
          /\ \A l \in DOMAIN o : server'.place[o[l]] = l - 1
      BY <1>1, <2>4, <3>1, <3>2, ReorderedIs
    <3>4. Len(o) = Cardinality(DOMAIN server'.rows) /\ {o[l] : l \in DOMAIN o} = DOMAIN server'.rows
      BY <3>1, <3>3, TimingCount DEF Timing!Covers
    <3>5. told' = ask
      BY <2>4
    <3> HIDE DEF ask
    <3>6. ToldIsSo(told', server')
      BY <3>1, <3>3, <3>4, <3>5 DEF ToldIsSo
    <3> QED
      BY <1>2, <1>3, <3>3, <3>6, ServedKeeps
  <2> QED
    BY <1>5, <2>1, <2>2, <2>3, <2>4 DEF Timing!Effect
<1> QED
  BY <1>4, <1>5 DEF Timing!Serve, r

LEMMA TimingAnswerKeeps == ASSUME TimingInv, NEW k \in DOMAIN wire, Timing!Answer(k)
      PROVE TimingInv'
<1> DEFINE r == wire[k]
<1>1. TimingRequestish(r) /\ Requestsish(wire') /\ UNCHANGED <<server, data, told>>
        /\ form' \in {form, None}
  <2>1. TimingRequestish(r) /\ Requestsish(Timing!RemoveAt(wire, k))
    BY TimingAnsweredIs DEF TimingInv, PageTyped
  <2>2. wire' = Timing!RemoveAt(wire, k) /\ UNCHANGED <<server, data, told>>
          /\ form' \in {form, None}
    BY DEF Timing!Answer
  <2> QED
    BY <2>1, <2>2
<1>2. list' = list \/ (r.hook = "reorder" /\ list' = r.ask.previous)
  BY DEF Timing!Answer
<1> HIDE DEF r
<1>3. list' \in Seq(Item)
  BY <1>1, <1>2 DEF TimingInv, PageTyped, TimingRequestish, Orderish
<1>4. PageTyped'
  BY <1>1, <1>3 DEF TimingInv, PageTyped
<1> QED
  BY <1>1, <1>4, Unserved

(***************************************************************************)
(* All of it.                                                              *)
(***************************************************************************)
LEMMA TimingInit == ASSUME Timing!SchedulePageAssumption PROVE Timing!Init => TimingInv
<1> SUFFICES ASSUME Timing!Init PROVE TimingInv
  OBVIOUS
<1>1. PICK t \in ScheduleSessions :
        server = [rows |-> t.rows, place |-> [i \in DOMAIN t.rows |-> i - 1], last |-> Len(t.rows),
                  visible |-> Systems, channels |-> Channels]
  BY DEF Timing!Init
<1>2. t.rows \in Seq(Timing!Row)
  BY DEF Timing!SchedulePageAssumption
<1>3. Len(t.rows) \in Nat /\ DOMAIN t.rows = 1 .. Len(t.rows)
        /\ t.rows \in [1 .. Len(t.rows) -> Timing!Row]
  BY <1>2, LenProperties
<1> DEFINE place == [i \in DOMAIN t.rows |-> i - 1]
<1>4. place \in [DOMAIN t.rows -> Nat] /\ \A i, j \in DOMAIN t.rows : i # j => place[i] # place[j]
  BY <1>3
<1> HIDE DEF place
<1>5. Serverish(server)
  <2>1. server = [rows |-> t.rows, place |-> place, last |-> Len(t.rows),
                  visible |-> Systems, channels |-> Channels]
    BY <1>1 DEF place
  <2> QED
    BY <1>3, <1>4, <2>1 DEF Serverish
<1>6. /\ data = [schedules |-> Timing!Listed(server), visible |-> {}, channels |-> {}]
      /\ list = data.schedules /\ form = None /\ wire = <<>> /\ told = None
  BY DEF Timing!Init
<1>7. /\ data \in [schedules : Seq(Item), visible : SUBSET Systems, channels : SUBSET Channels]
      /\ list \in Seq(Item)
  BY <1>5, <1>6, ListedIs
<1>8. Requestsish(wire)
  <2>1. wire \in Seq({})
    BY <1>6, EmptySeq
  <2> QED
    BY <2>1, RequestsOf
<1> QED
  BY <1>5, <1>6, <1>7, <1>8 DEF TimingInv, PageTyped

LEMMA TimingStep == TimingInv /\ [Timing!Next]_Timing!vars => TimingInv'
<1> SUFFICES ASSUME TimingInv, [Timing!Next]_Timing!vars PROVE TimingInv'
  OBVIOUS
<1>1. CASE UNCHANGED Timing!vars
  BY <1>1, StillKeeps DEF Timing!vars
<1>2. CASE Timing!Cancel \/ Timing!CloseDialog \/ \E k \in DOMAIN list : Timing!AskDelete(k)
  <2>1. UNCHANGED <<server, data, list, wire, told>> /\ form' \in {form, None}
    BY <1>2 DEF Timing!Cancel, Timing!CloseDialog, Timing!AskDelete, Timing!Draw
  <2> QED
    BY <2>1, StillKeeps
<1>3. CASE Timing!Read \/ Timing!InForm \/ Timing!Submit \/ Timing!Others
  BY <1>3, TimingReadKeeps, TimingEditKeeps, TimingSubmitKeeps, TimingOthersKeep
<1>4. CASE Timing!OpenNew \/ \E k \in DOMAIN list, mode \in {"edit", "copy"} : Timing!Open(mode, k)
  BY <1>4, TimingOpenKeeps
<1>5. CASE Timing!ConfirmDelete \/ \E k \in DOMAIN list : Timing!ToggleEnabled(k)
  BY <1>5, TimingAskKeeps
<1>6. CASE \E k \in DOMAIN list : \E j \in DOMAIN list : Timing!Drop(k, j)
  BY <1>6, TimingDropKeeps
<1>7. CASE \E k \in DOMAIN wire : Timing!Serve(k) \/ Timing!Answer(k)
  BY <1>7, TimingServeKeeps, TimingAnswerKeeps
<1> QED
  BY <1>1, <1>2, <1>3, <1>4, <1>5, <1>6, <1>7, Zenon DEF Timing!Next
================================================================================
