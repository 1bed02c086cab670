-------------------------------- MODULE MCPages --------------------------------
(***************************************************************************)
(* The parts of Parts on small instances, and beside them the pages of the *)
(* browser.  A behaviour is one of one part, so these have their variables *)
(* in common.                                                              *)
(***************************************************************************)
EXTENDS Parts, TLC

CONSTANTS x, y, z, c1, c2, a1, a2, k1, k2, k3, g1, g2, g3, ungrouped, t1,
          apt, dnf, u1, r1, b1, q1, q2, p1, d1, d2, m1, ka, km, j1, j2

\* A target behind one jump, and the jump itself.
ThePath == x :> <<x>> @@ y :> <<x, y>>
TheKeysOf == a1 :> {k1, k2} @@ a2 :> {k3}
TheUpdateManagerOf == u1 :> apt
TheSystemOf == j1 :> x @@ j2 :> x
TheKindOf == j1 :> "full" @@ j2 :> "full"
TheBotSystemOf == j1 :> x @@ j2 :> x
TheBotKindOf == j1 :> "all" @@ j2 :> "full"
TheManagerOf == ka :> apt @@ km :> m1
TheDetection == apt :> ka @@ m1 :> km
LowestPosition == -2

\* One package with two versions.
Sittings ==
  {[kinds |-> {"packages", "hide"}, requests |-> 1],
   [kinds |-> {"hide", "check"}, requests |-> 2],
   [kinds |-> {"hide", "unhide"}, requests |-> 2], [kinds |-> {"all", "cancel"}, requests |-> 2],
   [kinds |-> {"full", "autoremove"}, requests |-> 1],
   [kinds |-> {"autoremove", "root", "lifecycle"}, requests |-> 2],
   [kinds |-> {"reboot", "needsReboot"}, requests |-> 2],
   [kinds |-> {"repair", "issue"}, requests |-> 2]}

\* Two systems and two groups.
Dialogs ==
  {[kinds |-> {"exclude"}, requests |-> 3, events |-> 0],
   [kinds |-> {"mode"}, requests |-> 2, events |-> 0],
   [kinds |-> {"exclude", "mode"}, requests |-> 1, events |-> 1],
   [kinds |-> {"place"}, requests |-> 1, events |-> 1],
   [kinds |-> {"order", "create"}, requests |-> 2, events |-> 0],
   [kinds |-> {"place", "delete", "rename"}, requests |-> 2, events |-> 0]}

\* Two systems, two schedules, and a channel with a token and perhaps two secret headers.
Bare == [mode |-> "edit", headers |-> <<>>, auth |-> "t", all |-> FALSE, systems |-> {1, 2},
         schedules |-> {"d"}, kinds |-> {"values", "secrets"}, edits |-> 3, opens |-> 1,
         events |-> 0, regular |-> TRUE]

Headed == [Bare EXCEPT !.headers = <<[name |-> "a", secret |-> TRUE, value |-> "a"],
                                     [name |-> "b", secret |-> TRUE, value |-> "b"]>>]

Forms ==
  {[Headed EXCEPT !.opens = 2],
   [Headed EXCEPT !.mode = "copy", !.edits = 2, !.kinds = {"values", "secrets", "test"}],
   [Headed EXCEPT !.kinds = {"remove", "rows"}, !.edits = 2],
   [Bare EXCEPT !.mode = "new", !.kinds = {"rows", "values", "secrets"}],
   [Bare EXCEPT !.kinds = {"auth"}, !.opens = 2],
   [Bare EXCEPT !.kinds = {"systems"}, !.events = 1],
   [Bare EXCEPT !.kinds = {"schedules", "new"}, !.events = 1]}

\* Two systems, two packages, a page for each.
Visit(presses, edits, kinds) ==
  [presses |-> presses, edits |-> edits, allEdits |-> edits, kinds |-> kinds]

InMenus == INSTANCE TelegramMenus WITH
  Systems <- {1, 2}, Packages <- {1, 2}, PageSize <- 1,
  Visits <- {Visit(4, 1, {"pkgsys", "updates"}), Visit(2, 1, {"pkglist", "updates"}),
             Visit(2, 2, {"upgrade", "exclude", "scope", "hide"}),
             Visit(2, 1, {"upgrade", "hide", "type", "updates"}),
             Visit(3, 1, {"fullupgrade", "exclude"}), Visit(3, 1, {"check", "scope"})},
  sys <- v1, channel <- v2, buttons <- v3, shown <- v4, doing <- v5, asked <- v6, barred <- v7,
  bulk <- v8, started <- v9, summary <- v10, visit <- v11

\* Up to three scripts of up to three steps.
StepsUpTo(n) == [k \in 1 .. n |-> [label |-> k, command |-> [of |-> k, form |-> "raw"]]]

Listing(operation, default, n, parse) ==
  [operation |-> operation, manager |-> m1, default |-> default, steps |-> StepsUpTo(n), parse |-> parse]

Parsing == <<Listing("check_updates", TRUE, 2, 1)>>
Pair == <<Listing("check_updates", TRUE, 1, Absent), Listing("check_updates", FALSE, 1, 0)>>
Detecting == <<Listing("detect", FALSE, 1, Absent)>>

Editings ==
  {[scripts |-> Parsing, kinds |-> {"steps", "parse"}, edits |-> 3, events |-> 0],
   [scripts |-> Parsing, kinds |-> {"beautify", "steps", "type"}, edits |-> 3, events |-> 0],
   [scripts |-> Parsing, kinds |-> {"scope", "steps"}, edits |-> 3, events |-> 0],
   [scripts |-> Pair, kinds |-> {"toggle"}, edits |-> 3, events |-> 1],
   [scripts |-> Pair, kinds |-> {"delete", "toggle"}, edits |-> 2, events |-> 2],
   [scripts |-> Pair, kinds |-> {"copy", "toggle"}, edits |-> 3, events |-> 0],
   [scripts |-> Detecting, kinds |-> {"new", "type", "scope"}, edits |-> 3, events |-> 0],
   [scripts |-> Detecting, kinds |-> {"copy", "scope", "steps"}, edits |-> 3, events |-> 0]}

\* Two custom managers and a built-in one, with up to five scripts.
Named(manager, name, operation, default, text) ==
  [manager |-> manager, script |-> [name |-> name, operation |-> operation, default |-> default,
                                    text |-> text, valid |-> TRUE]]

Entries == <<[owner |-> "", key |-> "a"]>>
Marked == <<Named("m", 1, 1, TRUE, 1), Named("m", 1, 2, FALSE, 1)>>
Unmarked == <<Named("m", 2, 1, FALSE, 1), Named("m", 1, 1, FALSE, 2)>>
Twice == <<Named("m", 1, 1, FALSE, 1), Named("m", 1, 1, TRUE, 2)>>
Thrice == <<Twice[1], Twice[2], Named("n", 1, 1, TRUE, 2)>>

Bundlings ==
  {[managers |-> [m |-> Entries], scripts |-> Marked, kinds |-> {"new", "import"},
    presses |-> 5, events |-> 0],
   [managers |-> [m |-> <<>>], scripts |-> Unmarked, kinds |-> {"new", "import"},
    presses |-> 4, events |-> 2],
   [managers |-> [m |-> <<>>], scripts |-> Twice, kinds |-> {"new", "import"},
    presses |-> 4, events |-> 0],
   [managers |-> [m |-> Entries], scripts |-> <<>>, kinds |-> {"new", "edit", "entries"},
    presses |-> 5, events |-> 0],
   [managers |-> [m |-> <<>>, n |-> <<>>], scripts |-> Thrice,
    kinds |-> {"delete"}, presses |-> 3, events |-> 2]}

Bundling == INSTANCE ManagerBundles WITH
  Builtin <- {"apt"}, Custom <- {"m", "n"}, OwnKeys <- [apt |-> {"b"}], EntryKeys <- {"a", "b"},
  Blank <- "", MaxScripts <- 5, Sessions <- Bundlings,
  server <- v1, data <- v2, modal <- v3, asked <- v4, file <- v5, dialog <- v6, tick <- v7,
  told <- v8, deleted <- v9, session <- v10

\* A refresh, a digest and an update, of two systems and one channel.
Timed(type, systems, channels) ==
  [type |-> type, enabled |-> TRUE, name |-> "fit", cron |-> "preset", hours |-> 12,
   systems |-> systems, channels |-> channels]

Two == <<Timed("refresh", {1, 2}, {}), Timed("digest", Absent, {k1})>>
Three == <<Two[1], Two[2], Timed("update", Absent, {})>>
Longest == <<[Two[1] EXCEPT !.name = "full", !.cron = "own"]>>

Timings ==
  {[rows |-> Three, kinds |-> {"drag"}, edits |-> 0, presses |-> 1, events |-> 1],
   [rows |-> Two, kinds |-> {"copy", "delete"}, edits |-> 0, presses |-> 2, events |-> 0],
   [rows |-> Two, kinds |-> {"delete", "drag"}, edits |-> 0, presses |-> 2, events |-> 0],
   [rows |-> Two, kinds |-> {"edit", "systems"}, edits |-> 1, presses |-> 1, events |-> 1],
   [rows |-> Two, kinds |-> {"edit", "systems", "type"}, edits |-> 2, presses |-> 1, events |-> 0],
   [rows |-> Two, kinds |-> {"edit", "channels"}, edits |-> 1, presses |-> 1, events |-> 1],
   [rows |-> Two, kinds |-> {"edit", "toggle", "enabled"}, edits |-> 1, presses |-> 1, events |-> 0],
   [rows |-> Longest, kinds |-> {"copy", "name", "cron", "hours"}, edits |-> 2, presses |-> 1, events |-> 0],
   [rows |-> <<>>, kinds |-> {"new", "systems", "name"}, edits |-> 3, presses |-> 1, events |-> 0]}

PagesInit ==
  \/ /\ PartsInit
     /\ part = "trust" => v1[x].address = a1 /\ v1[y].address = a2 /\ v2[a1] = k1
     /\ part = "discovery" => v5[r1].pc = "saved"
     /\ part = "system form" => v6.route = r1
     /\ part = "upgrade dialog" => \A s \in PageSystems : v1.sys[s].excluded => s = 1
  \/ part = "menus" /\ Init /\ InMenus!Init /\ Without12 /\ v1[1].updates # {}
     /\ \A s \in {1, 2} : (v1[s].excluded => "exclude" \in v11.kinds)
                         /\ (~v1[s].full => "fullupgrade" \in v11.kinds)
  \/ part = "bundles" /\ Init /\ Bundling!Init /\ Without11

PagesNext ==
  \/ PartsNext
  \/ part = "menus" /\ InMenus!Next /\ UNCHANGED <<part, vars, from12>>
  \/ part = "bundles" /\ Bundling!Next /\ UNCHANGED <<part, vars, from11>>

MCSpec == PagesInit /\ [][PagesNext]_<<part, vars, slots>>

\* See Parts (the other pages), TelegramMenus (what a button shows and starts) and
\* ManagerBundles (what an import brings).
PagesSound ==
  /\ PagesHold
  /\ part = "menus" => InMenus!TelegramMenusSound
  /\ part = "bundles" => Bundling!ManagerBundlesSound
================================================================================
