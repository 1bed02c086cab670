SPECIFICATION MCSpec
CONSTANTS
  x = x
  y = y
  z = z
  c1 = c1
  c2 = c2
  a1 = a1
  a2 = a2
  k1 = k1
  k2 = k2
  k3 = k3
  g1 = g1
  g2 = g2
  g3 = g3
  ungrouped = ungrouped
  t1 = t1
  apt = apt
  dnf = dnf
  u1 = u1
  r1 = r1
  b1 = b1
  q1 = q1
  q2 = q2
  p1 = p1
  d1 = d1
  d2 = d2
  m1 = m1
  ka = ka
  km = km
  j1 = j1
  j2 = j2
  Systems = {x, y, z}
  Some = {x, y}
  Single = {x}
  Groups = {g1, g2, g3}
  Ungrouped = ungrouped
  Default = 5
  MinPosition <- LowestPosition
  Path <- ThePath
  HostAddresses = {a1, a2}
  KeysOf <- TheKeysOf
  Dials = {t1}
  MaxTrustEdits = 1
  MaxRekeys = 1
  MaxTestTokens = 1
  MaxBoots = 3
  UpdateManagers = {apt, dnf}
  UpdateManagerOf <- TheUpdateManagerOf
  Held = {u1}
  Limits = {2, 3}
  MaxRows = 7
  Calls = {j1, j2}
  SystemOf <- TheSystemOf
  KindOf <- TheKindOf
  BotCalls = {j2}
  BotSystemOf <- TheBotSystemOf
  BotKindOf <- TheBotKindOf
  Awaited = {"all"}
  Results = {"success"}
  MaxRestarts = 1
  Reconcilers = {r1, b1}
  MaxRecords = 2
  MaxMqttEdits = 1
  MaxQueued = 1
  Bots = {b1}
  Chats = {c1}
  Requests = {q1, q2}
  MaxApiTokens = 3
  MaxLinks = 1
  MaxBotEdits = 2
  MaxUpdates = 3
  MaxConfirmations = 1
  MaxWorkers = 2
  Watchers = {p1}
  MaxMessages = 4
  MaxResets = 2
  MaxBreaks = 2
  Managers = {apt, m1}
  Builtin = {apt}
  Scopes = {ka, km}
  ManagerOf <- TheManagerOf
  Supplied = {ka}
  Detection <- TheDetection
  MaxScripts = 2
  Schedules = {d1}
  Channels = {k1}
  Copies = {1}
  MaxChanges = 3
  SecretPlaces = {p1}
  OldChannels = {"email", "ntfy"}
  OldCrons = {d1, d2}
  MaxCrashes = 1
  Packages = {u1}
  Versions = {1, 2}
  FullUpgrade = TRUE
  PageSessions <- Sittings
  MaxForeign = 1
  MaxWire = 1
  Routes = {r1, b1}
  MaxMoves = 3
  ReportSteps = 2
  PageSystems = {1, 2}
  PageGroups = {"g", "h"}
  DialogSessions <- Dialogs
  PageSchedules = {"d", "e"}
  Names = {"a", "b", "c"}
  Masked = "(stored)"
  NoText = ""
  NoAuth = "none"
  Token = "t"
  ChannelSessions <- Forms
  MaxListed = 4
  ScheduleSessions <- Timings
  Custom = {m1}
  MaxEdited = 3
  EditorSessions <- Editings
  Credentials = {c1, c2}
  Addresses = {a1}
  Logins = {l1, l2}
  MaxDepth = 2
  Absent = Absent
CHECK_DEADLOCK FALSE
INVARIANTS
  RegistrySound
  GroupsSound
  VerifiedConnections
  DismissalOfThisBoot
  HiddenSound
  LatestCheckKept
  SettledMatchesRow
  CommandTokenValid
  UpdatesSound
  ShowsWholeOperation
  MigrationsSound
  ScriptsSound
  ToldOfOwnJob
  SchedulesSound
  PagesSound
PROPERTIES
  NewAddressKnowsNoOldKey
  UsedScriptsStay
