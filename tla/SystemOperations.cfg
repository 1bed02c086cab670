SPECIFICATION Spec
CONSTANTS
  a = a
  b = b
  c = c
  s1 = s1
  Ops = {a, b}
  Systems = {s1}
  SystemOf <- OnOneSystem
  Kinds = {"check", "repair", "upgrade", "select", "autoremove", "reboot"}
  Permits = 1
  Managers = 2
  MaxAttempts = 2
  CheckRetries = 2
  None = None
CHECK_DEADLOCK FALSE
SYMMETRY Calls
INVARIANTS
  NoStrayCancellation
  ResultMatchesRows
  UnfinishedRowIsExplained
PROPERTIES
  LaunchesUncancelled
