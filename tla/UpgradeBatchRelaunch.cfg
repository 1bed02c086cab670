SPECIFICATION Spec
CONSTANTS
  s1 = s1
  s2 = s2
  Systems = {s1}
  GroupOf <- OneGroupEach
  Managers = 2
  MaxRestarts = 1
  None = None
CHECK_DEADLOCK FALSE
INVARIANT LaunchedOnce
