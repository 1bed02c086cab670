SPECIFICATION FairSpec
CONSTANTS
  a = a
  b = b
  c = c
  s1 = s1
  Ops = {a, b, c}
  Systems = {s1}
  SystemOf <- OnOneSystem
  Kinds = {"upgrade"}
  Permits = 1
  Managers = 1
  MaxAttempts = 1
  CheckRetries = 1
  None = None
CHECK_DEADLOCK FALSE
INVARIANTS
  OneOperationPerSystem
PROPERTIES
  EveryOperationEnds
