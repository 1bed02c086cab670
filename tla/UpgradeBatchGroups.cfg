SPECIFICATION FairSpec
CONSTANTS
  s1 = s1
  s2 = s2
  Systems = {s1, s2}
  GroupOf <- OneGroupEach
  Managers = 1
  MaxRestarts = 1
  None = None
CHECK_DEADLOCK FALSE
INVARIANTS
  GroupOrder
PROPERTIES
  BatchEnds
