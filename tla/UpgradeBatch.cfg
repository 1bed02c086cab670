SPECIFICATION Spec
CONSTANTS
  s1 = s1
  s2 = s2
  Systems = {s1}
  GroupOf <- OneGroupEach
  Managers = 2
  MaxRestarts = 2
  None = None
CHECK_DEADLOCK FALSE
INVARIANTS
  StoredInfoIsCurrent
  StepHasOpenRow
  OneLaunchPerRun
  ItemMatchesRows
PROPERTIES
  CleanupSparesBatch
