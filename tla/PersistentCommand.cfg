SPECIFICATION FairCommandSpec
CONSTANTS
  MaxAttempts = 3
CHECK_DEADLOCK FALSE
INVARIANTS
  ReadCodeIsReal
  RetryKeepsCode
PROPERTIES
  EventuallyOver
  ImplementsPromise
