CONSTANTS
  Clients = {c1, c2, c3, c4}
  MaxLimit = 3
  Unresolvable = {}
SPECIFICATION FairSpec
PROPERTIES
  NoOvertaking
  EveryWaiterServed
  ImplementsSemaphore
