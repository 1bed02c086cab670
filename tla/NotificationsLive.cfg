SPECIFICATION FairSpec
PROPERTY UpdatesAnnounced
CONSTANTS
  NumChannels = 2
  Systems = {s1}
  Scope <- Everything
  Schedules = {d1}
  Assigned <- ToLast
  CheckRuns = {k1}
  DigestRuns = {g1}
  MaxVersion = 1
  MaxApp = 0
  MaxOutages = 1
  MaxChanges = 1
CHECK_DEADLOCK FALSE
