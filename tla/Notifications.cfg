SPECIFICATION Spec
INVARIANTS MarksWereSent
PROPERTY MessagesHaveNews
CONSTANTS
  NumChannels = 2
  Systems = {s1}
  Scope <- Everything
  Schedules = {d1}
  Assigned <- ToLast
  CheckRuns = {k1, k2}
  DigestRuns = {g1}
  MaxVersion = 1
  MaxApp = 1
  MaxOutages = 0
  MaxChanges = 1
SYMMETRY Alike
CHECK_DEADLOCK FALSE
