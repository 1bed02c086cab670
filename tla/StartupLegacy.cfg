CONSTANTS
  Systems = {s1}
  Places = {p1}
  Channels = {"email", "ntfy"}
  Crons = {d1}
  None = None
  MaxCrashes = 0
SPECIFICATION Spec
CHECK_DEADLOCK FALSE
INVARIANT SecretsReadable
