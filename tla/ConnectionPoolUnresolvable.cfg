CONSTANTS
  Clients = {c1, c2}
  MaxLimit = 2
  Unresolvable = {c1}
SPECIFICATION Spec
INVARIANT CountsSimultaneousConnections
