SPECIFICATION Spec
CONSTANTS
  Clients = {c1, c2}
  Addresses = {a1, a2, a3, a4}
  AllowInsecure = FALSE
  None = none
PROPERTY FoundIsConnected
CHECK_DEADLOCK FALSE
