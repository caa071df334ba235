SPECIFICATION Spec
CONSTANTS
  IoThread = io
  GrpcThreads = {g1}
  WsChannels = {}
  GrpcChannels = {rpc1}
  Keys = {k1}
  Unreadable = {}
  Ids = {i1, i2}
  Runner = runner
  None = none
  MaxPublications = 0
  Destroyed = FALSE
INVARIANT ContextCleared
