\* A WebSocket session, two threads, the two attributes of one leaf.
SPECIFICATION FairServerSpec
CONSTANTS
  IoThread = io
  GrpcThreads = {g1}
  WsChannels = {ws1}
  GrpcChannels = {}
  Keys <- LeafKeys
  Unreadable <- TargetKeys
  Ids = {i1}
  Runner = runner
  None = none
  MaxPublications = 2
  Destroyed = FALSE
  Signals = {s1}
  Limits = {3}
  InitLimit = 3
  TreeValues = {7}
  MaxSets = 2
  MaxUpdates = 0
INVARIANT UpToDate
PROPERTIES AllAnswered DrainsOnceAwake
CHECK_DEADLOCK FALSE
