SPECIFICATION FairSpec
CONSTANTS
  IoThread = io
  GrpcThreads = {g1}
  WsChannels = {ws}
  GrpcChannels = {}
  Keys = {k1}
  Unreadable = {}
  Ids = {i1}
  Runner = runner
  None = none
  MaxPublications = 2
  Destroyed = FALSE
PROPERTY GoneConnectionRemoved
CHECK_DEADLOCK FALSE
