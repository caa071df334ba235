SPECIFICATION FairSpec
CONSTANTS
  IoThread = io
  GrpcThreads = {}
  WsChannels = {ws}
  GrpcChannels = {}
  Keys = {k1}
  Unreadable = {}
  Ids = {i1}
  Runner = runner
  None = none
  MaxPublications = 1
  Destroyed = FALSE
PROPERTY SubscriberNotified
CHECK_DEADLOCK FALSE
