\* Two WebSocket sessions and one gRPC stream subscribe and unsubscribe, come
\* and go while two signals are set.
SPECIFICATION Spec
CONSTANTS
  IoThread = io
  GrpcThreads = {g1}
  WsChannels = {ws1, ws2}
  GrpcChannels = {rpc1}
  Keys = {k1, k2}
  Unreadable = {k2}
  Ids = {i1, i2}
  Runner = runner
  None = none
  MaxPublications = 2
  Destroyed = TRUE
SYMMETRY Symmetry
INVARIANTS TypeOK FrontDefined DeliveryOrder StreamsSubscribed
PROPERTIES NoStalePush StreamLostAtEndOnly ImplementsNotification
\* The two mutexes can deadlock (GoneConnectionRemoved), and a stopped handler
\* does nothing.
CHECK_DEADLOCK FALSE
