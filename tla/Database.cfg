\* A gRPC thread and the io thread on one leaf: two sets, one of them above the
\* lower limit, and an update between any two critical sections, which may name
\* values; the broker is found at the first try, at the second or not.
SPECIFICATION FairPublisherSpec
CONSTANTS
  IoThread = io
  GrpcThreads = {g1}
  Signals = {s1}
  Limits = {1, 2}
  InitLimit = 2
  TreeValues = {7}
  MaxSets = 2
  MaxUpdates = 1
  None = none
  Published = {s1}
  connection_retry = 2
INVARIANTS TypeOK TreesAgree PublisherTypeOK LoopStartedOnce SameOrder
PROPERTIES PublishedIsStored ReadsArePublished ImplementsLeafStore RequestsAnswered
