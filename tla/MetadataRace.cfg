SPECIFICATION PublisherSpec
CONSTANTS
  IoThread = io
  GrpcThreads = {g1}
  Signals = {s1}
  Limits = {1, 3}
  InitLimit = 3
  TreeValues = {7}
  MaxSets = 3
  MaxUpdates = 1
  None = none
  Published = {s1}
  connection_retry = 1
PROPERTY MetadataOnly
