\* One WebSocket client, one gRPC session, one pool thread.
SPECIFICATION Spec
CONSTANTS
  w = w  k1 = k1  k2 = k2  g1 = g1  g2 = g2  a1 = a1  t1 = t1  t2 = t2  t3 = t3
  WsClients = {w}
  Sessions = {k1}
  Threads = {g1}
  Contexts = {a1}
  Tokens = {t1, t2, t3}
  Claims <- MCClaims
  Leaves <- MCLeaves
  Descriptions <- MCDescriptions
  Texts <- MCTexts
  Values <- MCValues
  GetCalls <- MCGetCalls
  SetCalls <- MCSetCalls
  MaxSubs = 1
  None = none
CHECK_DEADLOCK FALSE
INVARIANTS TypeOK PermissionsOfLastToken ReadsGranted SubscriptionsGranted StatusTellsAll StoredInRange NotationIrrelevant
PROPERTIES WritesGranted
