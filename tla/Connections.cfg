\* Two clients and the four addresses their sessions need: both kinds of session
\* at one address one after the other, every end of a connection at every stage.
SPECIFICATION FairSpec
CONSTANTS
  Clients = {c1, c2}
  Addresses = {a1, a2, a3, a4}
  AllowInsecure = TRUE
  None = none
INVARIANTS TypeOK NoDangling StreamOwned SetUpBeforeUse
PROPERTIES ConnectedIsReached ClientsAccepted
CHECK_DEADLOCK FALSE
