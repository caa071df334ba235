\* Four messages: responses and notifications overlap in every order, on a
\* connection that may be closed or lost at any moment.
SPECIFICATION FairSpec
CONSTANT MaxMessages = 4
INVARIANTS TypeOK FramesInOrder NeverStuck EndIsNoticed
PROPERTIES BufferStable MessagesDelivered GoneIsRemoved
\* A session ends.
CHECK_DEADLOCK FALSE
