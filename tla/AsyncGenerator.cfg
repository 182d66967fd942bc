SPECIFICATION FairSpec
CONSTANTS
  MaxRequests = 4
  MaxAwaits = 3
CHECK_DEADLOCK FALSE
INVARIANT TypeOK
INVARIANT OneDriver
INVARIANT DoneIsFinal
PROPERTY AnsweredOrCompleted
