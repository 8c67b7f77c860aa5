SPECIFICATION FairSpec
CONSTANTS
  MaxAttempts = 2
  MaxMessages = 2
  MaxEvents = 2
  MaxLines = 1
  Callers = {a, b}
  MaxServers = 3

INVARIANT OpenCodeSettles
INVARIANT ServerIsRight
PROPERTY KeepsPromise
PROPERTY ReviewsEnd
CHECK_DEADLOCK FALSE
