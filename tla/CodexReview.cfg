SPECIFICATION FairSpec
CONSTANTS
  Bodies <- MCBodies
  MaxRequests = 5
  MaxPipe = 2
  MaxNotes = 2
  MaxAttempts = 2
  HandshakeLength = 2
  None = None

INVARIANT PeerCorrect
INVARIANT NothingSkipped
INVARIANT OutcomeIsTrue
PROPERTY ReviewEnds
CHECK_DEADLOCK FALSE
