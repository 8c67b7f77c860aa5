SPECIFICATION FairSpec
CONSTANTS
  Hooks = {h1, h2}
  Commits = {c1}
  SerialHooks = TRUE
  MaxKills = 4
  None = None

INVARIANT SuccessIsReal
PROPERTY WorkersEnd
PROPERTY StaleLockRecovered
CHECK_DEADLOCK FALSE
