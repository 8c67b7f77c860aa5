SPECIFICATION Spec
CONSTANTS
  Hooks = {h1, h2}
  Commits = {c1, c2}
  SerialHooks = TRUE
  MaxKills = 0
  None = None

INVARIANT AtMostOneWorker
CHECK_DEADLOCK FALSE
