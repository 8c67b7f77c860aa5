SPECIFICATION Spec
CONSTANTS
  Hooks = {h1, h2}
  Commits = {c1, c2}
  SerialHooks = FALSE
  MaxKills = 1
  None = None

SYMMETRY HooksAndCommits
INVARIANT NoCommitLost
PROPERTY FreshBeforeRetry
PROPERTY WorkerTriesQueue
CHECK_DEADLOCK FALSE
