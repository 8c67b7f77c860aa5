SPECIFICATION Spec
CONSTANTS
  Runs = {r1, r2}
  Openers = {o1}
  FailureLimit = 1
  AgeRule = FALSE
  ProbeMisses = TRUE
  Faults = TRUE
  Crashes = TRUE

SYMMETRY RunSymmetry
INVARIANT SourceIsCompleted
INVARIANT InterruptedHasReason
INVARIANT LatestFailuresKept
INVARIANT PublicationIsWhole
PROPERTY ImplementsLedger
CHECK_DEADLOCK FALSE
