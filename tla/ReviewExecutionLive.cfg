SPECIFICATION FairSpec
CONSTANTS
  Runs = {r1, r2}
  Openers = {}
  FailureLimit = 1
  AgeRule = TRUE
  ProbeMisses = TRUE
  Faults = TRUE
  Crashes = TRUE

PROPERTY OwnerlessReclaimed
PROPERTY LeasesEnd
CHECK_DEADLOCK FALSE
