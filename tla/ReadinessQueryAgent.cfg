SPECIFICATION FairSpec
CONSTANTS
  Commits <- MCCommits
  Parents <- MCParents
  MainLine = {"c0", "s"}
  BranchHeads = {"c1", "m"}
  FirstHead = "c1"
  FirstBase = "c0"
  MaxChanges = 1
  MaxFaults = 1
  MaxReviews = 6
  MaxOthers = 1
  Askers = {"asks", "hooked"}
  Policies = {"p", "q"}
INVARIANTS ReadyIsCovered ReadyIsSettled TargetWasCurrent
PROPERTIES NoDuplicateReview HandoffReached
CHECK_DEADLOCK FALSE
