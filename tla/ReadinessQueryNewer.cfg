SPECIFICATION Spec
CONSTANTS
  Commits <- MCCommits
  Parents <- MCParents
  MainLine = {"c0", "s"}
  BranchHeads = {"c1", "m"}
  FirstHead = "c1"
  FirstBase = "c0"
  MaxChanges = 0
  MaxFaults = 1
  MaxReviews = 2
  MaxOthers = 2
  Askers = {"by hand"}
  Policies = {"p", "q"}
INVARIANT NewerFailureNotHidden
