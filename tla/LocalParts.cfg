SPECIFICATION MCSpec
CONSTANTS
  Findings = {a, b, f}
  Two = {a, b}
  None = None
  MaxReviews = 3
  MaxEvents = 2
  Builds <- MCBuilds
  Current <- MCCurrent
  Forked <- MCForked
  Nameless = {"nameless"}
  Identity = 2
  Shaped = {1}
  MaxWrites = 1
  Trees = {"home", "linked"}
  Home = "home"
  UserLines = {"u", "v"}
  Runtimes = {"r1", "r2"}
  MaxEdits = 2
  MaxCommands = 2
  MaxGroups = 2
  MaxEntries = 2
  MaxText = 4
  Backends <- MCBackends
  Default = "opencode"
  Models = {"p/one", "p/two", "bare"}
  Fits <- MCFits
  Variants = {"high"}
  MaxPreferences = 3
  Layouts <- MCLayouts
  Layout <- MCLayout
  ProjectRoot <- MCProjectRoot
  Callers = {1, 2}
  MaxLookups = 3
  DisposedRows = {1, 2}
  PathTexts <- MCFiles
  SymbolTexts <- MCSymbols
  LineNumbers = {1, 40}
  MaxDistance = 30
  WordSets <- MCWordSets
  RowLimit = 1
  Commits = {"c0", "c1", "c2"}
  Ancestors <- MCAncestors
  Contents = {"d"}
  Severities = {1, 2}
  MaxRows = 2
  MaxChanges = 2
  Reviewed = {"changed", "renamed"}
  Paths = {1, 2, 3, 4, 5}
  Tree <- MCTree
  Changed <- MCChanged
  Deleted <- MCDeleted
  Renamed <- MCRenamed
  Excluded = {}
  Named = {1, 2, 4}
  Versions = {"old", "new"}
  Stem <- MCStem
  FirstSymbols <- MCFirstSymbols
  Parsed <- MCParsed
  MaxTerms = 2
  Names <- MCNames
  Words <- MCWords
  ShownPaths = {"a", "my b", "b"}
  MaxFiles = 2
  MaxLines = 2
  FirstTexts <- MCStarts
  MaxMore = 4
  Anchors = {"a", "b"}
  Raised <- MCRaised
  MaxRaised = 3
  Claims = {"f", "g"}
  MaxOutcomes = 3
  MaxAnswers = 3
  MaxTime = 2
  MaxPhases = 3
  MaxActivity = 1
  SchemaSize = 4
  MaxRefs = 2
  Required = {"request", "notification"}
  Samples <- MCSamples
  CaseLines = {1, 2, 3, 9}
  MaxExpected = 2
  MaxReported = 3
  MinDistinct = 2
  EvalCases <- MCCases
  MaxTrials = 2
  Cleaners = {"c"}

SYMMETRY PartsSymmetry
CONSTRAINT GateOrCompare
INVARIANT StateIsSafe
INVARIANT InstalledAsMeant
INVARIANT HistoryExplains
INVARIANT LinksAgree
INVARIANT CommandsAreTrue
INVARIANT InputIsTrue
INVARIANT TextIsUnderstood
INVARIANT AnswerIsKept
INVARIANT TimeIsWhole
INVARIANT ScoresAreEarned
INVARIANT EvidenceIsReal
PROPERTY NothingForeignChanged
PROPERTY SharedFilesKept
PROPERTY DispositionsStand
CHECK_DEADLOCK FALSE
