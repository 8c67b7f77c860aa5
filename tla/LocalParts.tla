----------------------------- MODULE LocalParts -----------------------------
(***************************************************************************)
(* The parts of diffowl that meet each other only through what they leave  *)
(* behind: the state database, what is installed into repository and user  *)
(* settings, the stages of a review between the diff and the saved         *)
(* findings, the commands that answer from the database, and the tools     *)
(* that measure and verify.  None acts inside a step of another, so a      *)
(* behaviour is one of a single part: "part" is chosen at the start, and   *)
(* the variables that only others use keep the value Unused (a name that   *)
(* two parts use for their state is one variable here).  The findings are  *)
(* FindingLifecycle, whose names need no prefix: none while another part    *)
(* runs.                                                                   *)
(***************************************************************************)
EXTENDS FindingLifecycle

CONSTANTS
  Two,        \* interchangeable processes, and findings of the summary
  (* the state database *)
  Builds, Current, Forked, Nameless, Identity, Shaped, MaxWrites,
  (* the hook *)
  Trees, Home, UserLines, Runtimes, MaxEdits, MaxCommands,
  (* the files of the agents *)
  MaxGroups, MaxEntries, MaxText,
  (* the preferences *)
  Backends, Default, Models, Fits, Variants, MaxPreferences,
  (* the state directory *)
  Layouts, Layout, ProjectRoot, Callers, MaxLookups,
  (* possible duplicates *)
  DisposedRows, PathTexts, SymbolTexts, LineNumbers, MaxDistance, WordSets, RowLimit,
  (* the summary of findings *)
  Commits, Ancestors, Contents, Severities, MaxRows, MaxChanges,
  (* the context of a review *)
  Reviewed, Paths, Tree, Changed, Deleted, Renamed, Excluded, Named, Stem, FirstSymbols,
  Versions, Parsed, MaxTerms,
  (* the text of a diff *)
  Names, Words, ShownPaths, MaxFiles, MaxLines,
  (* the text of an answer *)
  FirstTexts, MaxMore,
  (* the findings of an answer *)
  Anchors, Raised, MaxRaised, Claims, MaxOutcomes, MaxAnswers,
  (* the telemetry of an attempt *)
  MaxTime, MaxPhases, MaxActivity,
  (* the protocol of a Codex *)
  SchemaSize, MaxRefs, Required, Samples,
  (* the scoring of trials, and the evaluation *)
  CaseLines, MaxExpected, MaxReported, MinDistinct, EvalCases, MaxTrials,
  (* the verification controller *)
  Cleaners

(* The builds share migrations up to the identity, which those without      *)
(* identity columns number differently; "none" and "main" are no forks.     *)
ASSUME DatabaseAssumption ==
  /\ Identity \in Nat \ {0}
  /\ Current \in [Builds -> Nat] /\ Forked \in [Builds -> SUBSET Nat]
  /\ "none" \notin Builds /\ "main" \notin Nameless
  /\ \A b \in Nameless \cap Builds : Identity \in Forked[b]
(* A runtime is a path, and no line of the user is one of diffowl.          *)
ASSUME InstallationAssumption ==
  /\ Home \in Trees
  /\ Runtimes \cap {"none", "foreign", "empty", "start", "bridge", "end"} = {}
  /\ UserLines \cap (Runtimes \cup {"none", "shebang", "start", "bridge", "end"}) = {}
ASSUME SetupAssumption ==
  MaxGroups \in Nat /\ MaxEntries \in Nat /\ MaxText \in Nat
ASSUME PreferenceAssumption ==
  /\ Default \in Backends /\ "none" \notin Backends
  /\ Fits \in [Backends -> SUBSET Models]
  /\ Models \cap {"none", "reset"} = {} /\ Variants \cap {"none", "reset"} = {}
(* A directory is the sequence of the names on its path; a .git entry that  *)
(* is a file or a link names a git directory.                               *)
ASSUME RootAssumption ==
  \A l \in Layouts :
    /\ DOMAIN l \subseteq Seq(STRING)
    /\ \A d \in DOMAIN l :
         /\ l[d].kind \in {"none", "dir", "file", "link"}
         /\ l[d].kind \in {"file", "link"} => l[d].of \in {"entry", "store"} \X Seq(STRING)
(* Row 0 is none, "none" is no key, and there is nothing else to a text.    *)
ASSUME MatchAssumption ==
  /\ IsFiniteSet(DisposedRows) /\ DisposedRows \subseteq Nat \ {0} /\ LineNumbers \subseteq Nat /\ RowLimit \in Nat
  /\ \A t \in PathTexts : t = [base |-> t.base, takes |-> t.takes]
  /\ \A t \in SymbolTexts :
       t.base # "none" /\ t = [known |-> t.known, base |-> t.base, takes |-> t.takes]
ASSUME SummaryAssumption ==
  /\ Severities \subseteq Nat \ {0}
  /\ "none" \notin Commits
(* A commit changes finitely many files; an import is a path with names.    *)
ASSUME ContextAssumption ==
  /\ Paths \subseteq Nat /\ MaxTerms \in Nat
  /\ \A c \in Reviewed :
       /\ IsFiniteSet(Changed[c]) /\ Changed[c] \subseteq Paths
       /\ \A p \in Changed[c] : Len(FirstSymbols[c][p]) \in Nat

(* A path without a space is one word.                                      *)
ASSUME TextAssumption ==
  \A n \in Names : Len(Words[n]) = 1 => Words[n] = <<n>>

(* A finding quotes code, or its anchor is none.                            *)
ASSUME AnswerAssumption ==
  "none" \notin Anchors /\ \A f \in Raised : f.anchor \in Anchors \cup {"none"}

ASSUME ScoringAssumption ==
  CaseLines \subseteq Nat /\ MaxExpected \in Nat /\ MaxReported \in Nat /\ MinDistinct \in Nat

(* A corpus without a case is refused.                                      *)
ASSUME EvaluationAssumption ==
  EvalCases # <<>> /\ EvalCases \in Seq([clean : BOOLEAN, steps : Nat \ {0}]) /\ MaxTrials \in Nat

VARIABLES
  part,  \* the part that is looked at
  s1, s2, s3, s4, s5, s6, s7, s8, s9, s10

Database == INSTANCE StateDatabase WITH
  Openers <- Two,
  log <- s1, main <- s2, wal <- s3, build <- s4, at <- s5, version <- s6,
  reader <- s7, seen <- s8, again <- s9, compared <- s10
Installation == INSTANCE HookInstallation WITH
  husky <- s1, script <- s2, executable <- s3, launcher <- s4, runtime <- s5,
  command <- s6, edits <- s7, commands <- s8
Setup == INSTANCE AgentSetup WITH
  settings <- s1, text <- s2, settings0 <- s3, text0 <- s4, setups <- s5
Preference == INSTANCE ReviewPreference WITH
  Writers <- Two, MaxChanges <- MaxPreferences,
  file <- s1, writer <- s2, changes <- s3, asked <- s4
Root == INSTANCE StateRoot WITH
  lookups <- s1, memo <- s2, callers <- s3

Match == INSTANCE DuplicateMatch WITH
  Rows <- DisposedRows, Files <- PathTexts, Symbols <- SymbolTexts, Lines <- LineNumbers,
  MaxLineDistance <- MaxDistance, Limit <- RowLimit,
  candidate <- s1, rows <- s2, link <- s3
Summary == INSTANCE FindingSummary WITH
  Findings <- Two,
  rows <- s1, status <- s2, head <- s3, index <- s4, changes <- s5, q <- s6
Context == INSTANCE ReviewContext WITH
  Commits <- Reviewed,
  head <- s1, moved <- s2, cache <- s3, rv <- s4
Text == INSTANCE DiffText WITH
  files <- s1, phase <- s2, drafts <- s3, cur <- s4, newLine <- s5,
  changed <- s6, Reviewable <- ShownPaths
Document == INSTANCE ReviewDocument WITH
  MaxAttempts <- MaxAnswers, Starts <- FirstTexts,
  text <- s1, more <- s2, attempt <- s3, ended <- s4
Answer == INSTANCE ReviewFindings WITH
  Found <- Raised, MaxFound <- MaxRaised, MaxAttempts <- MaxAnswers,
  document <- s1, status <- s2, report <- s3, attempt <- s4, policy <- s5,
  answer <- s6, ledger <- s7
Telemetry == INSTANCE ExecutionTelemetry WITH
  clock <- s1, phases <- s2, window <- s3, waited <- s4, served <- s5,
  activity <- s6, finished <- s7, kept <- s8, owner <- s9
Command == INSTANCE ReviewCommand WITH
  cmd <- s1, stage <- s2, unspent <- s3, timers <- s4, held <- s5,
  outcome <- s6, told <- s7, printed <- s8, exitCode <- s9
Evidence == INSTANCE ProtocolEvidence WITH
  Nodes <- 1..SchemaSize,
  doc <- s1, generated <- s2, ev <- s3, late <- s4, aborted <- s5
Scoring == INSTANCE EvalScoring WITH
  Lines <- CaseLines,
  question <- s1, expected <- s2, reported <- s3, suppressed <- s4,
  verdict <- s5
Eval == INSTANCE EvalRun WITH
  Cases <- EvalCases,
  options <- s1, turn <- s2, dirs <- s3, ev <- s4, results <- s5, before <- s6
Run == INSTANCE VerificationRun WITH Runners <- Two,
  receipt <- s1, owned <- s2, process <- s3, scratch <- s4, runner <- s5,
  cleaner <- s6

(* An answer is made of tokens; a schema is a tree, some path must be there. *)
ASSUME DocumentAssumption == FirstTexts \subseteq Seq(Document!Tokens)
ASSUME ProtocolAssumption ==
  /\ SchemaSize \in Nat \ {0} /\ Required # {}
  /\ \A d \in Samples : [parent |-> d.parent, property |-> d.property, ref |-> d.ref] \in Evidence!Schemas

partsVars == <<part, vars, s1, s2, s3, s4, s5, s6, s7, s8, s9, s10>>

Unused == "unused"

(* The slots beyond the first k are not used, and do not change.            *)
Idle(k) ==
  /\ IF k < 1 THEN s1 = Unused ELSE TRUE
  /\ IF k < 2 THEN s2 = Unused ELSE TRUE
  /\ IF k < 3 THEN s3 = Unused ELSE TRUE
  /\ IF k < 4 THEN s4 = Unused ELSE TRUE
  /\ IF k < 5 THEN s5 = Unused ELSE TRUE
  /\ IF k < 6 THEN s6 = Unused ELSE TRUE
  /\ IF k < 7 THEN s7 = Unused ELSE TRUE
  /\ IF k < 8 THEN s8 = Unused ELSE TRUE
  /\ IF k < 9 THEN s9 = Unused ELSE TRUE
  /\ IF k < 10 THEN s10 = Unused ELSE TRUE
Rest(k) ==
  /\ UNCHANGED part
  /\ IF k < 1 THEN UNCHANGED s1 ELSE TRUE
  /\ IF k < 2 THEN UNCHANGED s2 ELSE TRUE
  /\ IF k < 3 THEN UNCHANGED s3 ELSE TRUE
  /\ IF k < 4 THEN UNCHANGED s4 ELSE TRUE
  /\ IF k < 5 THEN UNCHANGED s5 ELSE TRUE
  /\ IF k < 6 THEN UNCHANGED s6 ELSE TRUE
  /\ IF k < 7 THEN UNCHANGED s7 ELSE TRUE
  /\ IF k < 8 THEN UNCHANGED s8 ELSE TRUE
  /\ IF k < 9 THEN UNCHANGED s9 ELSE TRUE
  /\ IF k < 10 THEN UNCHANGED s10 ELSE TRUE

PartsInit ==
  /\ Init
  /\ \/ part = "findings" /\ Idle(0)
     \/ part = "database" /\ Idle(10) /\ Database!DatabaseInit
     \/ part = "installation" /\ Idle(8) /\ Installation!InstallationInit
     \/ part = "setup" /\ Idle(5) /\ Setup!SetupInit
     \/ part = "preference" /\ Idle(4) /\ Preference!PreferenceInit
     \/ part = "root" /\ Idle(3) /\ Root!RootInit
     \/ part = "duplicates" /\ Idle(3) /\ Match!MatchInit
     \/ part = "summary" /\ Idle(6) /\ Summary!SummaryInit
     \/ part = "context" /\ Idle(4) /\ Context!ContextInit
     \/ part = "diff" /\ Idle(6) /\ Text!TextInit
     \/ part = "document" /\ Idle(4) /\ Document!DocumentInit
     \/ part = "answer" /\ Idle(7) /\ Answer!FindingsInit
     \/ part = "telemetry" /\ Idle(9) /\ Telemetry!TelemetryInit
     \/ part = "command" /\ Idle(9) /\ Command!CommandInit
     \/ part = "protocol" /\ Idle(5) /\ Evidence!EvidenceInit
     \/ part = "scoring" /\ Idle(5) /\ Scoring!ScoringInit
     \/ part = "evaluation" /\ Idle(6) /\ Eval!EvalInit
     \/ part = "verification" /\ Idle(6) /\ Run!RunInit

Runs(p, k) == part = p /\ Rest(k) /\ UNCHANGED vars
KeepFindings == part = "findings" /\ Rest(0) /\ Next
OpenDatabase == Runs("database", 10) /\ Database!DatabaseNext
InstallHook == Runs("installation", 8) /\ Installation!InstallationNext
SetUpAgent == Runs("setup", 5) /\ Setup!SetupNext
ChoosePreference == Runs("preference", 4) /\ Preference!PreferenceNext
FindStateRoot == Runs("root", 3) /\ Root!RootNext
SuggestDuplicate == Runs("duplicates", 3) /\ Match!MatchNext
SummariseFindings == Runs("summary", 6) /\ Summary!SummaryNext
GatherContext == Runs("context", 4) /\ Context!ContextNext
ReadDiff == Runs("diff", 6) /\ Text!TextNext
ReadDocument == Runs("document", 4) /\ Document!DocumentNext
PublishFindings == Runs("answer", 7) /\ Answer!FindingsNext
RecordTelemetry == Runs("telemetry", 9) /\ Telemetry!TelemetryNext
RunCommand == Runs("command", 9) /\ Command!CommandNext
CheckProtocol == Runs("protocol", 5) /\ Evidence!EvidenceNext
ScoreCase == Runs("scoring", 5) /\ Scoring!ScoringNext
RunEvaluation == Runs("evaluation", 6) /\ Eval!EvalNext
RunVerification == Runs("verification", 6) /\ Run!RunNext

PartsNext ==
  \/ OpenDatabase \/ InstallHook \/ SetUpAgent \/ ChoosePreference
  \/ FindStateRoot \/ KeepFindings \/ SuggestDuplicate \/ SummariseFindings
  \/ GatherContext \/ ReadDiff \/ ReadDocument
  \/ PublishFindings \/ RecordTelemetry \/ RunCommand \/ CheckProtocol
  \/ ScoreCase \/ RunEvaluation \/ RunVerification
PartsSpec == PartsInit /\ [][PartsNext]_partsVars
-----------------------------------------------------------------------------
(* Processes of any builds that open the database at once leave a schema   *)
(* whose recorded history is the one it went through, and a copy taken for *)
(* reading is a state that was committed (src/state/db.ts:293,             *)
(* read-snapshot.ts:16).                                                   *)
StateIsSafe ==
  part = "database" => Database!HistoryIsTrue /\ Database!SnapshotIsCommitted

(* What is installed does what it was installed for, whatever a user edited *)
(* before or a killed command left: a launcher that counts as fresh runs    *)
(* (src/git/hook-installation.ts:43), a stored reasoning fits its model     *)
(* (review-preference.ts:106), and whoever asks for the state directory     *)
(* gets the same (git/state-root.ts:30).                                    *)
InstalledAsMeant ==
  /\ part = "installation" => Installation!FreshMeansRuns
  /\ part = "preference" => Preference!ReasoningFitsModel
  /\ part = "root" => Root!OneDirectory

(* Nobody undoes what is another's: a build never calls a database open     *)
(* whose history is not its own, the verdict of a finished verification     *)
(* stands, and a foreign process loses its PID to a signal only if it took  *)
(* that PID over too late to be told from ours (src/state/db.ts:154,        *)
(* skills/verify-diffowl/controller/commands.mjs:662, 691).                 *)
NothingForeignChanged ==
  [][/\ part = "database" => Database!OpensItsOwn
     /\ part = "verification" => Run!KeepsVerdict /\ Run!ForeignSpared]_partsVars

(* Files that are shared with a user or other projects stay theirs: an      *)
(* install or uninstall keeps the lines of the user's hook                  *)
(* (src/git/hook-installation.ts:384), a second setup changes nothing       *)
(* (integrations/claude-code.ts), and two projects share a state directory  *)
(* only if they are the same (git/state-root.ts:30).                        *)
SharedFilesKept ==
  [][/\ part = "installation" => Installation!KeepsUserLines
     /\ part = "setup" => Setup!SetupConverges'
     /\ part = "root" => Root!ProjectsApart]_partsVars

(* What a command answers is so: a review's exit code, output and signal    *)
(* (src/cli.ts:425), and the summary a commit is shown, with git late or    *)
(* gone (state/findings-summary.ts:190).                                    *)
CommandsAreTrue ==
  /\ part = "command" => Command!AnswerIsTrue
  /\ part = "summary" => Summary!SummaryIsHonest

(* An input that counts as verified has every changed file, and of the      *)
(* modules that import one all that the limit of the search allows, and no  *)
(* other (src/review/impact.ts:346, 559).                                   *)
InputIsTrue == part = "context" => Context!VerifiedIsComplete

(* Text that another program wrote is taken as it was meant: files and lines*)
(* of a diff (src/git/diff.ts:460), a streamed document only when complete  *)
(* (review/document.ts:331), and the protocol that a Codex generates, over  *)
(* a schema with cyclic references (codex/protocol-evidence.ts:650).        *)
TextIsUnderstood ==
  /\ part = "diff" => Text!ReadAsMeant
  /\ part = "document" => Document!TakenIsWhole
  /\ part = "protocol" => Evidence!EvidenceIsEarned

(* What a review found is kept whole: findings are merged, settled and      *)
(* counted without losing one (src/state/persist.ts:107,                    *)
(* review/verification.ts:268), and the duplicate it suggests is one of the *)
(* best disposed matches within the limit (state/possible-duplicates.ts:71).*)
AnswerIsKept ==
  /\ part = "answer" => Answer!FindingsAreKept
  /\ part = "duplicates" => Match!SuggestionIsBest

(* The time of an attempt is told apart without gap or overlap, up to its   *)
(* recorded end or, where another clock put that end earlier, up to its last*)
(* sign of life (src/review/execution-telemetry.ts:130, 165).               *)
TimeIsWhole == part = "telemetry" => Telemetry!TimeAddsUp

(* Numbers of an evaluation are earned: no finding counts twice, only a     *)
(* collapse of distinct defects fails an identity case, and errors, gates   *)
(* and a cut report are what the exit code says (src/eval/score.ts:94,      *)
(* eval/identity-score.ts:361, eval/runner.ts:138).                         *)
ScoresAreEarned ==
  /\ part = "scoring" => Scoring!ScoreCountsOnce /\ Scoring!FailureIsCollapse
  /\ part = "evaluation" => Eval!EvalIsHonest

(* A check that passed checked something: a passed verification ran its     *)
(* feature alone and cleaned up (skills/verify-diffowl/controller/          *)
(* run-command.mjs:107).                                                    *)
EvidenceIsReal == part = "verification" => Run!EvidenceIsSound

(* The comment at src/review/coverage.ts:21 says of a renamed file whose    *)
(* name has a space: hunks that are lost on the way are reported.           *)
HunksAreReported == part = "diff" => Text!LostHunksAreReported
=============================================================================
