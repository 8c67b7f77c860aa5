# Verification of diffowl

TLA+ specifications of diffowl (the TypeScript program under `src/src`, and the verification
controller under `src/skills`), TLC configurations that model-check them on small instances,
and theorems about them that TLAPS proves for every instance. Line numbers refer to the
sources in `src/`; a path without its first directory is under `src/src`.

Run a configuration with `tlc -workers 2 -config X.cfg M`, check proofs with `tlapm M.tla`.
`PROJECT.json` lists the runs, which source lines every definition models (`map`), the
hazards the properties are for, and for each property of a run one faulty variant of a
definition that it detects. Variants are named `Definition_WhatIsWrong` or the like and stand
before the definition they vary; those that `PROJECT.json` does not list break other conjuncts
of the same properties.

## 1. The system

diffowl reviews git changes with a language model and keeps what it found. It has no server:
every command is a short-lived process, and processes meet only in files. Several run at once
as a matter of course: each commit starts a hook process, a detached worker runs reviews in
the background, agents and people run commands in the same checkout and in linked worktrees.

| Component | Source | State | Operations |
| --- | --- | --- | --- |
| hook queue | `git/hooks.ts`, `cli.ts` | `pending-reviews/<sha>` markers and results, `hook-review.lock` | enqueue, take or break the lock, spawn the worker, run and judge reviews |
| review pipeline | `review/run.ts`, `state/review-execution-journal.ts`, `state/persist.ts` | rows of operation, execution, review, coverage; the report file | start, capture context, execute, persist, fail, publish |
| leases, reconciliation | `state/process-lease.ts`, `state/review-execution-reconciliation.ts` | a listening socket per running review | list running rows, probe, sweep |
| retention | `state/execution-retention.ts` | failed executions | delete by age and number |
| finding lifecycle | `state/reconcile.ts`, `state/lifecycle.ts`, repositories | status, first and last review, events of a finding | observe, dismiss, defer, fix, reopen |
| possible duplicates | `state/possible-duplicates.ts` | links between findings | match, suggest, confirm, reject, expire |
| findings summary | `state/findings-summary.ts`, `git/reachability.ts` | none | count what concerns a worktree |
| readiness | `review/readiness.ts`, `review/readiness-runtime.ts`, `state/readiness-evidence.ts` | none, it reads everything above | one query |
| agent handoff | `docs/agent-handoff.md` | none | one action per answer |
| state database | `state/db.ts`, `state/sqlite.ts`, `state/read-snapshot.ts` | the SQLite file, its WAL, the rows of `schema_migrations` | open, migrate, repair, copy to read |
| state root | `git/state-root.ts` | a memo of the lookup | find the directory all worktrees share |
| codex peer | `codex/app-server-peer.ts` | pending and ignored requests, notifications, the state of one child | request, abort, handle a line, exit, close in stages |
| codex runner | `codex/review-runner.ts`, `codex/repository-guard.ts` | one review: turns, snapshots, what failed, what was cancelled | handshake, turn, collect, interrupt, check, close |
| codex protocol evidence | `codex/protocol-evidence.ts` | a temporary directory | generate, read, compare with what is required |
| opencode executor | `opencode/client.ts`, `settlement.ts`, `server.ts` | a session with its messages; the shared server and its pid file | prompt, stream, look, settle; ensure, stop |
| claude, cursor executors | `claude/executor.ts`, `cursor/executor.ts`, `cursor/worker.ts` | a child or worker with its process group | snapshot, run, read, reap, check |
| git diff | `git/diff.ts`, `review/context*.ts` | none | list files, number lines, cut the text |
| context and impact | `review/context.ts`, `review/impact.ts` | an index of import bindings on disk | collect, degrade |
| review answers | `review/document.ts`, `filters.ts`, `verification.ts`, `state/persist.ts` | none | extract, filter, check, merge |
| telemetry | `review/execution-telemetry.ts` | a snapshot in the execution row | begin, end, wait, finish |
| preferences | `review-preference.ts`, `effective-config.ts` | one JSON file | load, change, replace |
| hook installation | `git/hook-installation.ts` | hook script, launcher | install, uninstall, judge staleness |
| agent integrations | `integrations/` | `AGENTS.md`, `.claude/settings.json` | set up |
| command line | `cli.ts` | hook status, stdout, exit code | review, findings, readiness, ... |
| evaluation | `eval/` | recorded cases, temporary repositories | run, score, gate, compare |
| verification controller | `skills/verify-diffowl/controller` | receipt, manifest, owned processes | run, cancel, clean up |

How they interact: a hook writes a marker and may spawn a worker; the worker starts one review
child per marker and reads the result file it leaves; a review opens the shared database (which
migrates it and reconciles what other processes left behind), records an execution owned by its
lease, collects its context, runs one executor, and saves review, findings and links in one
transaction with the completion of the execution; only then it writes the report and, in
another transaction, its path and coverage. Users and agents decide on findings at any time.
Readiness looks at all of it without a lock and answers with a reason and a next action.

What is hard here: every process can be killed between any two file accesses; stale locks and
leases are judged from outside; markers, results and database rows are read at one moment and
acted on at a later one; two reviews of one input overlap; decisions meet later observations;
an executor's child answers late or never, dies, or has to be killed while a cancel, a deadline
and a failure race to say how the review ended; different builds open one database; text that
git, a model or a user wrote is taken apart by line. The hazards in `PROJECT.json` name the lines.

## 2. What makes each component correct

- Hook queue: no queued commit is lost; only a completed review removes one; no worker loops
  for ever; a stale lock does not stop the queue; new commits come before retries, and a failed
  one does not keep the worker from the next.
- Review execution: one outcome per attempt, for good; a saved review has a completed attempt;
  "interrupted" is said only of attempts whose owner is gone or silent; nothing is
  left running; cleanup keeps the latest failures; coverage implies a published report.
- Findings: the events explain the status; what a user closed stays closed; suggestions stay
  decidable and are best matches, confirmed ones agree with their source, links form no circles.
- Readiness: `ready` implies that every commit is covered under the current policy, that
  findings are decided and nothing runs or waits; an answer is about inputs that were current;
  following the answers duplicates a review only where its lease was silent when asked, and ends
  in a handoff or in the report of a finding that cannot be cleared.
- Executors: whatever the child, the server or the SDK does, nobody waits for ever; a review is
  handed out only if its process group is gone and the repository was compared and unchanged; a
  change that was seen is what is reported; a complete answer is not lost and a rejected one not
  revived; only a process that is OpenCode is ever signalled.
- Database: the recorded migrations are the ones that ran; a build does not work on a history
  that is not its own; a copy is a state that was committed.
- Everything between diff and report: an input that counts as verified is complete, lines keep
  the meaning git gave them, an answer is taken only when it is whole, no finding is lost when
  merged, and numbers and exit codes say what happened.
- What is installed into files of the user works afterwards and leaves the user's lines alone.

## 3. Modules

| Module | Models | Extends / instances |
| --- | --- | --- |
| `HookQueue` | hook, worker and review child, one step per file access | |
| `ReviewExecution` | one attempt against the shared database, reconciliation, retention | instances `ReviewLedger` |
| `ReviewLedger` | abstract: what the database promises about attempts and reviews | |
| `FindingLifecycle` | findings, events, duplicate links, one transaction per command | |
| `Readiness` | the decision of a query, as operators over what it has read | |
| `ReadinessQuery` | the query as a process beside commits, hooks and reviews, and an agent | extends `Readiness` |
| `AppServerPeer` | the codex peer with any client and any child | |
| `CodexReview` | one codex review: runner, notification reader, cancel and deadline | extends `AppServerPeer` |
| `OpenCodeReview` | a prompt, its retries, and the three sources that race to settle it | |
| `OpenCodeServer` | command lines that find, replace, spawn and stop the shared server | |
| `ClaudeReview`, `CursorReview` | one review with a child, or a worker, and its process group | |
| `GuardedReview` | abstract: what an executor that runs a child promises | |
| `ReviewBackends` | the choice of an executor, and their common promises | instances the five above |
| `StateDatabase` | opening, migrating and copying `state.db` by different builds | |
| `StateRoot` | which directory holds the state, and the memo of the lookup | |
| `HookInstallation` | hook script and launcher beside user edits, upgrades and kills | |
| `AgentSetup`, `ReviewPreference` | files shared with the user or with other commands | |
| `FindingSummary`, `DuplicateMatch` | two queries on the database | |
| `DiffText`, `ReviewContext` | from the diff to what a review is given to read | |
| `ReviewDocument`, `ReviewFindings` | from a model's text to the findings that are saved | |
| `ExecutionTelemetry` | phases and provider windows of an attempt | |
| `ReviewCommand` | the process of `diffowl review`, its signals and its exit | |
| `ProtocolEvidence` | the check of the installed Codex before a review | |
| `EvalScoring`, `EvalRun` | scoring one trial, and a whole evaluation | |
| `VerificationRun` | the verification controller | |
| `LocalParts` | the parts that meet only in what they leave behind, one per behaviour | extends `FindingLifecycle`, instances `DuplicateMatch` and `StateDatabase` to `VerificationRun` above |
| `MC*` | instances for TLC | the module named |
| `*Proofs` | theorems and proofs | the module named and TLAPS |

### HookQueue

State: `lock`, `marker`, `queuedAt`, `result` are the files; `hpc`/`head` a hook process;
`wpc`, `cur`, `tried`, `names`, `results` a worker with its directory snapshot; `child` the
review process of a worker. `Enqueue`, `CreateMarker`, `WriteMarker` are `enqueuePendingReview`
(existence test, open, write), `OpenLock` ... `RecordWorker` are `acquireHookReviewLock` and
`runHookReview`, the worker's actions follow `runPendingHookReviews` line by line, and the
child's exit handler removes the lock as `cli.ts:226` does. `CrashHook` and `CrashWorker` kill
a process at any step; its child lives on. `owed` is no variable of the code: per worker, the
commits that were readable when it was started and that nobody has removed or truncated since.
Left out: files that are only written for people, process-id reuse, EPERM from a signal probe.

### ReviewExecution and ReviewLedger

A run is a process that reviews; an opener is any other command that opens the database. An
open is three steps (`ListRunning`, `ProbeLeases`, `SweepStale`) because the code probes
outside its transaction. A transaction is one step. `Faults` lets any transaction or file
access fail, `Crashes` kills processes, `ProbeMisses` lets a live lease be silent. The
refinement maps `exec` to the outcome on record and `review` to whether something is saved;
`ImplementsLedger` says that all those processes together never take a step the ledger
does not have: no outcome is changed, no review is saved without its completion.

### FindingLifecycle and DuplicateMatch

`PersistReview` is `reconcileReviewFindings` for any set of observed findings, with the links
it inserts; `Decide`, `Reopen`, `Confirm`, `Reject` are the commands. A command that is refused
is a step not taken. Similarity is left open there (any pair may match), so the properties hold
whatever the score says; `DuplicateMatch` has the query with its limit, the score with its
signals and the choice of the best. Left out: actors, reasons, `observed` events.

### Readiness and ReadinessQuery

`Reason(r)` is `getReadiness` and `selectCoverage` over a record `r` of evidence. The query
reads checkout, queue, base, HEAD, policy and snapshot in the code's order, one step each,
probes leases, and reads queue, checkout, base and policy again; a difference makes it an
operational error. Beside it the developer commits, moves the base, edits and reconfigures;
hooks queue and retry; reviews start, save, publish, fail and are killed. `clock` orders what the
code orders by time stamps. `Askers` says who asks: an agent that acts on each answer as
`docs/agent-handoff.md` prescribes, people in a repository with the hook installed, or people
without it. An agent beside an installed hook is not combined: the product is too large for TLC.
A live review may miss its probe, in a query (`ProbeLeases`) or in a sweep of another process
(`ReviewFails`), as `state/process-lease.ts:28, 64` lets it. A finding may be actionable, deferred or
without an identity; only the first kind can be decided, and where nothing else blocks the agent
reports the blocker instead of handing off (`ReportBlocker`, `docs/agent-handoff.md:55-57, 76-78`).
Left out: staged and skipped reviews, informational findings, the
wording of diagnostics. History only moves forward: with a HEAD that is moved away and back
between two reads the query could not notice, and nothing it answers would depend on it.

### AppServerPeer and CodexReview

An event handler of the peer, and each call of its client, is one step: `HandleLine` is the
reader loop with `handle`, `OnExit` and `SpawnFails` the child's events, `Abort` the abort
listener, `CloseStageTimeout` and `CloseSettles` the stages of `closePeer`. The child is a
stranger that answers what it was asked in any order or never, writes any other line, closes
its stdout and dies; a line is in `stdout` until the peer handles it. `PeerSpec` lets a client
make any calls.

`CodexReview` is one such client. Its steps run from one `await` of `executeCodexReview`,
`collectTurn` and `interruptTurn` to the next; `pc` names the await, `error` what is being
thrown. `Pump` and `ReaderNext` are `NotificationReader`, which buffers a second time. As in
the event loop, continuations that are ready (`Ready`) run before the next event or timer,
except that the peer may handle another line. A snapshot of the repository is `original` or
`edited`: somebody may have changed it before any of them. Left out: what prompts, documents
and requests say, model capabilities (their failure is a warning), usage, telemetry,
failure evidence, notifications of other threads. A child that answers a request
twice breaks the protocol, which is `junk`.

### ReviewBackends and the other executors

`ReviewBackends` chooses one executor at the start, as `review/executor.ts` does; variables the
others use keep the value `Unused`. `OpenCodeReview` has every await of `runReview`: the event
stream that may break, the periodic look at the stored messages, the time limit and the cancel
all try to settle one attempt (`Resolve`, `Reject`), and a retry starts another on the same
session. `ClaudeReview` has the child that prints, forks, closes its stdout, ignores SIGTERM
and hangs, and the executor's stages to get rid of it; `CursorReview` the worker process, its
mailbox, and cleanup whose failures hide behind an earlier one. Both map to `GuardedReview`,
whose steps are only: give up, start, work, and end with an outcome that the checks allow.
`OpenCodeServer` numbers processes and lets callers run `ensureServer` and `stopServer` with
every look and signal a step of its own. Left out: Windows, process-id reuse, usage,
permissions, diagnostics.

### LocalParts and its parts

These parts never act inside a step of each other, so `LocalParts` runs one of them per
behaviour: `part` is chosen at the start, `s1` to `s10` are shared slots that the instances
give their own names, and slots a part does not use keep `Unused`. The sizes of the parts that
theorems are about are constants of `LocalParts`, with the values in `MCLocalParts` and its cfg;
the others are given in the module. For TLC `MCInit` starts the database and the summary in
fewer places than their modules allow, `MatchStart` the duplicates in every case.

- `StateDatabase`: `log` holds every committed content, `main` and `wal` say which of them each
  file holds, so that a copy made from two reads can mix them. A build knows some migrations and
  may run other statements under a number, which `assertMigrationIdentity` (`state/db.ts:152`)
  is to notice.
- `StateRoot`: directories with a `.git` that is a directory, a file or a link; three callers'
  lookups share and forget one memo.
- `HookInstallation`: a script is a sequence of lines, every file access a step; the user edits
  between them. `AgentSetup`: any settings and any text, then setups until nothing changes.
- `ReviewPreference`: two writers, each with its two reads and its rename.
- `FindingSummary`: the answer is assembled from database, refs and a staged diff whose git may
  be killed by its time limit while a driver keeps the pipe. Two changes may fall into one query:
  a finding that is dismissed after the rows were read, on a commit that HEAD reaches only
  afterwards, is told although it never was unresolved and near at once. So `SummaryIsHonest`
  asks that it was unresolved at some moment and near at some moment; the proof attempt showed
  that one moment for both would be too much to ask, and TLC agrees with two changes.
- `DiffText`: git prints a diff line by line, three readers follow; `files` is what it means. A
  changed line may look like the header of a file, even of one that is new or gone.
- `ReviewContext`: changed modules, their importers, the cached index. A changed file offers its
  name and then up to four exported symbols as terms to look for, and the search stops taking new
  ones at `MaxTerms`, eight in the code and two in the runs. What that drops is not told, so
  `VerifiedIsComplete` asks for the importers of what comes before the limit, and that nothing
  else is named; every other loss must degrade.
- `ReviewDocument`: a stream of tokens; `ReviewFindings`: filter, check, merge, save.
- `ExecutionTelemetry`: the record of a dead process is closed with the reading of whoever closes
  it, which may be behind; then the phases reach to the last stored update, and `TimeAddsUp` says so.
- `EvalRun`: every threshold of the gate is optional. A failed trial scores like a silent one, so a
  gate that asks for precision alone passes a run in which every trial failed; `EvalIsHonest` asks
  for something reviewed where the gate demands recall.
- `VerificationRun`: a signal reaches whoever has the PID at that moment. Between the look and the
  signal another process may have taken it (`commands.mjs:475, 553, 719`; `ps` and `kill` in
  `cleanup.sh`), before that one with our command line may have been recorded as the run's own, and
  the helper asks for no more than a command line. `ForeignSpared` says that a foreign process is
  ended in none but these ways.
- `ReviewCommand`, `ProtocolEvidence`, `EvalScoring`: what their table rows say; each begins with
  what it leaves out.

## 4. Runs

| Run | Question | Instance | States |
| --- | --- | --- | --- |
| `hook_queue_safety` | can overlapping hooks and workers lose a commit, retry an old one first, or leave the queue after one failure? | 2 hooks, 2 commits, 1 kill, symmetry | 3.3 M |
| `hook_queue_liveness` | with any kills, is a success ever false; do workers end, are stale locks taken over? | 2 serial hooks, 1 commit, any kills | 55 k |
| `hook_serial` | is there one worker at a time when hooks do not overlap? (no) | 2 hooks, 2 commits, no kills | stops at the violation |
| `review_execution_safety` | do sweeps, retention, faults and kills respect outcomes; is the ledger implemented? | 2 runs, 1 opener, limit 1, symmetry | 159 k |
| `review_execution_liveness` | is everything that nobody owns closed, does every lease end? | 2 runs | 24 k |
| `readiness_agent` | is ready deserved, and is it reached by following the answers? | agent, or people with the hook; 1 change, 1 fault, 1 other review, 6 reviews | 405 k |
| `readiness_failure` | does review-failed mean that something failed? (no) | no fault at all | stops at the violation |
| `readiness_newer` | is a newer failure never hidden by an older proof? (it can be) | 1 fault | stops at the violation |
| `codex_review` | does every review end, and end truthfully, whatever the child, the user, the clock and the repository do? | 2 requests before 2 turns, 2 lines, 2 notifications | 967 k |
| `review_backends` | do the other executors keep their promises and end? | 2 attempts, 2 messages, 2 events, 1 line, 2 callers | 558 k |
| `local_parts` | is each of eighteen parts right on its own state? | see `MCLocalParts`; 3 findings, 3 reviews, 2 events each, symmetry | 1.6 M |
| `diff_hunks` | are hunks that are lost from the prompt reported? (not always) | the part `diff` | stops at the violation |

Bounds. Two hooks are two workers, a lock and a taker; two commits are what it takes to
order, skip, stop, and go on to another after a failure; the safety run kills any one of the
processes, and `MaxKills = 4` in the liveness run is every process. A codex review needs two requests
before its turns so that one can be answered after another, two turns for a retry, and one more
request for an interrupt; two notifications are a progress and an end, or the ends of two turns,
and two lines in the pipe let one stay behind while the peer takes another. Two attempts let an
OpenCode retry meet the leftovers of the first, two messages and events let one be late; two
callers and three servers are a found one and one spawned by each. Two runs and an opener give
every pair of roles in a race on one row: owner against sweeper, sweeper against sweeper, retention
against both. Three findings make a chain of links. The history of the readiness runs is c0, c1,
and a merge m of a side branch s: a checkpoint, a repair above it, a side commit off the
first-parent line, and a base that can move; with the hook, c1 is queued before and m after the
start, so a failed marker can be retried behind another. Two openers whose builds differ in
every way the code tells apart, one migration to make and one other write are enough to mix
histories and copies. The other parts: three reports for two expectations on near, nearest and
distant lines make a greedy choice that takes from a neighbour; two cases with two trials, one of
them failing; a diff of two files, one of whose names has a space and whose last word is a name
too; an answer of a marker and four tokens, enough for a quoted or an open brace; a schema of
four nodes with two references, enough for a cycle; two groups of two entries and four lines of
instructions, enough for a doubled entry and a section without its end.

`MaxKills`, `MaxChanges`, `MaxFaults`, `MaxReviews`, `MaxOthers`, `MaxEvents`,
`MaxRequests`, `MaxPipe`, `MaxNotes`, `MaxMessages`, `MaxLines`, `MaxServers`, `MaxWrites`,
`MaxEdits`, `MaxCommands` and the other bounds of the parts count what the environment does or
how far a counter goes. `MaxAttempts` is the code's limit of three turns, set to two here: one that
is retried and one that is not; the proofs hold for any. The agent never meets `MaxReviews = 6`,
otherwise `HandoffReached` would fail. `CHECK_DEADLOCK FALSE` everywhere: processes end, and the
counters run out. Symmetry is used in safety runs only.

Type invariants are proved (section 6), so most runs do not repeat them. Where a run's property
is a conjunction (`ReadyIsSettled`, `StateIsSafe`, `InstalledAsMeant`, `SharedFilesKept`,
`CommandsAreTrue`, `TextIsUnderstood`, `AnswerIsKept`), its parts are named in its definition and
each is explained there. The constraint `GateOrCompare` in `LocalParts.cfg` keeps
out evaluations that compare and also have a gate, but for the gate with a threshold for recall
alone: what is left has a gate with every choice of thresholds, a comparison, and both together
once. The theorem `ScoresAreHonest` covers every combination.

Fairness. A process that was not killed goes on (`WF` of its next step); a review ends because
it has a time limit; a query ends; an agent acts on its answer. In a
codex review the event loop runs what is ready (`Runner`), timers fire (`Timers`) and time passes
(`DeadlinePasses`); the child owes nothing, not even its exit. In the other executors `OwnStep` is
the executor's own code, whose calls return or fail, `Limit` its timer, `LookEnds` a look at the
messages, which ends after two seconds at the latest (`opencode/client.ts:611`), and `ServerCall` a command line at the server, all of
whose waits are bounded; the agent, the child, the SDK and the servers may hang. Nobody is obliged
to commit, decide, cancel, or start a hook, and kills and faults are never forced. No property
needs strong fairness.

## 5. Findings

1. `hook_serial` (code bug, `git/hooks.ts:378`): the worker removes `DIFFOWL_HOOK_LOCK` from the
   environment of its review children, but execa merges the parent's environment in again, so
   the child's exit handler removes the worker's lock and the next commit starts a second
   worker. The safety runs show that this loses no commit.
2. `readiness_failure` (`review/readiness.ts:110`, `:103`): a review that is saved but whose
   report path is not on record yet, or that ended between snapshot and lease probe, is
   answered `review-failed`. The contract reserves that for a failed attempt.
3. `readiness_newer` (`review/readiness.ts:95`): the saved time of a proof is compared with the
   start time of a failure, so when two reviews of one input overlap a failure that started and
   ended later can be hidden, which `docs/readiness-contract.md:56` excludes.
4. `diff_hunks` (code bug, `review/context-render.ts:212`): `filterDiffRaw` reads paths from the
   `diff --git` line alone, which is ambiguous when a path has a space; the text of a renamed and
   edited file is left out of the prompt, and no degradation says so, although
   `review/coverage.ts:22` says that lost hunks fail closed.

What the models say about the rest of the code, without a run of its own:

- `codex/review-runner.ts:770`: when the snapshot after the close fails, an interrupted review is
  still reported as cleanly cancelled, while `codex/README.md:30` requires a final unchanged
  snapshot. `OutcomeIsTrue` therefore asks of a cancel only that it was acknowledged, interrupted
  and closed without a signal; a change that was seen is reported all the same.
- `opencode/client.ts:500`: an event of a message that the first attempt never saw is in neither
  set that a retry ignores, so it can settle the retry with text that was rejected.
  `OpenCodeSettles` asks this of looks only.
- `git/hooks.ts:478`: a marker that a kill left empty never parses and, because it exists, is never
  written; `review/readiness.ts:127`: a failed marker whose commit was reviewed by hand answers
  wait until a later commit's worker runs, which is why `HandoffReached` is about an agent without
  the hook; `review/run.ts:512`: with `skip_doc_only`, a repair that only changes documentation is
  never reviewed, so the gap it leaves stays.
- `review/context.ts:439-455`, `git/diff.ts:424`: changed lines are numbered one too high after
  `\ No newline at end of file`, and an added line that begins with `++` is skipped. `ReadAsMeant`
  states what holds.
- `state/persist.ts:107`: of findings that share an anchor the first is kept, whatever its severity.
- `state/repositories/possible-duplicates.ts:246`: at most 200 rows are fetched before any is
  scored, and SQLite lowers ASCII only; a better and older match may not be seen.
- `git/diff.ts:282`: the staged diff is cut at 2 MB before it is hashed, and its forced kill is
  cleared when git itself is gone.
- `review/verification.ts`: the checker is called by no command.
- `eval/`: thresholds and the file to compare with are read only after all trials, and a failure
  to read them loses the results (`command.ts:206`); a failing cleanup discards the run
  (`runner.ts:138`); a trial that errored counts with precision 1 (`metrics.ts:25`), so only a
  threshold for recall, or a comparison that fails on regressions, notices a run of errors.
- `review/impact.ts:346`: the eight terms of the search are shared by the names and the exported
  symbols of all changed files, in the order of the diff; importers of later files are dropped
  without a degradation, and the input still counts as verified.
- `review/readiness.ts:103`: where the lease of a live review misses its probe, the answer is
  `review-failed` and an agent starts a second review beside it (`NoDuplicateReview` names the case).
- `skills/verify-diffowl/controller/commands.mjs:587`: a cleanup may meet a run that is created and
  not yet claimed; a process started before it is in the manifest is not found by a cleanup.
- `git/diff.ts:405-412`: a removed line `-- /dev/null`, or an added `++ /dev/null`, makes the file
  count as added, or deleted.

## 6. Theorems

Each holds for every value of the constants; the assumptions are the `ASSUME`s of the module.

| Proof module | Theorems | Inductive invariant |
| --- | --- | --- |
| `HookQueueProofs` | `TypeCorrect`, `NothingLost`, `SuccessCorrect`, `FirstAttemptsFirst`, `QueueIsTried` | `IInv` |
| `ReviewExecutionProofs` | `TypeCorrect`, `SourceCorrect`, `InterruptionCorrect`, `PublicationCorrect`, `LedgerImplemented`, `RetentionCorrect` | `IInv`, and `Accounted` of every step |
| `FindingLifecycleProofs` | `TypeCorrect`, `HistoryCorrect`, `SuggestedCorrect`, `ConfirmedCorrect`, `MatchedCorrect`, `LinksCorrect`, `DispositionsCorrect` | `IInv` |
| `ReadinessQueryProofs` | `TypeCorrect`, `TargetIsCurrent`, `ReadyMeansCovered`, `ReadyMeansHandled`, `ReadyMeansQuiet`, `ReadyMeansSettled`, `NeverBeside` | `IInv` |
| `CodexReviewProofs` | of the peer: `PeerTypeCorrect`, `NobodyIsLeftWaiting`, `LateResponsesAreHarmless`, `NotificationsInOrder`, `PeerIsCorrect`; of the review: `ReviewIsClient`, `ReviewPeerCorrect`, `ReviewedMeansSound`, `ChangesAreReported`, `CancelledMeansClean`, `OutcomesAreTrue`, `NothingIsSkipped` | `IInv`; `CInv`, `Reading` |
| `ReviewBackendsProofs` | `PromiseIsKept`, `ServerStaysRight`, `OpenCodeAlwaysSettles` | `ClaudeInv`, `CursorInv`, `ServerInv`, `OpenCodeInv` |
| `LocalReviewProofs` | `VerifiedInputIsComplete`, `AnswersAreTrue`, `TimeIsAccounted`, `ScoresAreHonest` | `ContextInv`, `CommandInv`, `SummaryInv`, `TelemetryInv`, `ScoringInv`, `EvaluationInv`; `AnswerInv` and `EvidenceInv`, which the next module uses |
| `LocalStateProofs` | `DatabaseSafe`, `VerifiedIsSound`, `OthersKeepTheirs`, `InstalledIsAsMeant`, `AnswersAreKept`, `TextIsRead`, `SharedFilesAreKept` | `DatabaseInv`, `RunInv`, `InstallationInv`, `MarkersInv`, `PreferenceInv`, `RootInv`, `MatchInv`, `TextInv`, `DocumentInv`, `SetupInv` |

- HookQueue. `NoCommitLost` is not inductive: it says nothing of a worker about to unlink a
  marker. The invariant adds `SuccessIsReal` (such a worker read a success, and a
  success is written only with the commit reviewed), `CreatedIsKept` (the hook's own
  half-written marker) and `Assigned` (every process past its first step has its commit).
  `FirstAttemptsFirst` is an action property: whichever process moves, a worker that takes its
  next commit takes it off its own snapshot, in the order of `Precedes`. `QueueIsTried` says that a
  worker which leaves by itself has tried all that was readable when it was started and is still
  listed, unless a write threw or a review stopped the queue; `OwedIsListed` keeps such a commit
  readable, and in the snapshot that the worker is about to read.
- ReviewExecution. `Stage` says which rows, lease and report belong to each step of a run;
  with it a run creates only what is absent and completes only what is running.
  `Findings` carries "nobody owns this" from a probe to the sweep that may come much later.
  `LedgerImplemented` is the refinement: initial states map to initial states, every step to
  a step of the ledger or a stutter. `RetentionCorrect` needs that the failures being counted are
  finitely many although the runs are not (`Accounted`: a step records one attempt at most),
  and that what a deletion counts (`Later`) only grows, so no failure it spared is dropped later.
- FindingLifecycle. The key is that dismissed and deferred findings never move: what a link was
  made from still holds when it is decided. The proof first shows that every step keeps,
  inserts or moves each finding by one event, then that links survive such steps.
- Readiness. The query reads many things at many moments; the invariant says what each read still
  means when the answer is given. `Targeted`: the base and HEAD it read are ancestors of those of
  now, and equal to those of the snapshot once they were read again. `Following`: every row it read
  has since moved only forward, and every row or decision it did not see is younger than the query.
  `QueueFollowing` says the same of the queue. What the other processes
  do is first summed up in one relation (`WorldMoves`), so a step of theirs is proved harmless once.
  That `ready` implies coverage needs the graph: a first-parent chain that a checkpoint or
  repair reaches is covered because the first commit of the chain that it reaches splits it. The
  history may be any finite acyclic one in which every base shares an ancestor with every HEAD.
  `Chain` and `Ancestors` are recursive, so that ancestry is an order follows from their fixpoint
  equation and from `AcyclicAssumption` alone. `NeverBeside` is the action property: an agent
  that follows its answers starts a review beside a running one only after `review-failed`, and only
  where that very review missed its probe; no other answer and no order of events leads to it.
- Codex peer. `Answering` says of every request whether its response can still come, and that
  the peer then knows it as pending or ignored; `Numbering` and `Queueing` give each line in
  the pipe and in the queues its place; `Ending` ties errors, exit, signals and the close stage.
- CodexReview. Every step of the review is a step of `PeerSpec` or leaves the peer alone, so what
  is proved of the peer holds here. `CInv` says, for each place of the runner, which
  snapshots exist, that a differing one is already the error or the failure, and that a report
  has an equal one after its turn; at the end `CleanClose` gives the rest. `Reading` numbers the
  second buffer: peer queue, delivery, reader queue and what the runner looks at continue one another.
- ReviewBackends. `PromiseIsKept` is the refinement of `GuardedReview` by both executors. It needs
  that no process of the group runs where the repository is compared (`ClaudeInv` by phase,
  `CursorGroup`), and that what will be thrown is a change exactly when a second snapshot showed one
  (`CursorEnding`). `ServerStaysRight` needs that the server found at the start never starts again,
  so that once a caller has seen the port free (`CallsRight`) what listens there is of its version,
  and that a signal goes only to a process that was asked for its name (`StatesKept`).

  `OpenCodeAlwaysSettles` needs that whatever was rejected is ignored by every later look, and that
  a settled attempt has one source and the value that stood in its buffer.
- LocalParts. A step of one part leaves every other alone (`PartStays` and the `...Alone` lemmas), so
  each part has an invariant of its own, which its module states under "What the proofs need".
  Database: what the file lacks of the log is in the WAL (`FilesFit`), a copy is only as old as the
  file it was made from and never looks again as it did before (`CopiesFit`), and what an opener
  has found stays true because rows are only appended (`OpenersFit`); any number of processes and
  builds. Verification: whoever executes owns the receipt (`OwnerExecutes`), and a live process of
  the run is recorded unless the verdict is lost (`ProcessesKnown`); that foreign processes are
  spared also needs that what the helper kills is what it looked at (`HelperSaw`). Context: the cached record of a
  blob is what its parser makes of it (`CacheIsTrue`), every module of the commit waits, is known
  or was said to be skipped (`Accounted`), what is missing is said (`MissingIsSaid`). Summary: what
  was there all the while is read, kept or given up by name (`WatchFits`, `FreshFits`, `KeptFits`), and
  the staged hash is that of the index at one moment of the query (`StagedFits`). Command: each
  stage knows how the review ended (`StageFits`). Hook: the invariant has only types, for that a
  launcher which counts as fresh runs is true of every text. Preferences: file and writers in
  flight name models of their backends and variants that were asked for with them (`WriterFits`).
  State root: only the remembered lookup may still succeed (`RootFits`).

  Telemetry: up to the beginning of the phase that goes on, the phases and the provider's time
  are known but for the open window, which is open exactly when the last phase is the provider's
  (`GoesOn`); a snapshot that another process may finish knows the same (`KeptFits`), so what that
  process adds, nothing where its clock is behind, goes to the last phase and to the window at once. The sums
  over phases are a recursive function, so two facts about data come first: there is one such
  function for any list (`SumExists`, `SumsAre`), and lists that agree up to a place have the
  same sums up to it (`SumsAgree`). The library's induction cannot be used here; the lemmas take
  the least place at which they would fail instead (`LeastOfNumbers`).

  Findings: a published, merged, suppressed or withheld finding is counted where it went
  (`FindingsFit`), for any documents of the checker and any findings. Duplicates: a recorded link
  is the best of what the query could see (`MatchFits`); the query takes rows by their rank,
  so that ties are decided once.

  Scores: the greedy matching is settled one candidate at a time (`Settled`): a candidate is a hit
  unless one before it has its expectation or its report. From this follows that nothing counts
  twice. That one report more loses nothing that was found is shown by the earliest hit
  that had no counterpart as early: what took its report had given up a better one
  (`OneMoreReport`). An identity case fails only where a merge took something, because anchors whose
  reports all survive a merge find the same ones after it (`NoMergeNoLoss`); the report that went
  may be that of an anchor which then took another's. The run rests on `ResultsFit`: the results of a
  case are those of the trials that were made so far, so what was never made cannot pass for a
  success, and a sum over no trials is 0; that is why a gate with a threshold for recall fails a run
  in which nothing was reviewed, whatever else it sets.

  Diff: where no path has a space, what the readers have of the files so far is what
  the diff says of them, but for the status and the lines of a file with a line that looks like
  another kind (`ReadSoFar`), and the lines of a file come before the place they
  have reached (`FilesFit`). Document: after any tokens the scanner is inside a string exactly
  when an odd number of quotes that are not escaped has come, and its depth is what was opened
  less what was closed (`ScanKnows`); so the object it takes is the first that is complete, and
  no later token changes it. Protocol: `expandSchema` follows references with a set of those
  already visited; the proof shows by the height of a call (references left, then nodes below)
  that it returns the least set closed under variants and references (`ExpandedIsLed`), whatever
  circles the references run in, and `EvidenceFits` says what each phase has established.

  Shared files. What is left of a text or a list is a concatenation over its elements, so the
  section "Sequences, put together and spread" shows once that such a spread of two
  sequences is the two spreads (`SpreadOver`), by the least length at which it would fail; all
  that follows reasons about the parts of a text. Hook: a script has at most one start marker, and an
  end marker closes a section of its own (`MarkersFit`), because commands write whole sections and
  a user only loses an end; hence what an install or uninstall takes out holds no line of the
  user. Instructions: a merge leaves the section between what was before the first start and
  what was behind its end (`MergeOf`), and a merge of that is the same. Settings: a sweep makes
  every group `Clean`, keeps clean groups, and the entry is placed by what the sweep left; the
  next sweep takes it out again, and so the second setup places it where it was (`PlacedIn`).
  `SetupFits` then says that the files are the first ones or what one setup makes of them,
  however many follow. State root: paths with a common beginning, and `Longest` of such.

Assumptions on constants are in the modules and describe data, not behaviour: names that mean
nothing do not stand for something, a runtime path is not a line of the launcher, histories are
finite and acyclic, bounds are numbers. TLC evaluates them all.

Some definitions have a form that the provers can use. `FirstOf`, `First`, `Hit` and the rank in
`DuplicateMatch` describe the least element of a set where `SelectInSeq` or a chosen element would
do as well. `Sums`, `Joined` and `Expanded` are recursive functions where a fold, `SelectSeq` or a
RECURSIVE operator would do, and `TruePositives` and `AtPath` are functions of how far they have
come. `Scored`, `Near`, `Below` and others take what they read as parameters. The modules of
`LocalParts` take their data (file names, cases, bounds, layouts) as constants; TLC gets them from
`LocalParts.cfg` and `MCLocalParts`.

Only model-checked: all liveness, which needs fairness and ENABLED (`WorkersEnd`,
`StaleLockRecovered`, `OwnerlessReclaimed`, `LeasesEnd`, `HandoffReached`,
`ReviewEnds`, `ReviewsEnd`), and what the violating runs show. Every other property of a passing
run is stated by a theorem.

## 7. Plan

1. Done: the modules above; every component that decides anything is modelled, wholly or partly.
2. Done: a theorem for every safety property of the passing runs and for both refinements.
   Within reach next: mutual exclusion of the hook lock under the conditions where it holds.
3. Larger compositions: an agent beside an installed hook, `ReviewExecution` over
   `StateDatabase` with openers of different builds.
4. What the parts marked `partly` leave out: layered options, locators and lists, how a diff
   target is chosen, ranking of context, the eval judge, the controller's other adapters.

## 8. Not modelled

Prompts, guidance and formatting are text assembly on which no decision depends; provenance is
recorded for people and read by nobody; lint rules, experiments and documents are development
tooling. Within modelled components the sections above and `PROJECT.json` name what is left out:
rendering, logging, usage counts and the wording of diagnostics everywhere; how git is called;
ranking and excerpts of context; what prompts, documents and messages say. Windows process
handling is left out of the executors. git, the SQLite library, the model services, the SDKs and
the Codex, Claude and OpenCode programs are outside `src/` and modelled by what the code can see
of them: they may answer late, wrongly or never.
