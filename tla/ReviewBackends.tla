--------------------------- MODULE ReviewBackends ---------------------------
(***************************************************************************)
(* The executors a review can be assigned to (src/review/executor.ts):     *)
(* OpenCode, Claude and Cursor, and the OpenCode server that is made ready *)
(* before an OpenCode review.  One review runs through one executor, so    *)
(* the modules are alternatives: "backend" is chosen at the start, and the *)
(* variables that the chosen module does not use keep the value Unused.    *)
(* Codex, the fourth executor, is the subject of CodexReview.              *)
(***************************************************************************)
EXTENDS Integers, FiniteSets, SequencesExt

CONSTANTS MaxAttempts, MaxMessages, MaxEvents, MaxLines, Callers, MaxServers

ASSUME Bounds == /\ MaxAttempts \in Nat \ {0} /\ MaxMessages \in Nat /\ MaxEvents \in Nat
                 /\ MaxLines \in Nat
                 /\ MaxServers \in Nat \ {0} /\ MaxServers > Cardinality(Callers)

VARIABLES
  backend,
  phase, outcome, signal, aborted, stream, events, prompts, turn, answered, log, att, look,
  known, parts, seen, consumed, ignored, rejected,
  reason, attempt, kin, ok, terminal, failure, dirty, verified,
  child, term, lines, init, result,
  reader, store, worker, cancelled, answer, mail,
  state, current, answers, port, pidFile, ensures, pc, target

OpenCode == INSTANCE OpenCodeReview
Server == INSTANCE OpenCodeServer
Claude == INSTANCE ClaudeReview
Cursor == INSTANCE CursorReview

onlyOpenCode == <<signal, aborted, stream, events, prompts, turn, answered, log, att, look,
                  known, parts, seen, consumed, ignored, rejected>>
children == <<reason, attempt, kin, ok, terminal, failure, dirty, verified>>
onlyClaude == <<child, term, lines, init>>
onlyCursor == <<reader, store, worker, cancelled, answer, mail>>
onlyServer == <<state, current, answers, port, pidFile, ensures, pc, target>>
vars == <<backend, phase, outcome, result, onlyOpenCode, children, onlyClaude, onlyCursor,
          onlyServer>>

Unused == "unused"
NoOpenCode ==
  /\ signal = Unused /\ aborted = Unused /\ stream = Unused /\ events = Unused
  /\ prompts = Unused /\ turn = Unused /\ answered = Unused /\ log = Unused
  /\ att = Unused /\ look = Unused /\ known = Unused /\ parts = Unused
  /\ seen = Unused /\ consumed = Unused /\ ignored = Unused
  /\ rejected = Unused
NoChildren ==
  /\ reason = Unused /\ attempt = Unused /\ kin = Unused /\ ok = Unused
  /\ terminal = Unused /\ failure = Unused /\ dirty = Unused
  /\ verified = Unused
NoClaude ==
  /\ child = Unused /\ term = Unused /\ lines = Unused /\ init = Unused
NoCursor ==
  /\ reader = Unused /\ store = Unused /\ worker = Unused
  /\ cancelled = Unused /\ answer = Unused /\ mail = Unused
NoServer ==
  /\ state = Unused /\ current = Unused /\ answers = Unused /\ port = Unused
  /\ pidFile = Unused /\ ensures = Unused /\ pc = Unused /\ target = Unused

(* createReviewExecutor: the backend of the assignment picks the executor; *)
(* prepareReviewServer makes the server ready before an OpenCode review.   *)
Init ==
  \/ /\ backend = "server" /\ Server!Init
     /\ phase = Unused /\ outcome = Unused
     /\ NoOpenCode /\ NoChildren /\ NoClaude /\ NoCursor
  \/ /\ backend = "opencode" /\ OpenCode!Init
     /\ result = Unused /\ NoChildren /\ NoClaude /\ NoCursor /\ NoServer
  \/ /\ backend = "claude" /\ Claude!Init
     /\ NoOpenCode /\ NoCursor /\ NoServer
  \/ /\ backend = "cursor" /\ Cursor!Init
     /\ result = Unused /\ NoOpenCode /\ NoClaude /\ NoServer

Only(b, others) == backend = b /\ UNCHANGED <<backend, others>>
NotOpenCode == <<result, children, onlyClaude, onlyCursor, onlyServer>>
NotClaude == <<onlyOpenCode, onlyCursor, onlyServer>>
NotCursor == <<result, onlyOpenCode, onlyClaude, onlyServer>>
NotServer == <<phase, outcome, onlyOpenCode, children, onlyClaude, onlyCursor>>

PrepareServer == Only("server", NotServer) /\ Server!Next
RunOpenCode == Only("opencode", NotOpenCode) /\ OpenCode!Next
RunClaude == Only("claude", NotClaude) /\ Claude!Next
RunCursor == Only("cursor", NotCursor) /\ Cursor!Next

Next == PrepareServer \/ RunOpenCode \/ RunClaude \/ RunCursor
Spec == Init /\ [][Next]_vars

(* Each module's fairness: calls return or fail, timers fire, snapshots end *)
(* because git is killed when their signal aborts.  The agent, the child,   *)
(* the SDK and the servers may hang.                                        *)
OwnStep == \/ Only("opencode", NotOpenCode) /\ OpenCode!Call
           \/ Only("claude", NotClaude) /\ Claude!Executor
           \/ Only("cursor", NotCursor) /\ Cursor!Execute
Limit == \/ Only("opencode", NotOpenCode) /\ OpenCode!TimeLimit
         \/ Only("claude", NotClaude) /\ Claude!TimeLimit
         \/ Only("cursor", NotCursor) /\ Cursor!TimeLimit
LookEnds == Only("opencode", NotOpenCode) /\ (OpenCode!LookReturns \/ OpenCode!LookFails)
ServerCall(c) == Only("server", NotServer) /\ Server!Step(c)
FairSpec == /\ Spec
            /\ WF_vars(OwnStep) /\ WF_vars(Limit) /\ WF_vars(LookEnds)
            /\ \A c \in Callers : WF_vars(ServerCall(c))
-----------------------------------------------------------------------------
(* The executors that start a child keep the promise of GuardedReview      *)
(* (src/claude/executor.ts:110, src/cursor/executor.ts:268): no report     *)
(* unless the repository was compared and unchanged and the process group  *)
(* is gone; a change that was seen outranks every other outcome.           *)
Guarded == backend \in {"claude", "cursor"}
Promise == INSTANCE GuardedReview WITH
  stage <- IF Guarded THEN Claude!Stage ELSE "starting",
  outcome <- IF Guarded THEN Claude!Kind ELSE "none",
  dirty <- IF Guarded THEN dirty ELSE FALSE,
  alive <- IF backend = "claude" THEN Claude!Alive
           ELSE IF backend = "cursor" THEN Cursor!GroupAlive ELSE FALSE,
  verified <- IF backend = "claude" THEN verified
              ELSE IF backend = "cursor" THEN Cursor!CheckCounts ELSE FALSE
KeepsPromise == Promise!Spec

(* A complete answer settles its attempt, and a look never revives a       *)
(* rejected one (src/opencode/settlement.ts:63, client.ts:489).            *)
OpenCodeSettles ==
  backend = "opencode" => OpenCode!CompleteSettles /\ OpenCode!LookIsFresh

(* Command lines that start, replace and stop the shared server at once    *)
(* signal nothing but OpenCode and return no stale server                  *)
(* (src/opencode/server.ts:141).                                           *)
ServerIsRight ==
  backend = "server" => Server!ForeignSurvives /\ Server!ServerIsCurrent

(* Every review and every call for the server ends, although the agent,    *)
(* the child or the server hangs and the stream is lost.                   *)
ReviewsEnd == <>(IF backend = "server" THEN \A c \in Callers : pc[c] = "done"
                 ELSE phase = "done")
=============================================================================
