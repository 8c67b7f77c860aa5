---------------------------- MODULE ClaudeReview ----------------------------
(***************************************************************************)
(* A review by the Claude Code command, src/claude/executor.ts: execute,   *)
(* executeReview and runAttempt.  Every attempt starts one child, reads    *)
(* its lines, waits for it to exit within a deadline, kills its process    *)
(* group when it does not, and refuses its answer if descendants were left *)
(* running.  The repository is compared before and after.                  *)
(*                                                                         *)
(* The child is outside src/: it may print any line, fork, write to the    *)
(* repository, ignore SIGTERM and hang.  SIGKILL of the group always       *)
(* works; a descendant that leaves the group is not modelled, nor is       *)
(* Windows.                                                                *)
(***************************************************************************)
EXTENDS Naturals, Sequences

CONSTANTS MaxAttempts,   \* SCHEMA_VALIDATION_MAX_ATTEMPTS
          MaxLines       \* bound: lines printed and not yet read

VARIABLES
  phase,     \* where execute stands
  attempt,   \* number of the attempt
  reason,    \* why the controller was aborted: "none", "cancelled", "timeout"
  child,     \* "none", "running", "gone"
  ok,        \* the child exited with code 0
  kin,       \* its descendants: "none", "quiet", "holding" its stdout
  term,      \* SIGTERM was sent, SIGKILL follows
  lines,     \* printed and not yet read
  init,      \* the session was initialised
  terminal,  \* the final result: "none", "valid", "invalid", "error"
  failure,   \* what the reader threw: "none" or a name
  result,    \* the outcome of executeReview
  dirty,     \* the repository differs from the first snapshot
  verified,  \* the second snapshot was taken
  outcome    \* what execute returned or threw

process == <<child, ok, kin, term>>
reading == <<lines, init, terminal, failure>>
ending  == <<result, verified, outcome>>
vars == <<phase, attempt, reason, process, reading, dirty, ending>>
-----------------------------------------------------------------------------
Init ==
  /\ phase = "before" /\ attempt = 1 /\ reason = "none"
  /\ child = "none" /\ ok = FALSE /\ kin = "none" /\ term = FALSE
  /\ lines = <<>> /\ init = FALSE /\ terminal = "none" /\ failure = "none"
  /\ dirty = FALSE /\ result = "none" /\ verified = FALSE /\ outcome = "none"

End(o) == phase' = "done" /\ outcome' = o
Alive == child = "running" \/ kin # "none"
Exited == child = "gone" /\ kin # "holding"    \* execa waits for stdout as well

(* The first snapshot; an abort outranks its own error.                    *)
SnapshotBefore ==
  /\ phase = "before" /\ reason = "none"
  /\ phase' = "spawn"
  /\ UNCHANGED <<attempt, reason, process, reading, dirty, ending>>
SnapshotFails ==
  /\ phase = "before"
  /\ End(IF reason = "none" THEN "failed" ELSE reason)
  /\ UNCHANGED <<attempt, reason, process, reading, dirty, result, verified>>

(* executeReview: an error of the review gives way to the abort reason.    *)
Conclude(r) ==
  /\ phase' = "check"
  /\ result' = IF r # "report" /\ reason # "none" THEN reason ELSE r
  /\ UNCHANGED <<verified, outcome>>

Spawn ==
  /\ phase = "spawn" /\ reason = "none"
  /\ phase' = "read" /\ ok' = FALSE /\ kin' = "none" /\ term' = FALSE
  /\ child' \in {"running", "gone"}                \* gone: it cannot be executed
  /\ lines' = <<>> /\ init' = FALSE /\ terminal' = "none" /\ failure' = "none"
  /\ UNCHANGED <<attempt, reason, dirty, ending>>
SpawnAborted ==
  /\ phase = "spawn" /\ reason # "none"
  /\ Conclude("failed")
  /\ UNCHANGED <<attempt, reason, process, reading, dirty>>

(* runAttempt, the loop over the lines.  What it throws ends the loop, and *)
(* the child is told to stop unless it has exited.                         *)
Throws(name) ==
  /\ failure' = name /\ phase' = "close"
  /\ term' = (term \/ ~Exited)
  /\ UNCHANGED <<init, terminal>>
ReadLine ==
  /\ phase = "read" /\ lines # <<>>
  /\ lines' = Tail(lines)
  /\ LET line == Head(lines)
     IN  \/ /\ terminal # "none" \/ line = "garbage" \/ (line = "init" /\ init)
            /\ Throws("protocol")
         \/ /\ terminal = "none" /\ line \in {"open-init", "tool-outside"}
            /\ Throws("policy")
         \/ /\ terminal = "none" /\ line = "init" /\ ~init
            /\ init' = TRUE
            /\ UNCHANGED <<phase, term, terminal, failure>>
         \/ /\ terminal = "none" /\ line \in {"valid", "invalid", "error"}
            /\ terminal' = line
            /\ UNCHANGED <<phase, term, init, failure>>
  /\ UNCHANGED <<attempt, reason, child, ok, kin, dirty, ending>>
ReadEnds ==
  /\ phase = "read"
  /\ \/ lines = <<>> /\ Exited
     \/ reason # "none"                            \* the abort closes the reader
  /\ phase' = "close"
  /\ UNCHANGED <<attempt, reason, process, reading, dirty, ending>>

KillTree == /\ child' = "gone" /\ kin' = "none"
            /\ ok' = (ok /\ child = "gone")
CloseDeadline ==
  /\ phase = "close" /\ ~Exited
  /\ KillTree /\ phase' = "reap"
  /\ UNCHANGED <<attempt, reason, term, reading, dirty, ending>>
ReapDeadline ==
  /\ phase = "reap"
  /\ Conclude("failed")
  /\ UNCHANGED <<attempt, reason, process, reading, dirty>>
ExitSeen ==
  /\ phase \in {"close", "reap"} /\ Exited
  /\ phase' = "group"
  /\ UNCHANGED <<attempt, reason, process, reading, dirty, ending>>

Descendants ==
  /\ phase = "group" /\ kin # "none"
  /\ KillTree /\ Conclude("failed")
  /\ UNCHANGED <<attempt, reason, term, reading, dirty>>
Usable == failure = "none" /\ reason = "none" /\ ok /\ init /\ terminal \in {"valid", "invalid"}
AttemptFails ==
  /\ phase = "group" /\ kin = "none" /\ ~Usable
  /\ Conclude("failed")
  /\ UNCHANGED <<attempt, reason, process, reading, dirty>>
Decide ==
  /\ phase = "group" /\ kin = "none" /\ Usable
  /\ \/ /\ terminal = "valid" /\ Conclude("report")
        /\ UNCHANGED attempt
     \/ /\ terminal = "invalid" /\ attempt < MaxAttempts
        /\ attempt' = attempt + 1 /\ phase' = "spawn"
        /\ UNCHANGED ending
     \/ /\ terminal = "invalid" /\ attempt >= MaxAttempts
        /\ Conclude("schema")
        /\ UNCHANGED attempt
  /\ UNCHANGED <<reason, process, reading, dirty>>

(* The second snapshot has a deadline of its own and is taken whatever the *)
(* review came to.                                                         *)
CheckOnlyReports ==
  /\ phase = "check"
  /\ verified' = TRUE
  /\ End(IF result # "report" THEN result
         ELSE IF dirty THEN "changed" ELSE IF reason # "none" THEN reason ELSE "report")
  /\ UNCHANGED <<attempt, reason, process, reading, dirty, result>>
Check ==
  /\ phase = "check"
  /\ verified' = TRUE
  /\ End(IF dirty THEN "changed"
         ELSE IF result # "report" THEN result
         ELSE IF reason # "none" THEN reason ELSE "report")
  /\ UNCHANGED <<attempt, reason, process, reading, dirty, result>>
CheckFails ==
  /\ phase = "check"
  /\ End("unverified")
  /\ UNCHANGED <<attempt, reason, process, reading, dirty, result, verified>>
-----------------------------------------------------------------------------
(* The caller's signal, the time limit (cleared before the check), the     *)
(* child and its descendants.  The abort reaches the child as SIGTERM.     *)
Abort(r) ==
  /\ reason = "none"
  /\ reason' = r /\ term' = (term \/ child = "running")
  /\ UNCHANGED <<phase, attempt, child, ok, kin, reading, dirty, ending>>
Cancel == phase # "done" /\ Abort("cancelled")
TimeLimit == phase \notin {"check", "done"} /\ Abort("timeout")

Lines == {"init", "open-init", "tool-outside", "garbage", "valid", "invalid", "error"}
ChildPrints ==
  /\ child = "running" /\ phase = "read" /\ Len(lines) < MaxLines
  /\ \E line \in Lines : lines' = Append(lines, line)
  /\ UNCHANGED <<phase, attempt, reason, process, init, terminal, failure, dirty, ending>>
ChildForks ==
  /\ child = "running" /\ kin = "none"
  /\ kin' \in {"quiet", "holding"}
  /\ UNCHANGED <<phase, attempt, reason, child, ok, term, reading, dirty, ending>>
ChildExits ==
  /\ child = "running"
  /\ child' = "gone" /\ ok' \in BOOLEAN
  /\ UNCHANGED <<phase, attempt, reason, kin, term, reading, dirty, ending>>
ChildClosesStdout ==
  /\ phase = "read" /\ lines = <<>> /\ child = "running" /\ kin # "holding"
  /\ phase' = "close"
  /\ UNCHANGED <<attempt, reason, process, reading, dirty, ending>>
ForceKill ==
  /\ child = "running" /\ term
  /\ child' = "gone" /\ ok' = FALSE
  /\ UNCHANGED <<phase, attempt, reason, kin, term, reading, dirty, ending>>
KinExits ==
  /\ kin # "none"
  /\ kin' = "none"
  /\ UNCHANGED <<phase, attempt, reason, child, ok, term, reading, dirty, ending>>
RepositoryChanges ==
  /\ phase \notin {"before", "done"} /\ ~dirty
  /\ dirty' = TRUE
  /\ UNCHANGED <<phase, attempt, reason, process, reading, ending>>

Executor == \/ SnapshotBefore \/ SnapshotFails \/ Spawn \/ SpawnAborted \/ ReadLine \/ ReadEnds
            \/ CloseDeadline \/ ReapDeadline \/ ExitSeen \/ Descendants \/ AttemptFails
            \/ Decide \/ Check \/ CheckFails
Next == \/ Executor \/ TimeLimit \/ ForceKill \/ Cancel \/ ChildPrints \/ ChildForks
        \/ ChildExits \/ ChildClosesStdout \/ KinExits \/ RepositoryChanges
Spec == Init /\ [][Next]_vars

(* The executor's own steps and timers; a snapshot ends because git is     *)
(* killed when its signal aborts.  The child may hang.                     *)
FairSpec == Spec /\ WF_vars(Executor) /\ WF_vars(TimeLimit)
-----------------------------------------------------------------------------
(* The state that GuardedReview is about.                                  *)
Stage == IF phase = "before" THEN "starting" ELSE IF phase = "done" THEN "ended" ELSE "working"
Kind == IF outcome \in {"none", "report", "changed"} THEN outcome ELSE "failed"
=============================================================================
