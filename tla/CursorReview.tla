---------------------------- MODULE CursorReview ----------------------------
(***************************************************************************)
(* A review by the Cursor SDK: src/cursor/executor.ts and the worker       *)
(* process it starts, src/cursor/worker.ts.  The executor talks to the     *)
(* worker over IPC; the worker talks to the SDK, asks for a repair while   *)
(* the answer fails validation, and disposes of its agent before it        *)
(* reports.  The first reason to stop wins; cleanup adds its failures      *)
(* behind an earlier one.                                                  *)
(*                                                                         *)
(* The SDK is outside src/: its calls may hang, its agent may fork, use    *)
(* any tool and write to the repository.  SIGKILL of the group always      *)
(* works; Windows is not modelled.                                         *)
(***************************************************************************)
EXTENDS Naturals, Sequences

CONSTANTS MaxAttempts,   \* SCHEMA_VALIDATION_MAX_ATTEMPTS
          MaxMessages    \* bound: messages sent and not yet read

VARIABLES
  phase,      \* where execute stands
  reason,     \* stopReason: "none", "cancelled", "timeout"
  failure,    \* the failure that will be thrown: "none" or a category
  terminal,   \* the result message was read
  reader,     \* the reader's promise: "open", "done" or what it threw
  store,      \* the directory for the SDK's state exists
  worker,     \* where the worker stands, "none" before and "gone" after
  ok,         \* the worker exited with code 0
  cancelled,  \* the worker was told to cancel
  attempt,    \* its attempt
  answer,     \* "none", "result" or the category it failed with
  kin,        \* descendants of the worker run
  mail,       \* messages from the worker, not yet read
  dirty,      \* the repository differs from the first snapshot
  verified,   \* the second snapshot was taken and its answer was used
  outcome     \* what execute returned or threw

work == <<worker, ok, cancelled, attempt, answer, kin>>
ending == <<store, verified, outcome>>
vars == <<phase, reason, failure, terminal, reader, work, mail, dirty, ending>>
-----------------------------------------------------------------------------
Init ==
  /\ phase = "before" /\ reason = "none" /\ failure = "none" /\ terminal = FALSE
  /\ reader = "open" /\ store = FALSE
  /\ worker = "none" /\ ok = FALSE /\ cancelled = FALSE /\ attempt = 1 /\ answer = "none"
  /\ kin = FALSE /\ mail = <<>>
  /\ dirty = FALSE /\ verified = FALSE /\ outcome = "none"

Running == worker \notin {"none", "gone"}
GroupAlive == Running \/ kin
First(f, cleanup) == IF f = "none" THEN cleanup ELSE f     \* withCleanupFailure

(* Setup: snapshot, store directory, checks for a stop between the steps.  *)
Throw(f) == phase' = "remove" /\ failure' = f
SnapshotBefore ==
  /\ phase = "before" /\ reason = "none"
  /\ phase' = "store"
  /\ UNCHANGED <<reason, failure, terminal, reader, work, mail, dirty, ending>>
SnapshotFails ==
  /\ phase = "before"
  /\ Throw(IF reason = "none" THEN "failed" ELSE reason)
  /\ UNCHANGED <<reason, terminal, reader, work, mail, dirty, ending>>
MakeStore ==
  /\ phase = "store"
  /\ store' = TRUE
  /\ \/ /\ reason = "none" /\ phase' = "spawn" /\ UNCHANGED failure
     \/ Throw(IF reason = "none" THEN "policy" ELSE reason)     \* inside the repository
  /\ UNCHANGED <<reason, terminal, reader, work, mail, dirty, verified, outcome>>
SpawnWorker ==
  /\ phase = "spawn"
  /\ \/ /\ reason = "none" /\ phase' = "talk"
        /\ worker' \in {"starting", "gone"}
        /\ UNCHANGED failure
     \/ /\ reason # "none" /\ Throw(reason) /\ UNCHANGED worker
  /\ UNCHANGED <<reason, terminal, reader, ok, cancelled, attempt, answer, kin, mail, dirty, ending>>

(* The reader takes messages until the worker is gone; it goes on after    *)
(* the race was lost, so a result may still arrive while the worker stops. *)
Reading == worker # "none" /\ reader = "open" /\ phase # "done"
ReadMessage ==
  /\ Reading /\ mail # <<>>
  /\ mail' = Tail(mail)
  /\ LET m == Head(mail)
     IN  \/ terminal /\ reader' = "protocol" /\ UNCHANGED terminal
         \/ ~terminal /\ m = "activity" /\ UNCHANGED <<reader, terminal>>
         \/ ~terminal /\ m = "result" /\ terminal' = TRUE /\ UNCHANGED reader
         \/ ~terminal /\ m \notin {"activity", "result"} /\ reader' = m /\ UNCHANGED terminal
  /\ UNCHANGED <<phase, reason, failure, work, dirty, ending>>
ReadEnds ==
  /\ Reading /\ mail = <<>> /\ worker = "gone"
  /\ reader' = IF ok /\ terminal THEN "done" ELSE "protocol"
  /\ UNCHANGED <<phase, reason, failure, terminal, work, mail, dirty, ending>>

(* The race between the reader and the reason to stop, then the cleanup.   *)
RaceEnds ==
  /\ phase = "talk"
  /\ \/ reader # "open" /\ failure' = (IF reader = "done" THEN "none" ELSE reader)
     \/ reason # "none" /\ failure' = reason
  /\ phase' = IF worker = "gone" THEN "group" ELSE "stopping"
  /\ cancelled' = (cancelled \/ Running)
  /\ UNCHANGED <<reason, terminal, reader, worker, ok, attempt, answer, kin, mail, dirty, ending>>
StopSeen ==
  /\ phase = "stopping"
  /\ phase' = "group"                \* the worker is gone, or the deadline passed
  /\ UNCHANGED <<reason, failure, terminal, reader, work, mail, dirty, ending>>
Group ==
  /\ phase = "group"
  /\ phase' = "check"
  /\ IF GroupAlive
     THEN /\ failure' = First(failure, "teardown")
          /\ worker' = "gone" /\ kin' = FALSE /\ ok' = (ok /\ worker = "gone")
     ELSE UNCHANGED <<failure, worker, kin, ok>>
  /\ UNCHANGED <<reason, terminal, reader, cancelled, attempt, answer, mail, dirty, ending>>

Check ==
  /\ phase = "check"
  /\ \/ /\ verified' = TRUE
        /\ failure' = IF dirty THEN "changed"
                      ELSE IF failure # "none" THEN failure
                      ELSE IF reason # "none" THEN reason
                      ELSE IF ~terminal THEN "protocol" ELSE "none"
     \/ /\ verified' = FALSE
        /\ failure' = First(First(failure, reason), "unverified")
  /\ phase' = "remove"
  /\ UNCHANGED <<reason, terminal, reader, work, mail, dirty, store, outcome>>

(* The finally block; an error of the removal replaces any other outcome.  *)
RemoveStore ==
  /\ phase = "remove"
  /\ phase' = "done"
  /\ \/ /\ store' = FALSE
        /\ outcome' = IF failure = "none" THEN "report" ELSE failure
        /\ UNCHANGED verified
     \/ /\ store
        /\ outcome' = "remove" /\ verified' = FALSE
        /\ UNCHANGED store
  /\ UNCHANGED <<reason, failure, terminal, reader, work, mail, dirty>>
-----------------------------------------------------------------------------
Stop(r) ==
  /\ phase # "done" /\ reason = "none"
  /\ reason' = r
  /\ UNCHANGED <<phase, failure, terminal, reader, work, mail, dirty, ending>>
Cancel == Stop("cancelled")
TimeLimit == Stop("timeout")
-----------------------------------------------------------------------------
(* The worker.  Every await may take for ever; a cancellation is noticed   *)
(* before a turn, after it, and before the result is sent.                 *)
Send(m) == Len(mail) < MaxMessages /\ mail' = Append(mail, m)
Parent == UNCHANGED <<phase, reason, failure, terminal, reader, dirty, ending>>
Dispose(a) == worker' = "disposing" /\ answer' = a

CreateAgent ==
  /\ worker = "starting"
  /\ \/ worker' = "turn" /\ Send("activity") /\ UNCHANGED answer
     \/ Dispose("failed") /\ UNCHANGED mail
  /\ Parent /\ UNCHANGED <<ok, cancelled, attempt, kin>>
TurnEvent ==
  /\ worker = "turn" /\ ~cancelled
  /\ \/ Send("activity") /\ UNCHANGED <<worker, answer>>
     \/ Dispose("policy") /\ UNCHANGED mail
  /\ Parent /\ UNCHANGED <<ok, cancelled, attempt, kin>>
TurnEnds ==
  /\ worker = "turn"
  /\ \/ /\ cancelled /\ Dispose("cancelled") /\ UNCHANGED <<attempt, mail>>
     \/ /\ Dispose("failed") /\ UNCHANGED <<attempt, mail>>
     \/ /\ ~cancelled /\ Dispose("result") /\ Send("activity") /\ UNCHANGED attempt
     \/ /\ ~cancelled /\ attempt < MaxAttempts /\ Send("activity")
        /\ attempt' = attempt + 1 /\ UNCHANGED <<worker, answer>>
     \/ /\ ~cancelled /\ attempt >= MaxAttempts /\ Send("activity")
        /\ Dispose("validation") /\ UNCHANGED attempt
  /\ Parent /\ UNCHANGED <<ok, cancelled, kin>>
Disposed ==
  /\ worker = "disposing"
  /\ worker' = "reporting"
  /\ answer' \in {answer, IF answer = "result" THEN "teardown" ELSE answer}
  /\ Parent /\ UNCHANGED <<ok, cancelled, attempt, kin, mail>>
Report ==
  /\ worker = "reporting"
  /\ LET a == IF answer = "result" /\ cancelled THEN "cancelled" ELSE answer
     IN  Send(a) /\ ok' = (a = "result")
  /\ worker' = "gone"
  /\ Parent /\ UNCHANGED <<cancelled, attempt, answer, kin>>
WorkerCrashes ==
  /\ Running
  /\ worker' = "gone" /\ ok' = FALSE
  /\ Parent /\ UNCHANGED <<cancelled, attempt, answer, kin, mail>>
WorkerForks ==
  /\ Running /\ ~kin
  /\ kin' = TRUE
  /\ Parent /\ UNCHANGED <<worker, ok, cancelled, attempt, answer, mail>>
KinExits ==
  /\ kin
  /\ kin' = FALSE
  /\ Parent /\ UNCHANGED <<worker, ok, cancelled, attempt, answer, mail>>

(* A change after the second snapshot is nobody's to see.                  *)
RepositoryChanges ==
  /\ phase \notin {"before", "remove", "done"} /\ ~dirty /\ dirty' = TRUE
  /\ UNCHANGED <<phase, reason, failure, terminal, reader, work, mail, ending>>

Execute == \/ SnapshotBefore \/ SnapshotFails \/ MakeStore \/ SpawnWorker
           \/ RaceEnds \/ StopSeen \/ Group \/ Check \/ RemoveStore
Worker == CreateAgent \/ TurnEvent \/ TurnEnds \/ Disposed \/ Report \/ WorkerCrashes
Next == \/ Execute \/ ReadMessage \/ ReadEnds \/ Cancel \/ TimeLimit \/ Worker \/ WorkerForks \/ KinExits
        \/ RepositoryChanges
Spec == Init /\ [][Next]_vars

(* The executor's steps and timers; the worker and the SDK may hang.       *)
FairSpec == Spec /\ WF_vars(Execute) /\ WF_vars(TimeLimit)
-----------------------------------------------------------------------------
(* The state that GuardedReview is about.                                  *)
Stage == IF phase = "before" THEN "starting" ELSE IF phase = "done" THEN "ended" ELSE "working"
Kind == IF outcome \in {"none", "report", "changed"} THEN outcome ELSE "failed"
CheckCounts == verified /\ phase = "done"
=============================================================================
