---------------------------- MODULE CodexReview ----------------------------
(***************************************************************************)
(* One review by the codex executor: executeCodexReview of                 *)
(* src/src/codex/review-runner.ts over the peer of AppServerPeer.  The     *)
(* runner asks for a handshake and a thread, runs turns until a document   *)
(* validates, interrupts the turn it must leave, closes the peer, and      *)
(* compares the repository before, after the turn and after the close.     *)
(*                                                                         *)
(* The runner runs from one await to the next in one step.  Deadlines are  *)
(* flags that time sets.  Left out: what requests and documents say, model *)
(* capabilities (their failure is a warning), usage, telemetry, evidence,  *)
(* and notifications of other threads and turns.                           *)
(***************************************************************************)
EXTENDS AppServerPeer

CONSTANTS HandshakeLength,  \* requests before the first turn: initialize, account/read, ...
          MaxAttempts       \* SCHEMA_VALIDATION_MAX_ATTEMPTS (3 in the code)

(* captureRepositoryState before the turns, and any later one: somebody may *)
(* have changed the repository between any two of them.                     *)
Snapshots == {"original", "edited"}

ASSUME ReviewAssumption ==
  /\ HandshakeLength \in Nat \ {0} /\ MaxAttempts \in Nat \ {0}
  /\ None \notin Snapshots \cup {"active", "preAbort", "reviewed", "interrupted",
                               "failed", "cancelled", "timeout", "mutated", "teardown"}

VARIABLES
  (* outside the runner *)
  turn,        \* what the child does with the thread: idle, active, interrupting
  late,        \* the deadline of the review has passed
  aborted,     \* input.signal is aborted
  (* NotificationReader *)
  readerQueue, readerWaiter, readerDone,
  got,         \* what next() settled with, to be looked at by the runner
  seen,        \* history: the last notification the runner looked at
  (* executeCodexReview *)
  pc, attempts,
  req,         \* the request awaited; the handshake has the first ids
  interruptId, \* the request that was turn/interrupt, or 0
  error,       \* what is being thrown, or why a turn is interrupted
  before, afterTurn, afterClose, checked,
  failure, cancelled, report, interrupted,
  outcome

worldVars == <<turn, late, aborted>>
readerVars == <<readerQueue, readerWaiter, readerDone, got, seen>>
snapshotVars == <<before, afterTurn, afterClose, checked>>
resultVars == <<failure, cancelled, report, interrupted, outcome>>
vars == <<child, asked, stdout, written, nextId, pending, ignoredResponseIds, answer,
          notificationQueue, waiter, delivered, heard, terminalError, exit, closing,
          endedEarly, termination, closeStage,
          turn, late, aborted, readerQueue, readerWaiter, readerDone,
          got, seen, pc, attempts, req, interruptId, error, before, afterTurn,
          afterClose, checked, failure, cancelled, report, interrupted, outcome>>

(* The notifications of a turn: progress; fatal, which the runner throws at *)
(* (an event it refuses, or a failed turn); and the other ends of a turn.   *)
TurnBodies == {"progress", "fatal", "completed", "interrupted"}

(* failed: any error the properties do not tell from another one.           *)
Failures == {"failed", "cancelled", "timeout", "mutated", "teardown"}

TypeOK ==
  /\ PeerTypeOK
  /\ turn \in {"idle", "active", "interrupting"}
  /\ late \in BOOLEAN /\ aborted \in BOOLEAN
  /\ readerQueue \in Seq(Notes) /\ readerWaiter \in BOOLEAN
  /\ readerDone \in {"no", "end", "failed"}
  /\ got \in {None} \cup Delivered
  /\ seen \in 0..MaxNotes
  /\ pc \in {"send", "await", "before", "turn", "collect", "interrupt",
            "awaitInterrupt", "drain", "guard", "check", "catch", "close", "closing",
            "afterClose", "done"}
  /\ attempts \in 0..MaxAttempts
  /\ req \in 0..MaxRequests /\ interruptId \in 0..MaxRequests
  /\ error \in {None, "active", "preAbort"} \cup Failures
  /\ {before, afterTurn, afterClose} \subseteq {None} \cup Snapshots
  /\ checked \in BOOLEAN
  /\ failure \in {None} \cup Failures
  /\ cancelled \in BOOLEAN /\ report \in BOOLEAN /\ interrupted \in BOOLEAN
  /\ outcome \in {None, "reviewed", "interrupted"} \cup Failures

Init ==
  /\ PeerInit
  /\ turn = "idle" /\ late = FALSE /\ aborted = FALSE
  /\ readerQueue = <<>> /\ readerWaiter = FALSE /\ readerDone = "no"
  /\ got = None /\ seen = 0
  /\ pc = "send" /\ attempts = 0 /\ req = 0 /\ interruptId = 0 /\ error = None
  /\ before = None /\ afterTurn = None /\ afterClose = None /\ checked = FALSE
  /\ failure = None /\ cancelled = FALSE /\ report = FALSE
  /\ interrupted = FALSE /\ outcome = None

-----------------------------------------------------------------------------
(* Outside: the child as a server, the repository, the clock, the user      *)

runnerVars == <<pc, attempts, req, interruptId, error, snapshotVars, resultVars>>

ServerAnswers(id, what) ==
  /\ ChildAnswers(id, what)
  /\ turn' = IF what # "ok" \/ id <= HandshakeLength THEN turn
             ELSE IF id # interruptId THEN "active"
             ELSE IF turn = "active" THEN "interrupting" ELSE turn
  /\ UNCHANGED <<late, aborted, readerVars, runnerVars>>

ServerNotifies(body) ==
  /\ ChildNotifies(body)
  /\ turn # "idle" /\ (body = "interrupted" => turn = "interrupting")
  /\ IF body \in {"progress", "fatal"} THEN UNCHANGED turn ELSE turn' = "idle"
  /\ UNCHANGED <<late, aborted, readerVars, runnerVars>>

ServerElse ==
  /\ \/ ChildMisbehaves /\ UNCHANGED turn
     \/ (ChildClosesStdout \/ ChildDies) /\ turn' = "idle"
  /\ UNCHANGED <<late, aborted, readerVars, runnerVars>>

(* Later on neither the deadline of the review nor the signal is looked at. *)
Reviewing == pc \in {"send", "await", "before", "turn", "collect", "check"}

DeadlinePasses ==
  /\ ~late /\ Reviewing /\ late' = TRUE
  /\ UNCHANGED <<peerVars, turn, aborted, readerVars, runnerVars>>

(* The abort listeners run at once: a request made with the signal is       *)
(* aborted in the same step.                                                *)
Cancel ==
  /\ ~aborted /\ Reviewing /\ aborted' = TRUE
  /\ IF pc = "await" /\ req \in pending
       THEN Abort(req, "cancelled") ELSE UNCHANGED peerVars
  /\ UNCHANGED <<turn, late, readerVars, runnerVars>>

NextLine == HandleLine /\ UNCHANGED <<worldVars, readerVars, runnerVars>>

PeerHandles ==
  /\ \/ StdoutEnds \/ SpawnFails
     \/ \E code \in {"clean", "dirty"} : OnExit(code)
  /\ UNCHANGED <<worldVars, readerVars, runnerVars>>

-----------------------------------------------------------------------------
(* NotificationReader                                                       *)

(* pump: to the waiter of next(), or to the queue.                          *)
Pump ==
  /\ TakeDelivered
  /\ readerDone' = IF delivered.kind = "note" THEN readerDone ELSE delivered.kind
  /\ IF readerWaiter
       THEN got' = delivered /\ readerWaiter' = FALSE /\ UNCHANGED readerQueue
       ELSE /\ readerQueue' = IF delivered.kind = "note"
                                THEN Append(readerQueue, delivered) ELSE readerQueue
            /\ UNCHANGED <<got, readerWaiter>>
  /\ UNCHANGED <<seen, worldVars, runnerVars>>

(* next: what is queued goes first, even before a failure.                  *)
ReaderNext ==
  IF readerQueue # <<>>
    THEN /\ got' = Head(readerQueue) /\ readerQueue' = Tail(readerQueue)
         /\ UNCHANGED readerWaiter
  ELSE IF readerDone # "no"
    THEN got' = [kind |-> readerDone] /\ UNCHANGED <<readerQueue, readerWaiter>>
  ELSE got' = None /\ readerWaiter' = TRUE /\ UNCHANGED readerQueue

Detached_Never == readerWaiter
(* cleanup: a waiter that was rejected leaves the list.                     *)
Detached == FALSE

-----------------------------------------------------------------------------
(* The runner                                                               *)

Goto(label) == pc' = label
Throw(e, label) == error' = e /\ Goto(label)

(* What the caller of a settled request is told.                            *)
AnswerError(what) == IF what = "error" THEN "failed" ELSE what

(* requestWithin of the handshake.                                          *)
SendHandshake ==
  /\ pc = "send"
  /\ IF aborted \/ late
       THEN /\ Throw(IF aborted THEN "cancelled" ELSE "timeout", "catch")
            /\ UNCHANGED <<peerVars, req>>
       ELSE /\ Request(nextId) /\ req' = nextId
            /\ Goto("await") /\ UNCHANGED error
  /\ UNCHANGED <<worldVars, readerVars, attempts, interruptId, snapshotVars, resultVars>>

(* The head of the loop, and startTurn.                                     *)
SendTurn ==
  /\ pc = "turn"
  /\ checked' = FALSE
  /\ IF aborted \/ late
       THEN /\ IF aborted THEN Throw("cancelled", "catch") ELSE Throw("timeout", "guard")
            /\ UNCHANGED <<peerVars, req>>
       ELSE /\ Request(nextId) /\ req' = nextId
            /\ Goto("await") /\ UNCHANGED error
  /\ UNCHANGED <<worldVars, readerVars, attempts, interruptId, before, afterTurn,
                 afterClose, resultVars>>

RequestTimeout ==
  /\ \/ pc = "await" /\ late
     \/ pc = "awaitInterrupt"      \* interruptTimeoutMs
  /\ Abort(req, "timeout")
  /\ UNCHANGED <<worldVars, readerVars, runnerVars>>

(* After initialize, peer.notify throws if the peer failed meanwhile.       *)
HandshakeAnswered ==
  /\ pc = "await" /\ req <= HandshakeLength /\ answer[req] # "none"
  /\ IF answer[req] # "ok" THEN Throw(AnswerError(answer[req]), "catch")
     ELSE IF req = 1 /\ terminalError # None THEN Throw("failed", "catch")
     ELSE /\ Goto(IF req < HandshakeLength THEN "send" ELSE "before")
          /\ UNCHANGED error
  /\ UNCHANGED <<peerVars, worldVars, readerVars, attempts, req, interruptId,
                 snapshotVars, resultVars>>

(* captureRepositoryState, which may fail or run into its deadline.         *)
CaptureBefore ==
  /\ pc = "before"
  /\ \/ before' = "original" /\ Goto("turn") /\ UNCHANGED error
     \/ Throw("failed", "catch") /\ UNCHANGED before
  /\ UNCHANGED <<peerVars, worldVars, readerVars, attempts, req, interruptId, afterTurn,
                 afterClose, checked, resultVars>>

(* A turn that starts after a cancel is interrupted at once.                *)
TurnStarted ==
  /\ pc = "await" /\ req > HandshakeLength /\ answer[req] # "none"
  /\ IF answer[req] # "ok"
       THEN /\ Throw(AnswerError(answer[req]), "guard")
            /\ UNCHANGED <<attempts, readerVars>>
       ELSE /\ attempts' = attempts + 1
            /\ IF aborted
                 THEN Throw("preAbort", "interrupt") /\ UNCHANGED readerVars
                 ELSE Goto("collect") /\ ReaderNext /\ UNCHANGED <<error, readerDone, seen>>
  /\ UNCHANGED <<peerVars, worldVars, req, interruptId, snapshotVars, resultVars>>

Look == seen' = IF got.kind = "note" THEN got.n ELSE seen

(* collectTurn.                                                             *)
Collect ==
  /\ pc = "collect" /\ got # None
  /\ Look
  /\ IF got.kind = "note" /\ got.body = "progress"
       THEN ReaderNext /\ UNCHANGED <<pc, error>>
     ELSE /\ got' = None /\ UNCHANGED <<readerQueue, readerWaiter>>
          /\ IF got.kind = "note" /\ got.body = "completed"
               THEN Goto("check") /\ UNCHANGED error
             ELSE Throw("failed", "guard")
  /\ UNCHANGED <<peerVars, worldVars, readerDone, attempts, req, interruptId,
                 snapshotVars, resultVars>>

(* The grace of a cancel, or the deadline, ends while the runner waits.     *)
CollectTimeout ==
  /\ pc = "collect" /\ got = None /\ (aborted \/ late)
  /\ readerWaiter' = Detached
  /\ Throw(IF aborted THEN "active" ELSE "timeout", "interrupt")
  /\ UNCHANGED <<peerVars, worldVars, readerQueue, readerDone, got, seen, attempts, req,
                 interruptId, snapshotVars, resultVars>>

SendInterrupt ==
  /\ pc = "interrupt"
  /\ Request(nextId)
  /\ req' = nextId /\ interruptId' = nextId
  /\ Goto("awaitInterrupt")
  /\ UNCHANGED <<worldVars, readerVars, attempts, error, snapshotVars, resultVars>>

(* interruptTurn throws: a timeout stays one, a cancel becomes that error.  *)
InterruptFails(e) ==
  Throw(IF error = "timeout" THEN "timeout" ELSE e,
        IF error = "preAbort" THEN "catch" ELSE "guard")

InterruptAnswered ==
  /\ pc = "awaitInterrupt" /\ answer[req] # "none"
  /\ IF answer[req] = "ok"
       THEN Goto("drain") /\ ReaderNext /\ UNCHANGED error
       ELSE InterruptFails(AnswerError(answer[req]))
            /\ UNCHANGED <<readerQueue, readerWaiter, got>>
  /\ UNCHANGED <<peerVars, worldVars, readerDone, seen, attempts, req, interruptId,
                 snapshotVars, resultVars>>

(* Only the terminal state `interrupted' ends an interrupt well.            *)
Drain ==
  /\ pc = "drain" /\ got # None
  /\ Look
  /\ IF got.kind = "note" /\ got.body = "progress"
       THEN ReaderNext /\ UNCHANGED <<pc, error, interrupted, cancelled>>
     ELSE /\ got' = None /\ UNCHANGED <<readerQueue, readerWaiter>>
          /\ IF got.kind = "note" /\ got.body = "interrupted"
               THEN /\ interrupted' = TRUE
                    /\ cancelled' = (cancelled \/ error = "preAbort")
                    /\ Goto("guard") /\ UNCHANGED error
               ELSE /\ InterruptFails("failed")
                    /\ UNCHANGED <<interrupted, cancelled>>
  /\ UNCHANGED <<peerVars, worldVars, readerDone, attempts, req, interruptId,
                 snapshotVars, failure, report, outcome>>

DrainTimeout ==
  /\ pc = "drain" /\ got = None
  /\ readerWaiter' = Detached
  /\ InterruptFails("timeout")
  /\ UNCHANGED <<peerVars, worldVars, readerQueue, readerDone, got, seen, attempts, req,
                 interruptId, snapshotVars, resultVars>>

CarryOn == IF error = "preAbort" THEN Throw(None, "close")
           ELSE Throw(error, "catch")

(* checkRepositoryAfterTurn(primary): a change replaces the primary error.  *)
CheckAfterError ==
  /\ pc = "guard"
  /\ \/ /\ afterTurn' \in Snapshots /\ checked' = TRUE
        /\ IF afterTurn' # before THEN Throw("mutated", "catch")
           ELSE CarryOn
     \/ CarryOn /\ UNCHANGED <<afterTurn, checked>>
  /\ UNCHANGED <<peerVars, worldVars, readerVars, attempts, req, interruptId, before,
                 afterClose, resultVars>>

RetryAllowed == attempts < MaxAttempts

(* checkRepositoryAfterTurn of a completed turn, and decideReviewAttempt.   *)
CheckCompleted ==
  /\ pc = "check"
  /\ \/ /\ afterTurn' \in Snapshots /\ checked' = TRUE
        /\ IF afterTurn' # before THEN Throw("mutated", "catch") /\ UNCHANGED report
           ELSE \/ report' = TRUE /\ Throw(None, "close")
                \/ /\ UNCHANGED report      \* the document does not validate
                   /\ IF RetryAllowed THEN Throw(None, "turn")
                      ELSE Throw("failed", "catch")
     \/ Throw("failed", "catch") /\ UNCHANGED <<afterTurn, checked, report>>
  /\ UNCHANGED <<peerVars, worldVars, readerVars, attempts, req, interruptId, before,
                 afterClose, failure, cancelled, interrupted, outcome>>

(* The outer catch; an error nobody has checked the repository for yet is   *)
(* followed by that check.                                                  *)
CatchError ==
  /\ pc = "catch"
  /\ IF error = "active"
       THEN cancelled' = TRUE /\ UNCHANGED <<failure, afterTurn, checked>>
     ELSE IF before = None \/ checked
       THEN failure' = error /\ UNCHANGED <<cancelled, afterTurn, checked>>
     ELSE /\ UNCHANGED cancelled
          /\ \/ /\ afterTurn' \in Snapshots /\ checked' = TRUE
                /\ failure' = IF afterTurn' # before THEN "mutated" ELSE error
             \/ failure' = error /\ UNCHANGED <<afterTurn, checked>>
  /\ Throw(None, "close")
  /\ UNCHANGED <<peerVars, worldVars, readerVars, attempts, req, interruptId,
                 before, afterClose, report, interrupted, outcome>>

(* Nobody looks at the deadline, the signal or the last check after that:   *)
(* the model forgets them.                                                  *)
ClosePeer ==
  /\ pc = "close" /\ Close
  /\ Goto("closing")
  /\ late' = FALSE /\ aborted' = FALSE /\ checked' = FALSE
  /\ UNCHANGED <<turn, readerVars, attempts, req, interruptId, error, before,
                 afterTurn, afterClose, resultVars>>

PeerCloses ==
  /\ CloseStageTimeout \/ CloseSettles
  /\ UNCHANGED <<worldVars, readerVars, runnerVars>>

CleanClose_AnyKind == closeStage = "closed" /\ exit = "clean"
(* ~invalidClose                                                            *)
CleanClose == closeStage = "closed" /\ CloseKind = "eof" /\ exit = "clean"

Complete == report /\ None \notin {before, afterTurn, afterClose}

(* What executeCodexReview throws or returns in the end.                    *)
Conclude ==
  /\ outcome' = IF failure' # None THEN failure'
                ELSE IF ~cancelled' /\ ~Complete' THEN "failed"
                ELSE IF Alive THEN "teardown"
                ELSE IF cancelled' THEN "interrupted" ELSE "reviewed"
  /\ Goto("done")

(* invalidClose, or close threw.                                            *)
PeerClosed ==
  /\ pc = "closing" /\ closeStage \in {"closed", "threw"}
  /\ failure' = IF failure = None /\ ~CleanClose THEN "teardown" ELSE failure
  /\ UNCHANGED <<peerVars, worldVars, readerVars, attempts, req, interruptId, error,
                 snapshotVars, cancelled, report, interrupted>>
  /\ IF before = None THEN Conclude ELSE Goto("afterClose") /\ UNCHANGED outcome

FailureAfterClose_First == IF failure = None THEN "mutated" ELSE failure
(* A change seen after the close outranks every other failure.              *)
FailureAfterClose == "mutated"

CaptureAfterClose ==
  /\ pc = "afterClose"
  /\ \/ /\ afterClose' \in Snapshots
        /\ IF afterClose' # before THEN failure' = FailureAfterClose /\ cancelled' = FALSE
           ELSE UNCHANGED <<failure, cancelled>>
     \/ /\ failure' = IF failure = None /\ ~cancelled THEN "failed" ELSE failure
        /\ UNCHANGED <<afterClose, cancelled>>
  /\ UNCHANGED <<peerVars, worldVars, readerVars, attempts, req, interruptId, error,
                 before, afterTurn, checked, report, interrupted>>
  /\ Conclude

-----------------------------------------------------------------------------
Runner ==
  \/ SendHandshake \/ HandshakeAnswered \/ CaptureBefore \/ SendTurn \/ TurnStarted
  \/ Collect \/ SendInterrupt \/ InterruptAnswered \/ Drain
  \/ CheckAfterError \/ CheckCompleted \/ CatchError
  \/ ClosePeer \/ PeerClosed \/ CaptureAfterClose

Timers == RequestTimeout \/ CollectTimeout \/ DrainTimeout \/ PeerCloses

(* A continuation is ready to run: of the pump, or of the runner unless it  *)
(* waits for a request, a notification, a snapshot or the end of the child. *)
Ready ==
  \/ delivered # None
  \/ pc \in {"send", "turn", "interrupt", "close"}
  \/ pc \in {"await", "awaitInterrupt"} /\ answer[req] # "none"
  \/ pc \in {"collect", "drain"} /\ got # None
  \/ pc = "catch" /\ (error = "active" \/ before = None \/ checked)
  \/ pc = "closing" /\ closeStage \notin Stages

(* Events, timers and the world outside wait until nothing is ready; the    *)
(* reader loop of the peer may go on to the next line at once.              *)
Event ==
  \/ \E id \in Ids, what \in Replies : ServerAnswers(id, what)
  \/ \E body \in Bodies : ServerNotifies(body)
  \/ ServerElse \/ DeadlinePasses \/ Cancel \/ PeerHandles

(* A peer that could not be closed outlives the review, and the failure is  *)
(* the same whatever it does after that.                                    *)
Next ==
  \/ closeStage \in Stages \cup {"open"} /\ ~Ready /\ (Event \/ Timers)
  \/ pc # "done" /\ (NextLine \/ Pump)
  \/ Runner

Spec == Init /\ [][Next]_vars

(* The event loop runs what is ready, time passes and timers fire.  The     *)
(* child owes nothing, not even its exit.                                   *)
Fairness == WF_vars(Runner) /\ WF_vars(Timers) /\ WF_vars(DeadlinePasses)

FairSpec == Spec /\ Fairness

-----------------------------------------------------------------------------
(* Properties                                                               *)

(* No notification is lost or reordered between the child and the runner:   *)
(* what the peer took and the runner has not looked at yet is all there, in *)
(* order, although a waiter may have timed out on either side of the pump.  *)
Unseen == (IF got # None /\ got.kind = "note" THEN <<got>> ELSE <<>>)
          \o readerQueue \o InHand
NothingSkipped ==
  /\ seen + Len(Unseen) = heard
  /\ \A i \in 1..Len(Unseen) : Unseen[i].n = seen + i

(* A review is handed out only if the child ended by itself when its stdin  *)
(* did, no turn was interrupted, and three snapshots of the repository, the *)
(* last one taken after the child was gone, are equal.                      *)
ReviewedIsSound ==
  outcome = "reviewed" =>
    /\ child = "down" /\ exit = "clean" /\ termination = "none" /\ ~endedEarly
    /\ ~interrupted
    /\ before # None /\ afterTurn = before /\ afterClose = before

(* The repository is reported as changed exactly when a snapshot that       *)
(* differs from the first was taken, whatever else went wrong.              *)
Changed == before # None /\ ({afterTurn, afterClose} \ {None, before}) # {}
ChangeIsReported == outcome # None => (outcome = "mutated" <=> Changed)

(* codex/README.md:30: a cancelled turn was acknowledged and interrupted,   *)
(* and the child ended cleanly (the last snapshot may be missing).          *)
CancelledIsClean ==
  outcome = "interrupted" =>
    /\ interrupted /\ ~Changed
    /\ exit = "clean" /\ termination = "none" /\ ~endedEarly

(* Whatever went wrong and in which order, the outcome says what happened.  *)
OutcomeIsTrue == ReviewedIsSound /\ ChangeIsReported /\ CancelledIsClean

(* Every review ends, whatever the child does or leaves undone.             *)
ReviewEnds == <>(outcome # None)
=============================================================================
