--------------------------- MODULE AppServerPeer ---------------------------
(***************************************************************************)
(* The JSON-RPC peer of one `codex app-server --stdio' child process       *)
(* (src/src/codex/app-server-peer.ts): requests and their responses,       *)
(* notifications, the end of the child, and the staged close.              *)
(*                                                                         *)
(* The peer lives in one JavaScript process: an event handler, or a call   *)
(* of its client, is one step.  The child is a stranger: it answers what   *)
(* it was asked, in any order or never, writes any other line, closes its  *)
(* stdout, and dies when it likes or is killed.  Its answer to a request   *)
(* is written at most once; a line that breaks the protocol is "junk".     *)
(***************************************************************************)
EXTENDS Naturals, Sequences, FiniteSets

CONSTANTS Bodies,       \* what a notification can say
          MaxRequests,  \* bound on the requests of the client
          MaxPipe,      \* bound on the lines in the child's stdout
          MaxNotes,     \* bound on the notifications the child writes
          None          \* no error, no exit, nothing delivered

ASSUME PeerAssumption ==
  /\ MaxRequests \in Nat /\ MaxPipe \in Nat /\ MaxNotes \in Nat
  /\ None \notin {"misbehaved", "unknownId", "ended", "closed", "clean", "dirty"}

VARIABLES
  (* the child *)
  child,         \* unborn (it could not be spawned), up, mute (stdout closed), down
  asked,         \* requests in its stdin or under way that it can still answer
  stdout,        \* lines written and not yet handled
  written,       \* number of notifications written
  (* the peer *)
  nextId, pending, ignoredResponseIds,
  answer,        \* how the promise of each request was settled
  notificationQueue,
  waiter,        \* nextNotification is pending (its client calls it once at a time)
  delivered,     \* what the last nextNotification resolved or rejected with
  terminalError, exit, closing,
  endedEarly,    \* exitedBeforeClose || stdoutEndedBeforeClose
  termination,   \* the last signal that reached the child
  closeStage,    \* not called, or the stage waited for, or how it was settled
  heard          \* history: the last notification the peer took

childVars == <<child, asked, stdout, written>>
requestVars == <<nextId, pending, ignoredResponseIds, answer>>
noteVars == <<notificationQueue, waiter, delivered, heard>>
endVars == <<terminalError, exit, closing, endedEarly, termination, closeStage>>
peerVars == <<child, asked, stdout, written, nextId, pending, ignoredResponseIds,
              answer, notificationQueue, waiter, delivered, heard, terminalError,
              exit, closing, endedEarly, termination, closeStage>>

Ids == 1..MaxRequests
(* misbehaved: unexpected-server-request and malformed lines; ended:        *)
(* premature-eof and process errors.                                        *)
Errors == {"misbehaved", "unknownId", "ended", "closed"}
Replies == {"ok", "error"}   \* error: an error, or a result the client rejects
Settled == Replies \cup {"failed", "timeout", "cancelled"}
Notes == [kind : {"note"}, n : 1..MaxNotes, body : Bodies]
Delivered == Notes \cup [kind : {"end", "failed"}]
Lines == Notes \cup [kind : {"reply"}, id : Ids, what : Replies]
               \cup [kind : {"junk"}]
ASSUME NoneAssumption == None \notin Delivered

Stages == {"eof", "sigterm", "sigkill"}

PeerTypeOK ==
  /\ child \in {"unborn", "up", "mute", "down"}
  /\ asked \in SUBSET Ids
  /\ stdout \in Seq(Lines)
  /\ written \in 0..MaxNotes
  /\ nextId \in 1..(MaxRequests + 1)
  /\ pending \in SUBSET Ids
  /\ ignoredResponseIds \in SUBSET Ids
  /\ answer \in [Ids -> {"none"} \cup Settled]
  /\ notificationQueue \in Seq(Notes)
  /\ waiter \in BOOLEAN
  /\ delivered \in {None} \cup Delivered
  /\ heard \in 0..MaxNotes
  /\ terminalError \in {None} \cup Errors
  /\ exit \in {None, "clean", "dirty"}
  /\ closing \in BOOLEAN /\ endedEarly \in BOOLEAN
  /\ termination \in {"none", "sigterm", "sigkill"}
  /\ closeStage \in {"open", "closed", "threw"} \cup Stages

(* startAppServerPeer; the client calls nextNotification at once.           *)
PeerInit ==
  /\ child \in {"up", "unborn"} /\ asked = {} /\ stdout = <<>> /\ written = 0
  /\ nextId = 1 /\ pending = {} /\ ignoredResponseIds = {}
  /\ answer = [id \in Ids |-> "none"]
  /\ notificationQueue = <<>> /\ waiter = TRUE /\ delivered = None /\ heard = 0
  /\ terminalError = None /\ exit = None /\ closing = FALSE
  /\ endedEarly = FALSE /\ termination = "none" /\ closeStage = "open"

-----------------------------------------------------------------------------
(* fail and rejectAll                                                       *)

Alive == child \in {"up", "mute"}

(* kill succeeds on a live process.                                         *)
Signal(name) == termination' = IF Alive THEN name ELSE termination

RejectAll_Pending ==
  /\ answer' = [id \in Ids |-> IF id \in pending THEN "failed" ELSE answer[id]]
  /\ pending' = {}
  /\ UNCHANGED <<waiter, delivered>>
RejectAll ==
  /\ answer' = [id \in Ids |-> IF id \in pending THEN "failed" ELSE answer[id]]
  /\ pending' = {}
  /\ waiter' = FALSE
  /\ delivered' = IF waiter THEN [kind |-> "failed"] ELSE delivered

(* Only the first error counts.                                             *)
Fail(error, terminate) ==
  IF terminalError # None
    THEN UNCHANGED <<terminalError, answer, pending, waiter, delivered, termination>>
    ELSE /\ terminalError' = error
         /\ RejectAll
         /\ IF terminate /\ exit = None /\ ~closing
              THEN Signal("sigterm") ELSE UNCHANGED termination

-----------------------------------------------------------------------------
(* The calls of the client                                                  *)

(* request: registered before it is written; refused once the peer failed   *)
(* or is closing, and a refusal fails the peer.                             *)
Request(id) ==
  /\ id = nextId /\ id \in Ids
  /\ nextId' = nextId + 1
  /\ IF terminalError # None \/ closing
       THEN LET lost == IF terminalError = None THEN pending ELSE {} IN
            /\ answer' = [i \in Ids |-> IF i = id \/ i \in lost THEN "failed"
                                        ELSE answer[i]]
            /\ pending' = pending \ lost
            /\ terminalError' = IF terminalError = None THEN "closed"
                                ELSE terminalError
            /\ waiter' = (waiter /\ terminalError # None)
            /\ delivered' = IF waiter /\ terminalError = None
                              THEN [kind |-> "failed"] ELSE delivered
            /\ UNCHANGED asked
       ELSE /\ pending' = pending \cup {id}
            /\ asked' = IF child = "up" THEN asked \cup {id} ELSE asked
            /\ UNCHANGED <<terminalError, waiter, delivered, answer>>
  /\ UNCHANGED <<child, stdout, written, ignoredResponseIds, notificationQueue, heard,
                 exit, closing, endedEarly, termination, closeStage>>

Ignored_Never(id) == ignoredResponseIds
Ignored(id) == ignoredResponseIds \cup {id}

(* onAbort, with the reason of the signal; the listener is gone once the    *)
(* request is settled.                                                      *)
Abort(id, reason) ==
  /\ id \in pending
  /\ pending' = pending \ {id}
  /\ ignoredResponseIds' = Ignored(id)
  /\ answer' = [answer EXCEPT ![id] = reason]
  /\ UNCHANGED <<childVars, nextId, noteVars, endVars>>

NextInLine_Later ==
  IF terminalError # None THEN [kind |-> "failed"]
  ELSE IF exit # None THEN [kind |-> "end"] ELSE None
(* What nextNotification settles with at once, if anything.                 *)
NextInLine ==
  IF notificationQueue # <<>> THEN Head(notificationQueue)
  ELSE IF terminalError # None THEN [kind |-> "failed"]
  ELSE IF exit # None THEN [kind |-> "end"] ELSE None

(* The client takes what was delivered and, unless it was the end, calls    *)
(* nextNotification again.                                                  *)
TakeDelivered ==
  /\ delivered # None
  /\ IF delivered.kind # "note"
       THEN delivered' = None /\ UNCHANGED <<notificationQueue, waiter>>
       ELSE /\ delivered' = NextInLine
            /\ waiter' = (NextInLine = None)
            /\ notificationQueue' = IF delivered' # None /\ delivered'.kind = "note"
                                      THEN Tail(notificationQueue)
                                      ELSE notificationQueue
  /\ UNCHANGED <<childVars, requestVars, heard, endVars>>

(* close: stdin is ended.                                                   *)
Close ==
  /\ closeStage = "open"
  /\ closing' = TRUE
  /\ closeStage' = "eof"
  /\ UNCHANGED <<childVars, requestVars, noteVars, terminalError, exit, endedEarly,
                 termination>>

-----------------------------------------------------------------------------
(* Event handlers of the peer                                               *)

(* One line of stdout; after an error the rest is read and dropped.         *)
HandleLine ==
  /\ stdout # <<>>
  /\ stdout' = Tail(stdout)
  /\ LET line == Head(stdout) IN
     IF terminalError # None
       THEN UNCHANGED <<requestVars, noteVars, terminalError, termination>>
     ELSE IF line.kind = "note"
       THEN /\ heard' = line.n
            /\ IF waiter
                 THEN /\ waiter' = FALSE /\ delivered' = line
                      /\ UNCHANGED notificationQueue
                 ELSE /\ notificationQueue' = Append(notificationQueue, line)
                      /\ UNCHANGED <<waiter, delivered>>
            /\ UNCHANGED <<requestVars, terminalError, termination>>
     ELSE IF line.kind = "reply" /\ line.id \in pending
       THEN /\ pending' = pending \ {line.id}
            /\ answer' = [answer EXCEPT ![line.id] = line.what]
            /\ UNCHANGED <<nextId, ignoredResponseIds, noteVars, terminalError,
                           termination>>
     ELSE IF line.kind = "reply" /\ line.id \in ignoredResponseIds
       THEN /\ ignoredResponseIds' = ignoredResponseIds \ {line.id}
            /\ UNCHANGED <<nextId, pending, answer, noteVars, terminalError,
                           termination>>
     ELSE /\ Fail(IF line.kind = "junk" THEN "misbehaved" ELSE "unknownId", TRUE)
          /\ UNCHANGED <<nextId, ignoredResponseIds, notificationQueue, heard>>
  /\ UNCHANGED <<child, asked, written, exit, closing, endedEarly, closeStage>>

(* The reader loop ends: every line has been handled.                       *)
StdoutEnds ==
  /\ child \in {"mute", "down"} /\ stdout = <<>>
  /\ ~closing
  /\ endedEarly' = TRUE
  /\ Fail("ended", TRUE)
  /\ UNCHANGED <<childVars, nextId, ignoredResponseIds, notificationQueue, heard, exit,
                 closing, closeStage>>

(* child.once("error"), or a failed result before any exit: no process.     *)
SpawnFails ==
  /\ child = "unborn"
  /\ child' = "down"
  /\ Fail("ended", FALSE)
  /\ UNCHANGED <<asked, stdout, written, nextId, ignoredResponseIds,
                 notificationQueue, heard, exit, closing, endedEarly, closeStage>>

(* A waiter that is left when the child ended as it was told to.            *)
Dismissed ==
  /\ waiter' = FALSE
  /\ delivered' = IF waiter THEN [kind |-> "end"] ELSE delivered

(* child.once("close"): the process is dead and its pipes are drained.      *)
OnExit(code) ==
  /\ child = "down" /\ stdout = <<>> /\ exit = None
  /\ exit' = code
  /\ endedEarly' = (endedEarly \/ ~closing)
  /\ IF terminalError = None /\ (~closing \/ pending # {})
       THEN terminalError' = "ended" /\ RejectAll
       ELSE /\ UNCHANGED <<terminalError, answer, pending>>
            /\ IF terminalError = None THEN Dismissed
               ELSE UNCHANGED <<waiter, delivered>>
  /\ UNCHANGED <<childVars, nextId, ignoredResponseIds, notificationQueue, heard,
                 closing, termination, closeStage>>

StageLimit_None == FALSE
StageLimit == TRUE

(* waitForExit times out: the next signal, or the close is given up.        *)
CloseStageTimeout ==
  /\ closeStage \in Stages /\ exit = None /\ StageLimit
  /\ IF closeStage = "sigkill" THEN closeStage' = "threw" /\ UNCHANGED termination
     ELSE /\ closeStage' = IF closeStage = "eof" THEN "sigterm" ELSE "sigkill"
          /\ Signal(closeStage')
  /\ UNCHANGED <<childVars, requestVars, noteVars, terminalError, exit, closing,
                 endedEarly>>

CloseSettles ==
  /\ closeStage \in Stages /\ exit # None
  /\ closeStage' = "closed"
  /\ UNCHANGED <<childVars, requestVars, noteVars, terminalError, exit, closing,
                 endedEarly, termination>>

CloseKind == IF termination # "none" THEN termination
             ELSE IF endedEarly THEN "exit" ELSE "eof"

-----------------------------------------------------------------------------
(* The child                                                                *)

CanWrite == child = "up" /\ Len(stdout) < MaxPipe

ChildAnswers(id, what) ==
  /\ CanWrite /\ id \in asked
  /\ asked' = asked \ {id}
  /\ stdout' = Append(stdout, [kind |-> "reply", id |-> id, what |-> what])
  /\ UNCHANGED <<child, written, requestVars, noteVars, endVars>>

ChildNotifies(body) ==
  /\ CanWrite /\ written < MaxNotes
  /\ written' = written + 1
  /\ stdout' = Append(stdout, [kind |-> "note", n |-> written + 1, body |-> body])
  /\ UNCHANGED <<child, asked, requestVars, noteVars, endVars>>

(* A request of its own, or a line that is no message of the protocol.      *)
ChildMisbehaves ==
  /\ CanWrite
  /\ stdout' = Append(stdout, [kind |-> "junk"])
  /\ UNCHANGED <<child, asked, written, requestVars, noteVars, endVars>>

ChildClosesStdout ==
  /\ child = "up" /\ child' = "mute" /\ asked' = {}
  /\ UNCHANGED <<stdout, written, requestVars, noteVars, endVars>>

ChildDies ==
  /\ child \in {"up", "mute"} /\ child' = "down" /\ asked' = {}
  /\ UNCHANGED <<stdout, written, requestVars, noteVars, endVars>>

-----------------------------------------------------------------------------
(* The peer with any client                                                 *)

ClientCall ==
  \/ \E id \in Ids : Request(id)
  \/ \E id \in Ids, reason \in {"timeout", "cancelled"} : Abort(id, reason)
  \/ TakeDelivered
  \/ Close

PeerEvent ==
  \/ HandleLine \/ StdoutEnds \/ SpawnFails \/ CloseStageTimeout \/ CloseSettles
  \/ \E code \in {"clean", "dirty"} : OnExit(code)

ChildStep ==
  \/ ChildMisbehaves \/ ChildClosesStdout \/ ChildDies
  \/ \E id \in Ids, what \in Replies : ChildAnswers(id, what)
  \/ \E body \in Bodies : ChildNotifies(body)

PeerNext == ClientCall \/ PeerEvent \/ ChildStep

PeerSpec == PeerInit /\ [][PeerNext]_peerVars

-----------------------------------------------------------------------------
(* Properties                                                               *)

(* Once the peer has failed or the child has ended, no caller is left       *)
(* waiting: every request is settled and no nextNotification is pending.    *)
NobodyWaits == terminalError # None \/ exit # None => pending = {} /\ ~waiter

(* A response that comes after its request was aborted, or even before the  *)
(* abort, is never taken for an unknown one: only a child that invents ids  *)
(* can bring the peer down by a response.                                   *)
LateResponseHarmless == terminalError # "unknownId"

(* The notifications the peer has taken wait in the order they were         *)
(* written, none missing, up to the last one it heard, and a failure        *)
(* overtakes none of them.                                                  *)
InHand == IF delivered = None \/ delivered.kind # "note"
            THEN notificationQueue ELSE <<delivered>> \o notificationQueue
InOrder ==
  /\ \A i \in 1..Len(InHand) : InHand[i].n = heard - Len(InHand) + i
  /\ notificationQueue # <<>> => delivered # None /\ delivered.kind = "note"

(* What the peer promises a client, whatever the child does.                *)
PeerCorrect == NobodyWaits /\ LateResponseHarmless /\ InOrder
=============================================================================
