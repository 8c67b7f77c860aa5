------------------------- MODULE CodexReviewProofs -------------------------
(***************************************************************************)
(* Proofs about the peer of src/src/codex/app-server-peer.ts with any      *)
(* client and any child (NobodyWaits, LateResponseHarmless and InOrder of  *)
(* AppServerPeer, for any number of requests and notifications), and about *)
(* the runner of src/src/codex/review-runner.ts, a client of it: every     *)
(* behaviour of CodexReview is one of PeerSpec, so what is proved of the   *)
(* peer with any client holds in every review.                             *)
(***************************************************************************)
EXTENDS Integers, CodexReview, TLAPS

-----------------------------------------------------------------------------
(* The peer                                                                 *)

HoldsNote == delivered # None /\ delivered.kind = "note"

(* A child that exited before the close has failed the peer; its pipes are  *)
(* drained before anybody hears of the exit.                                *)
Ending ==
  /\ exit # None => child = "down" /\ stdout = <<>>
  /\ exit # None /\ terminalError = None => closing
  /\ terminalError # None \/ exit # None => pending = {} /\ ~waiter

IsReply(i) == i \in 1..Len(stdout) /\ stdout[i].kind = "reply"
IsNote(i) == i \in 1..Len(stdout) /\ stdout[i].kind = "note"

(* While the peer has not failed, whatever the child was asked, or has      *)
(* answered, is waited for or ignored, and is answered once.                *)
Answering ==
  terminalError = None =>
    /\ pending \cup ignoredResponseIds \subseteq 1..(nextId - 1)
    /\ asked \subseteq pending \cup ignoredResponseIds
    /\ \A i \in 1..Len(stdout) : IsReply(i) =>
         stdout[i].id \in (pending \cup ignoredResponseIds) \ asked
    /\ \A i, j \in 1..Len(stdout) :
         IsReply(i) /\ IsReply(j) /\ i # j => stdout[i].id # stdout[j].id

(* The lines that are still in the pipe go on where the peer is.            *)
Numbering ==
  terminalError = None =>
    /\ heard <= written
    /\ \A i \in 1..Len(stdout) : IsNote(i) => stdout[i].n \in (heard + 1)..written
    /\ \A i, j \in 1..Len(stdout) :
         IsNote(i) /\ IsNote(j) /\ i < j => stdout[i].n < stdout[j].n
    /\ \A k \in (heard + 1)..written : \E i \in 1..Len(stdout) :
         IsNote(i) /\ stdout[i].n = k

(* What was taken is in the queue, or on its way to the client.             *)
Queueing ==
  /\ waiter => delivered = None /\ notificationQueue = <<>>
  /\ ~waiter /\ ~HoldsNote => terminalError # None \/ exit # None
  /\ notificationQueue # <<>> => HoldsNote
  /\ \A i \in 1..Len(notificationQueue) :
       notificationQueue[i].n = heard - Len(notificationQueue) + i
  /\ HoldsNote => delivered.n = heard - Len(notificationQueue)

IInv == PeerTypeOK /\ Ending /\ Answering /\ Numbering /\ Queueing
             /\ terminalError # "unknownId"

-----------------------------------------------------------------------------
(* Lines are taken at the head and put at the end                           *)

LEMMA Taken ==
  ASSUME NEW S, NEW s \in Seq(S), s # <<>>
  PROVE  /\ Head(s) \in S /\ Head(s) = s[1] /\ Len(s) \in Nat \ {0}
         /\ Tail(s) \in Seq(S) /\ Len(Tail(s)) = Len(s) - 1
         /\ \A i \in 1..Len(Tail(s)) : Tail(s)[i] = s[i + 1]
  OBVIOUS

LEMMA Put ==
  ASSUME NEW S, NEW s \in Seq(S), NEW x \in S
  PROVE  /\ Append(s, x) \in Seq(S) /\ Len(s) \in Nat /\ Append(s, x) # <<>>
         /\ Len(Append(s, x)) = Len(s) + 1
         /\ Append(s, x)[Len(s) + 1] = x
         /\ \A i \in 1..Len(s) : Append(s, x)[i] = s[i]
  OBVIOUS

-----------------------------------------------------------------------------
(* Types                                                                    *)

LEMMA TypeInit == ASSUME PeerInit PROVE PeerTypeOK
<1>1. answer \in [Ids -> {"none"} \cup Settled]
  BY DEF PeerInit
<1>2. stdout \in Seq(Lines) /\ notificationQueue \in Seq(Notes)
  BY DEF PeerInit
<1>3. nextId \in 1..(MaxRequests + 1) /\ written \in 0..MaxNotes /\ heard \in 0..MaxNotes
  BY PeerAssumption DEF PeerInit
<1> QED
  BY <1>1, <1>2, <1>3 DEF PeerInit, PeerTypeOK

LEMMA TypeTaken ==
  ASSUME PeerTypeOK
  PROVE  /\ NextInLine \in {None} \cup Delivered
         /\ NextInLine # None /\ NextInLine.kind = "note" =>
              notificationQueue # <<>> /\ Tail(notificationQueue) \in Seq(Notes)
<1>1. notificationQueue \in Seq(Notes)
  BY DEF PeerTypeOK
<1>2. CASE notificationQueue # <<>>
  BY <1>1, <1>2, Taken DEF NextInLine, Delivered
<1>3. CASE notificationQueue = <<>>
  BY <1>3 DEF NextInLine, Delivered
<1> QED
  BY <1>2, <1>3

LEMMA TypeRequest ==
  ASSUME PeerTypeOK, NEW id \in Ids, Request(id)
  PROVE  PeerTypeOK'
<1>1. answer' \in [Ids -> {"none"} \cup Settled]
  BY DEF Request, PeerTypeOK, Settled
<1>2. nextId' \in 1..(MaxRequests + 1)
  BY PeerAssumption DEF Request, PeerTypeOK, Ids
<1>3. pending' \in SUBSET Ids /\ asked' \in SUBSET Ids
  BY DEF Request, PeerTypeOK
<1>4. delivered' \in {None} \cup Delivered
  BY DEF Request, PeerTypeOK, Delivered
<1>5. terminalError' \in {None} \cup Errors /\ waiter' \in BOOLEAN
  BY DEF Request, PeerTypeOK, Errors
<1> QED
  BY <1>1, <1>2, <1>3, <1>4, <1>5 DEF Request, PeerTypeOK

LEMMA TypeClient == ASSUME PeerTypeOK, ClientCall PROVE PeerTypeOK'
<1>1. ASSUME NEW id \in Ids, Request(id) PROVE PeerTypeOK'
  BY <1>1, TypeRequest
<1>2. ASSUME NEW id \in Ids, NEW reason \in {"timeout", "cancelled"}, Abort(id, reason)
      PROVE PeerTypeOK'
  BY <1>2 DEF Abort, Ignored, PeerTypeOK, Settled, childVars, noteVars, endVars
<1>3. CASE TakeDelivered
  <2>1. delivered' \in {None} \cup Delivered /\ waiter' \in BOOLEAN
    BY <1>3, TypeTaken DEF TakeDelivered, PeerTypeOK
  <2>2. notificationQueue' \in Seq(Notes)
    BY <1>3, TypeTaken DEF TakeDelivered, PeerTypeOK
  <2> QED
    BY <1>3, <2>1, <2>2 DEF TakeDelivered, PeerTypeOK, childVars, requestVars, endVars
<1>4. CASE Close
  BY <1>4 DEF Close, PeerTypeOK, Stages, childVars, requestVars, noteVars
<1> QED
  BY <1>1, <1>2, <1>3, <1>4 DEF ClientCall

LEMMA TypeFail ==
  ASSUME PeerTypeOK, NEW cause \in Errors, NEW terminate \in BOOLEAN,
         Fail(cause, terminate)
  PROVE  /\ answer' \in [Ids -> {"none"} \cup Settled]
         /\ pending' \in SUBSET Ids /\ waiter' \in BOOLEAN
         /\ delivered' \in {None} \cup Delivered
         /\ terminalError' \in {None} \cup Errors
         /\ termination' \in {"none", "sigterm", "sigkill"}
<1>1. answer' \in [Ids -> {"none"} \cup Settled] /\ pending' \in SUBSET Ids
  BY DEF Fail, RejectAll, PeerTypeOK, Settled
<1>2. terminalError' \in {None} \cup Errors
  BY DEF Fail, PeerTypeOK
<1>3. termination' \in {"none", "sigterm", "sigkill"}
  BY DEF Fail, Signal, PeerTypeOK
<1>4. delivered' \in {None} \cup Delivered
  BY DEF Fail, RejectAll, PeerTypeOK, Delivered
<1>5. waiter' \in BOOLEAN
  BY DEF Fail, RejectAll, PeerTypeOK
<1> QED
  BY <1>1, <1>2, <1>3, <1>4, <1>5

LEMMA TypeLine == ASSUME PeerTypeOK, HandleLine PROVE PeerTypeOK'
<1> DEFINE line == Head(stdout)
<1>1. line \in Lines /\ stdout' \in Seq(Lines)
  BY Taken DEF HandleLine, PeerTypeOK
<1>2. line.kind = "note" => line \in Notes
  BY <1>1 DEF Lines
<1>3. line.kind = "reply" => line.id \in Ids /\ line.what \in Replies
  BY <1>1 DEF Lines, Notes
<1>4. CASE terminalError # None
  BY <1>1, <1>4 DEF HandleLine, PeerTypeOK, requestVars, noteVars
<1>5. CASE terminalError = None /\ line.kind = "note"
  <2>1. line.n \in 0..MaxNotes
    BY <1>2, <1>5, PeerAssumption DEF Notes
  <2>2. heard' \in 0..MaxNotes /\ waiter' \in BOOLEAN
    BY <1>5, <2>1 DEF HandleLine, PeerTypeOK
  <2>3. delivered' \in {None} \cup Delivered
    BY <1>2, <1>5 DEF HandleLine, PeerTypeOK, Delivered
  <2>4. notificationQueue' \in Seq(Notes)
    <3>1. notificationQueue' \in {notificationQueue, Append(notificationQueue, line)}
      BY <1>5 DEF HandleLine
    <3>2. Append(notificationQueue, line) \in Seq(Notes)
      BY <1>2, <1>5, Put DEF PeerTypeOK
    <3> QED
      BY <3>1, <3>2 DEF PeerTypeOK
  <2> QED
    BY <1>1, <1>5, <2>2, <2>3, <2>4 DEF HandleLine, PeerTypeOK, requestVars
<1>6. CASE terminalError = None /\ line.kind = "reply" /\ line.id \in pending
  BY <1>1, <1>3, <1>6 DEF HandleLine, PeerTypeOK, Settled, noteVars
<1>7. CASE /\ terminalError = None /\ line.kind = "reply" /\ line.id \notin pending
           /\ line.id \in ignoredResponseIds
  BY <1>1, <1>7 DEF HandleLine, PeerTypeOK, noteVars
<1>8. CASE /\ terminalError = None /\ line.kind # "note"
           /\ ~(line.kind = "reply" /\ line.id \in pending \cup ignoredResponseIds)
  <2>1. PICK cause \in Errors : Fail(cause, TRUE)
    BY <1>8 DEF HandleLine, Errors
  <2> QED
    BY <1>1, <1>8, <2>1, TypeFail DEF HandleLine, PeerTypeOK
<1> QED
  BY <1>4, <1>5, <1>6, <1>7, <1>8

LEMMA TypeEvent == ASSUME PeerTypeOK, PeerEvent PROVE PeerTypeOK'
<1>1. CASE HandleLine
  BY <1>1, TypeLine
<1>2. CASE StdoutEnds
  BY <1>2, TypeFail DEF StdoutEnds, PeerTypeOK, Errors, childVars
<1>3. CASE SpawnFails
  BY <1>3, TypeFail DEF SpawnFails, PeerTypeOK, Errors
<1>4. CASE CloseStageTimeout
  BY <1>4 DEF CloseStageTimeout, Signal, PeerTypeOK, Stages, childVars, requestVars,
     noteVars
<1>5. CASE CloseSettles
  BY <1>5 DEF CloseSettles, PeerTypeOK, childVars, requestVars, noteVars
<1>6. ASSUME NEW code \in {"clean", "dirty"}, OnExit(code) PROVE PeerTypeOK'
  <2>1. answer' \in [Ids -> {"none"} \cup Settled] /\ pending' \in SUBSET Ids
    BY <1>6 DEF OnExit, RejectAll, PeerTypeOK, Settled
  <2>2. delivered' \in {None} \cup Delivered
    BY <1>6 DEF OnExit, RejectAll, Dismissed, PeerTypeOK, Delivered
  <2>3. waiter' \in BOOLEAN
    BY <1>6 DEF OnExit, RejectAll, Dismissed, PeerTypeOK
  <2>4. /\ terminalError' \in {None} \cup Errors
        /\ endedEarly' \in BOOLEAN /\ exit' \in {None, "clean", "dirty"}
    BY <1>6 DEF OnExit, PeerTypeOK, Errors
  <2> QED
    BY <1>6, <2>1, <2>2, <2>3, <2>4 DEF OnExit, PeerTypeOK, childVars
<1> QED
  BY <1>1, <1>2, <1>3, <1>4, <1>5, <1>6 DEF PeerEvent

LEMMA TypeChild == ASSUME PeerTypeOK, ChildStep PROVE PeerTypeOK'
<1> USE DEF PeerTypeOK, requestVars, noteVars, endVars
<1>1. ASSUME NEW line \in Lines, stdout' = Append(stdout, line)
      PROVE  stdout' \in Seq(Lines)
  BY <1>1, Put
<1>2. CASE ChildMisbehaves
  <2>1. [kind |-> "junk"] \in Lines
    BY DEF Lines
  <2> QED
    BY <1>1, <1>2, <2>1 DEF ChildMisbehaves
<1>3. CASE ChildClosesStdout
  BY <1>3 DEF ChildClosesStdout
<1>4. CASE ChildDies
  BY <1>4 DEF ChildDies
<1>5. ASSUME NEW id \in Ids, NEW what \in Replies, ChildAnswers(id, what)
      PROVE  PeerTypeOK'
  <2>1. [kind |-> "reply", id |-> id, what |-> what] \in Lines
    BY DEF Lines
  <2> QED
    BY <1>1, <1>5, <2>1 DEF ChildAnswers
<1>6. ASSUME NEW body \in Bodies, ChildNotifies(body) PROVE PeerTypeOK'
  <2>1. written + 1 \in 1..MaxNotes
    BY <1>6, PeerAssumption DEF ChildNotifies
  <2>2. [kind |-> "note", n |-> written + 1, body |-> body] \in Lines
    BY <2>1 DEF Lines, Notes
  <2> QED
    BY <1>1, <1>6, <2>1, <2>2, PeerAssumption DEF ChildNotifies
<1> QED
  BY <1>2, <1>3, <1>4, <1>5, <1>6 DEF ChildStep

(* Every variable of the peer keeps its type, with any client.              *)
THEOREM PeerTypeCorrect == PeerSpec => []PeerTypeOK
<1>1. ASSUME PeerTypeOK, [PeerNext]_peerVars PROVE PeerTypeOK'
  <2>1. CASE UNCHANGED peerVars
    BY <1>1, <2>1 DEF PeerTypeOK, peerVars
  <2> QED
    BY <1>1, <2>1, TypeClient, TypeEvent, TypeChild DEF PeerNext
<1> QED
  BY <1>1, TypeInit, PTL DEF PeerSpec

-----------------------------------------------------------------------------
(* Nobody waits for a peer that failed                                      *)

(* Whoever fails the peer settles everything.                               *)
LEMMA Failed ==
  ASSUME Ending, NEW cause \in Errors, NEW terminate, Fail(cause, terminate)
  PROVE  terminalError' # None /\ pending' = {} /\ ~waiter'
  BY PeerAssumption DEF Ending, Fail, RejectAll, Errors

LEMMA EndingKept == ASSUME PeerTypeOK, Ending, PeerNext PROVE Ending'
<1>1. ASSUME NEW id \in Ids, Request(id) PROVE Ending'
  BY <1>1, PeerAssumption DEF Request, Ending
<1>2. ASSUME NEW id, NEW reason, Abort(id, reason) PROVE Ending'
  BY <1>2 DEF Abort, Ending, childVars, noteVars, endVars
<1>3. CASE TakeDelivered
  <2>1. notificationQueue # <<>> => Head(notificationQueue) # None
    BY Taken, NoneAssumption DEF PeerTypeOK, Delivered
  <2>2. terminalError # None \/ exit # None => NextInLine # None
    BY <2>1, NoneAssumption DEF NextInLine, Delivered
  <2>3. UNCHANGED <<child, stdout, pending, exit, terminalError, closing>>
    BY <1>3 DEF TakeDelivered, childVars, requestVars, endVars
  <2>4. waiter' => waiter \/ NextInLine = None
    BY <1>3 DEF TakeDelivered
  <2> QED
    BY <2>2, <2>3, <2>4 DEF Ending
<1>4. CASE Close
  BY <1>4 DEF Close, Ending, childVars, requestVars, noteVars
<1>5. CASE HandleLine
  <2>1. exit = None /\ exit' = None
    BY <1>5 DEF HandleLine, Ending
  <2>2. CASE terminalError' = None
    BY <2>1, <2>2 DEF Ending
  <2>3. CASE terminalError # None
    BY <1>5, <2>1, <2>3 DEF HandleLine, Ending, requestVars, noteVars
  <2>4. CASE terminalError = None /\ terminalError' # None
    <3>1. PICK cause \in Errors : Fail(cause, TRUE)
      BY <1>5, <2>4 DEF HandleLine, Errors
    <3> QED
      BY <2>1, <3>1, Failed DEF Ending
  <2> QED
    BY <2>2, <2>3, <2>4
<1>6. CASE StdoutEnds
  <2>1. Fail("ended", TRUE) /\ UNCHANGED <<child, stdout, exit, closing>>
    BY <1>6 DEF StdoutEnds, childVars
  <2> QED
    BY <2>1, Failed DEF Ending, Errors
<1>7. CASE SpawnFails
  <2>1. Fail("ended", FALSE) /\ UNCHANGED <<stdout, exit, closing>> /\ child' = "down"
    BY <1>7 DEF SpawnFails
  <2> QED
    BY <2>1, Failed DEF Ending, Errors
<1>8. CASE CloseStageTimeout \/ CloseSettles
  BY <1>8 DEF CloseStageTimeout, CloseSettles, Ending, childVars, requestVars, noteVars
<1>9. ASSUME NEW code \in {"clean", "dirty"}, OnExit(code) PROVE Ending'
  BY <1>9, PeerAssumption DEF OnExit, RejectAll, Dismissed, Ending, childVars
<1>10. CASE ChildStep
  <2>1. child # "down" /\ UNCHANGED <<exit, terminalError, closing, pending, waiter>>
    BY <1>10 DEF ChildStep, ChildMisbehaves, ChildClosesStdout, ChildDies, ChildAnswers,
       ChildNotifies, CanWrite, requestVars, noteVars, endVars
  <2> QED
    BY <2>1 DEF Ending
<1> QED
  BY <1>1, <1>2, <1>3, <1>4, <1>5, <1>6, <1>7, <1>8, <1>9, <1>10
     DEF PeerNext, ClientCall, PeerEvent

-----------------------------------------------------------------------------
(* Every response finds its request                                         *)

LEMMA AnsweringKept == ASSUME PeerTypeOK, Ending, Answering, PeerNext PROVE Answering'
<1> SUFFICES ASSUME terminalError' = None PROVE Answering'
  BY DEF Answering
<1>1. terminalError = None
  BY PeerAssumption DEF PeerNext, ClientCall, Request, Abort, TakeDelivered, Close,
     PeerEvent, HandleLine, StdoutEnds, SpawnFails, CloseStageTimeout, CloseSettles,
     OnExit, Fail, ChildStep, ChildMisbehaves, ChildClosesStdout, ChildDies,
     ChildAnswers, ChildNotifies, endVars
<1> DEFINE Expected == pending \cup ignoredResponseIds
<1>2. /\ Expected \subseteq 1..(nextId - 1) /\ asked \subseteq Expected
      /\ \A i \in 1..Len(stdout) : IsReply(i) => stdout[i].id \in Expected \ asked
      /\ \A i, j \in 1..Len(stdout) :
           IsReply(i) /\ IsReply(j) /\ i # j => stdout[i].id # stdout[j].id
  BY <1>1 DEF Answering
<1>3. nextId \in Nat \ {0} /\ stdout \in Seq(Lines) /\ Len(stdout) \in Nat
  BY PeerAssumption DEF PeerTypeOK
(* Nothing is expected or answered in such a step.                          *)
<1>4. ASSUME UNCHANGED <<nextId, stdout>>, Expected' = Expected, asked' \subseteq asked
      PROVE  Answering'
  BY <1>2, <1>4 DEF Answering, IsReply
<1>5. ASSUME NEW id \in Ids, Request(id) PROVE Answering'
  <2>1. /\ id = nextId /\ nextId' = nextId + 1 /\ Expected' = Expected \cup {id}
        /\ asked' \subseteq asked \cup {id} /\ stdout' = stdout
    BY <1>1, <1>5, PeerAssumption DEF Request
  <2>2. id \notin Expected
    BY <1>2, <1>3, <2>1
  <2>3. Expected' \subseteq 1..(nextId' - 1)
    BY <1>2, <1>3, <2>1
  <2>4. asked' \subseteq Expected'
    BY <1>2, <2>1
  <2>5. \A i \in 1..Len(stdout) : IsReply(i) => stdout[i].id \in Expected' \ asked'
    BY <1>2, <2>1, <2>2
  <2> QED
    BY <1>2, <2>1, <2>3, <2>4, <2>5 DEF Answering, IsReply
<1>6. ASSUME NEW id, NEW reason, Abort(id, reason) PROVE Answering'
  <2>1. Expected' = Expected
    BY <1>6 DEF Abort, Ignored
  <2> QED
    BY <1>4, <1>6, <2>1 DEF Abort, childVars
<1>7. CASE TakeDelivered \/ Close \/ CloseStageTimeout \/ CloseSettles
  BY <1>4, <1>7 DEF TakeDelivered, Close, CloseStageTimeout, CloseSettles,
     childVars, requestVars
<1>8. CASE HandleLine
  <2> DEFINE line == Head(stdout)
  <2>1. /\ line = stdout[1] /\ Len(stdout) \in Nat \ {0} /\ stdout' = Tail(stdout)
        /\ Len(stdout') = Len(stdout) - 1
        /\ \A i \in 1..Len(stdout') : stdout'[i] = stdout[i + 1]
    BY <1>3, <1>8, Taken DEF HandleLine
  <2>2. UNCHANGED <<nextId, asked>>
    BY <1>1, <1>8 DEF HandleLine, requestVars
  <2>3. \A x \in Expected : x \in Expected' \/ (line.kind = "reply" /\ x = line.id)
    <3>1. ~Fail("misbehaved", TRUE) /\ ~Fail("unknownId", TRUE)
      BY <1>1, PeerAssumption DEF Fail
    <3> QED
      BY <1>1, <1>8, <3>1 DEF HandleLine, requestVars
  <2>4. Expected' \subseteq Expected
    BY <1>1, <1>8 DEF HandleLine, requestVars, Fail, RejectAll
  <2>5. line.kind = "reply" => line.id \notin asked
    BY <1>2, <2>1 DEF IsReply
  <2>6. ASSUME NEW i \in 1..Len(stdout'), stdout'[i].kind = "reply"
        PROVE  stdout'[i].id \in Expected' \ asked'
    <3>1. IsReply(i + 1) /\ stdout'[i].id = stdout[i + 1].id
      BY <2>1, <2>6 DEF IsReply
    <3>2. line.kind = "reply" => stdout[i + 1].id # line.id
      BY <1>2, <2>1, <3>1 DEF IsReply
    <3> QED
      BY <1>2, <2>2, <2>3, <3>1, <3>2 DEF IsReply
  <2>7. ASSUME NEW i \in 1..Len(stdout'), NEW j \in 1..Len(stdout'), i # j,
               stdout'[i].kind = "reply", stdout'[j].kind = "reply"
        PROVE  stdout'[i].id # stdout'[j].id
    <3>1. IsReply(i + 1) /\ IsReply(j + 1) /\ i + 1 # j + 1
      BY <2>1, <2>7 DEF IsReply
    <3> QED
      BY <1>2, <2>1, <3>1 DEF IsReply
  <2>8. asked' \subseteq Expected'
    BY <1>2, <2>2, <2>3, <2>5
  <2>9. Expected' \subseteq 1..(nextId' - 1)
    BY <1>2, <2>2, <2>4
  <2> QED
    BY <2>6, <2>7, <2>8, <2>9 DEF Answering, IsReply
<1>9. CASE StdoutEnds \/ SpawnFails
  BY <1>1, <1>9, PeerAssumption DEF StdoutEnds, SpawnFails, Fail
<1>10. ASSUME NEW code, OnExit(code) PROVE Answering'
  BY <1>1, <1>4, <1>10, PeerAssumption DEF OnExit, childVars
<1>11. CASE ChildStep
  <2>1. CASE ChildClosesStdout \/ ChildDies
    BY <1>4, <2>1 DEF ChildClosesStdout, ChildDies, requestVars
  <2>2. ASSUME NEW line \in Lines, stdout' = Append(stdout, line), line.kind # "reply",
               UNCHANGED <<nextId, asked, pending, ignoredResponseIds>>
        PROVE  Answering'
    <3>1. /\ Len(stdout') = Len(stdout) + 1 /\ stdout'[Len(stdout) + 1] = line
          /\ \A i \in 1..Len(stdout) : stdout'[i] = stdout[i]
      BY <1>3, <2>2, Put
    <3>2. \A i \in 1..Len(stdout') : IsReply(i)' =>
            i \in 1..Len(stdout) /\ stdout'[i] = stdout[i] /\ IsReply(i)
      BY <1>3, <2>2, <3>1 DEF IsReply
    <3> QED
      BY <1>2, <2>2, <3>2 DEF Answering
  <2>3. CASE ChildMisbehaves
    <3>1. [kind |-> "junk"] \in Lines
      BY DEF Lines
    <3> QED
      BY <2>2, <2>3, <3>1 DEF ChildMisbehaves, requestVars
  <2>4. ASSUME NEW body \in Bodies, ChildNotifies(body) PROVE Answering'
    <3>1. written + 1 \in 1..MaxNotes
      BY <2>4, PeerAssumption DEF ChildNotifies, PeerTypeOK
    <3>2. [kind |-> "note", n |-> written + 1, body |-> body] \in Lines
      BY <3>1 DEF Lines, Notes
    <3> QED
      BY <2>2, <2>4, <3>2 DEF ChildNotifies, requestVars
  <2>5. ASSUME NEW id \in Ids, NEW what \in Replies, ChildAnswers(id, what)
        PROVE  Answering'
    <3> DEFINE line == [kind |-> "reply", id |-> id, what |-> what]
    <3>1. line \in Lines
      BY DEF Lines
    <3>2. /\ Len(stdout') = Len(stdout) + 1 /\ stdout'[Len(stdout) + 1] = line
          /\ \A i \in 1..Len(stdout) : stdout'[i] = stdout[i]
      BY <1>3, <2>5, <3>1, Put DEF ChildAnswers
    <3>3. /\ id \in asked /\ asked' = asked \ {id}
          /\ UNCHANGED <<nextId, pending, ignoredResponseIds>>
      BY <2>5 DEF ChildAnswers, requestVars
    <3>4. ASSUME NEW i \in 1..Len(stdout'), IsReply(i)'
          PROVE  \/ i = Len(stdout) + 1 /\ stdout'[i].id = id
                 \/ i \in 1..Len(stdout) /\ stdout'[i] = stdout[i] /\ IsReply(i)
      BY <1>3, <3>2, <3>4 DEF IsReply
    <3>5. \A i \in 1..Len(stdout') : IsReply(i)' => stdout'[i].id \in Expected \ asked'
      BY <1>2, <3>3, <3>4
    <3>6. \A i, j \in 1..Len(stdout') :
            IsReply(i)' /\ IsReply(j)' /\ i # j => stdout'[i].id # stdout'[j].id
      BY <1>2, <3>3, <3>4
    <3> QED
      BY <1>2, <3>3, <3>5, <3>6 DEF Answering
  <2> QED
    BY <1>11, <2>1, <2>3, <2>4, <2>5 DEF ChildStep
<1> QED
  BY <1>5, <1>6, <1>7, <1>8, <1>9, <1>10, <1>11 DEF PeerNext, ClientCall, PeerEvent

-----------------------------------------------------------------------------
(* The order of the notifications                                           *)

LEMMA NumberingKept == ASSUME PeerTypeOK, Numbering, PeerNext PROVE Numbering'
<1> SUFFICES ASSUME terminalError' = None PROVE Numbering'
  BY DEF Numbering
<1>1. terminalError = None
  BY PeerAssumption DEF PeerNext, ClientCall, Request, Abort, TakeDelivered, Close,
     PeerEvent, HandleLine, StdoutEnds, SpawnFails, CloseStageTimeout, CloseSettles,
     OnExit, Fail, ChildStep, ChildMisbehaves, ChildClosesStdout, ChildDies,
     ChildAnswers, ChildNotifies, endVars
<1>2. /\ heard <= written
      /\ \A i \in 1..Len(stdout) : IsNote(i) => stdout[i].n \in (heard + 1)..written
      /\ \A i, j \in 1..Len(stdout) :
           IsNote(i) /\ IsNote(j) /\ i < j => stdout[i].n < stdout[j].n
      /\ \A k \in (heard + 1)..written : \E i \in 1..Len(stdout) :
           IsNote(i) /\ stdout[i].n = k
  BY <1>1 DEF Numbering
<1>3. /\ heard \in Nat /\ written \in Nat /\ stdout \in Seq(Lines)
      /\ Len(stdout) \in Nat
  BY PeerAssumption DEF PeerTypeOK
<1>4. CASE UNCHANGED <<heard, written, stdout>>
  BY <1>2, <1>4 DEF Numbering, IsNote
<1>5. CASE HandleLine
  <2> DEFINE line == Head(stdout)
  <2>1. /\ line = stdout[1] /\ Len(stdout) \in Nat \ {0}
        /\ stdout' = Tail(stdout) /\ Len(stdout') = Len(stdout) - 1
        /\ \A i \in 1..Len(stdout') : stdout'[i] = stdout[i + 1]
    BY <1>3, <1>5, Taken DEF HandleLine
  <2>2. /\ written' = written
        /\ heard' = IF line.kind = "note" THEN line.n ELSE heard
    BY <1>1, <1>5 DEF HandleLine, noteVars
  <2>3. line.kind = "note" => line.n = heard + 1
    <3>1. SUFFICES ASSUME line.kind = "note" PROVE line.n = heard + 1
      OBVIOUS
    <3>2. IsNote(1) /\ line.n \in (heard + 1)..written
      BY <1>2, <2>1, <3>1 DEF IsNote
    <3>3. heard + 1 \in (heard + 1)..written
      BY <1>3, <3>2
    <3>4. PICK i \in 1..Len(stdout) : IsNote(i) /\ stdout[i].n = heard + 1
      BY <1>2, <3>3
    <3>5. i = 1 \/ stdout[1].n < stdout[i].n
      BY <1>2, <1>3, <2>1, <3>2, <3>4
    <3> QED
      BY <1>3, <2>1, <3>2, <3>4, <3>5
  <2>4. heard' \in Nat /\ heard' <= written' /\ heard <= heard'
    BY <1>2, <1>3, <2>1, <2>2, <2>3 DEF IsNote
  <2>5. ASSUME NEW i \in 1..Len(stdout'), IsNote(i)'
        PROVE  /\ IsNote(i + 1) /\ i + 1 \in 2..Len(stdout)
               /\ stdout'[i] = stdout[i + 1] /\ stdout'[i].n \in (heard' + 1)..written'
    <3>1. IsNote(i + 1) /\ i + 1 \in 2..Len(stdout) /\ stdout'[i] = stdout[i + 1]
      BY <2>1, <2>5 DEF IsNote
    <3>2. stdout[i + 1].n \in (heard + 1)..written
      BY <1>2, <3>1
    <3>3. line.kind = "note" => line.n < stdout[i + 1].n
      BY <1>2, <2>1, <3>1 DEF IsNote
    <3> QED
      BY <1>3, <2>2, <2>3, <3>1, <3>2, <3>3
  <2>6. \A i, j \in 1..Len(stdout') :
          IsNote(i)' /\ IsNote(j)' /\ i < j => stdout'[i].n < stdout'[j].n
    BY <1>2, <2>1, <2>5
  <2>7. ASSUME NEW k \in (heard' + 1)..written'
        PROVE  \E i \in 1..Len(stdout') : IsNote(i)' /\ stdout'[i].n = k
    <3>1. k \in (heard + 1)..written
      BY <1>3, <2>2, <2>4, <2>7
    <3>2. PICK i \in 1..Len(stdout) : IsNote(i) /\ stdout[i].n = k
      BY <1>2, <3>1
    <3>3. i # 1
      BY <1>3, <2>1, <2>2, <2>3, <2>7, <3>2 DEF IsNote
    <3>4. i - 1 \in 1..Len(stdout') /\ stdout'[i - 1] = stdout[i]
      BY <2>1, <3>2, <3>3
    <3>5. IsNote(i - 1)' /\ stdout'[i - 1].n = k
      BY <3>2, <3>4 DEF IsNote
    <3> QED
      BY <3>4, <3>5
  <2> QED
    BY <2>4, <2>5, <2>6, <2>7 DEF Numbering
<1>6. ASSUME NEW line \in Lines, stdout' = Append(stdout, line), line.kind # "note",
             UNCHANGED <<heard, written>>
      PROVE  Numbering'
  <2>1. /\ Len(stdout') = Len(stdout) + 1 /\ stdout'[Len(stdout) + 1] = line
        /\ \A i \in 1..Len(stdout) : stdout'[i] = stdout[i]
    BY <1>3, <1>6, Put
  <2>2. ASSUME NEW i
        PROVE  IsNote(i)' <=> IsNote(i)
    BY <1>3, <1>6, <2>1 DEF IsNote
  <2>3. \A i : IsNote(i) => i \in 1..Len(stdout) /\ stdout'[i] = stdout[i]
    BY <2>1 DEF IsNote
  <2>4. \A i \in 1..Len(stdout) : i \in 1..Len(stdout')
    BY <1>3, <2>1
  <2> QED
    BY <1>2, <1>6, <2>2, <2>3, <2>4 DEF Numbering
<1>7. CASE ChildMisbehaves
  <2>1. [kind |-> "junk"] \in Lines
    BY DEF Lines
  <2> QED
    BY <1>6, <1>7, <2>1 DEF ChildMisbehaves, noteVars
<1>8. ASSUME NEW id \in Ids, NEW what \in Replies, ChildAnswers(id, what)
      PROVE  Numbering'
  <2>1. [kind |-> "reply", id |-> id, what |-> what] \in Lines
    BY DEF Lines
  <2> QED
    BY <1>6, <1>8, <2>1 DEF ChildAnswers, noteVars
<1>9. ASSUME NEW body \in Bodies, ChildNotifies(body) PROVE Numbering'
  <2> DEFINE line == [kind |-> "note", n |-> written + 1, body |-> body]
  <2>1. written' = written + 1 /\ written' \in 1..MaxNotes /\ heard' = heard
    BY <1>3, <1>9, PeerAssumption DEF ChildNotifies, noteVars
  <2>2. line \in Lines
    BY <2>1 DEF Lines, Notes
  <2>3. /\ Len(stdout') = Len(stdout) + 1 /\ stdout'[Len(stdout) + 1] = line
        /\ \A i \in 1..Len(stdout) : stdout'[i] = stdout[i]
    BY <1>3, <1>9, <2>2, Put DEF ChildNotifies
  <2>4. ASSUME NEW i, IsNote(i)'
        PROVE  \/ i = Len(stdout) + 1 /\ stdout'[i].n = written + 1
               \/ i \in 1..Len(stdout) /\ IsNote(i) /\ stdout'[i] = stdout[i]
    BY <1>3, <2>3, <2>4 DEF IsNote
  <2>5. \A i \in 1..Len(stdout') :
          IsNote(i)' => stdout'[i].n \in (heard' + 1)..written'
    BY <1>2, <1>3, <2>1, <2>4
  <2>6. \A i, j \in 1..Len(stdout') :
          IsNote(i)' /\ IsNote(j)' /\ i < j => stdout'[i].n < stdout'[j].n
    <3>1. SUFFICES ASSUME NEW i \in 1..Len(stdout'), NEW j \in 1..Len(stdout'),
                          IsNote(i)', IsNote(j)', i < j
                   PROVE  stdout'[i].n < stdout'[j].n
      OBVIOUS
    <3>2. IsNote(i) /\ stdout'[i] = stdout[i] /\ i \in 1..Len(stdout)
      BY <1>3, <2>3, <2>4, <3>1
    <3>3. stdout[i].n \in (heard + 1)..written
      BY <1>2, <3>2
    <3>4. CASE j = Len(stdout) + 1 /\ stdout'[j].n = written + 1
      BY <1>3, <3>2, <3>3, <3>4
    <3>5. CASE j \in 1..Len(stdout) /\ IsNote(j) /\ stdout'[j] = stdout[j]
      BY <1>2, <3>1, <3>2, <3>5
    <3> QED
      BY <2>4, <3>1, <3>4, <3>5
  <2>7. ASSUME NEW k \in (heard' + 1)..written'
        PROVE  \E i \in 1..Len(stdout') : IsNote(i)' /\ stdout'[i].n = k
    <3>1. CASE k = written + 1
      <4>1. PICK last : last = Len(stdout) + 1
        OBVIOUS
      <4>2. last \in 1..Len(stdout') /\ stdout'[last] = line
        BY <1>3, <2>3, <4>1
      <4>3. IsNote(last)' /\ stdout'[last].n = k
        BY <3>1, <4>2 DEF IsNote
      <4> QED
        BY <4>2, <4>3
    <3>2. CASE k \in (heard + 1)..written
      <4>1. PICK i \in 1..Len(stdout) : IsNote(i) /\ stdout[i].n = k
        BY <1>2, <3>2
      <4>2. i \in 1..Len(stdout') /\ IsNote(i)' /\ stdout'[i].n = k
        BY <1>3, <2>3, <4>1 DEF IsNote
      <4> QED
        BY <4>2
    <3> QED
      BY <1>3, <2>1, <2>7, <3>1, <3>2
  <2>8. heard' <= written'
    BY <1>2, <1>3, <2>1
  <2> QED
    BY <2>5, <2>6, <2>7, <2>8 DEF Numbering
<1>10. CASE ClientCall
  BY <1>4, <1>10 DEF ClientCall, Request, Abort, TakeDelivered, Close, childVars,
     noteVars
<1>11. CASE PeerEvent
  <2>1. CASE ~HandleLine
    BY <1>4, <1>11, <2>1 DEF PeerEvent, StdoutEnds, SpawnFails, CloseStageTimeout,
       CloseSettles, OnExit, childVars, noteVars
  <2> QED
    BY <1>5, <2>1
<1>12. CASE ChildClosesStdout \/ ChildDies
  BY <1>4, <1>12 DEF ChildClosesStdout, ChildDies, noteVars
<1> QED
  BY <1>7, <1>8, <1>9, <1>10, <1>11, <1>12 DEF PeerNext, ChildStep

(* A failure leaves alone what was taken before.                            *)
LEMMA QueueFailed ==
  ASSUME PeerTypeOK, Queueing, NEW cause \in Errors, NEW terminate,
         Fail(cause, terminate), UNCHANGED <<notificationQueue, heard, exit>>
  PROVE  Queueing'
<1>1. CASE terminalError # None
  BY <1>1 DEF Queueing, HoldsNote, Fail
<1>2. CASE terminalError = None
  <2>1. waiter' = FALSE /\ terminalError' # None
    BY <1>2, PeerAssumption DEF Fail, RejectAll, Errors
  <2>2. delivered' = IF waiter THEN [kind |-> "failed"] ELSE delivered
    BY <1>2 DEF Fail, RejectAll
  <2>3. HoldsNote' => HoldsNote /\ delivered' = delivered
    BY <2>2 DEF HoldsNote
  <2>4. notificationQueue # <<>> => HoldsNote'
    BY <2>2 DEF HoldsNote, Queueing
  <2> QED
    BY <2>1, <2>3, <2>4 DEF Queueing
<1> QED
  BY <1>1, <1>2

(* The note at the head of the pipe is the next one to be heard.            *)
LEMMA NextNote ==
  ASSUME PeerTypeOK, Numbering, terminalError = None, stdout # <<>>,
         Head(stdout).kind = "note"
  PROVE  Head(stdout).n = heard + 1
<1> DEFINE line == Head(stdout)
<1>1. /\ line = stdout[1] /\ Len(stdout) \in Nat \ {0} /\ heard \in Nat
  BY Taken, PeerAssumption DEF PeerTypeOK
<1>2. IsNote(1) /\ written \in Nat
  BY <1>1, PeerAssumption DEF IsNote, PeerTypeOK
<1>3. line.n \in (heard + 1)..written
  BY <1>1, <1>2 DEF Numbering
<1>4. heard + 1 \in (heard + 1)..written
  BY <1>1, <1>2, <1>3
<1>5. PICK i \in 1..Len(stdout) : IsNote(i) /\ stdout[i].n = heard + 1
  BY <1>4 DEF Numbering
<1>6. i = 1 \/ stdout[1].n < stdout[i].n
  BY <1>1, <1>2, <1>5 DEF Numbering
<1> QED
  BY <1>1, <1>2, <1>3, <1>5, <1>6

LEMMA QueueLine ==
  ASSUME PeerTypeOK, Ending, Numbering, Queueing, HandleLine
  PROVE  Queueing'
<1> DEFINE line == Head(stdout)
<1>1. exit = None /\ exit' = None
  BY DEF HandleLine, Ending
<1>2. /\ line \in Lines /\ line = stdout[1] /\ Len(stdout) \in Nat \ {0}
      /\ notificationQueue \in Seq(Notes) /\ Len(notificationQueue) \in Nat
      /\ heard \in Nat
  BY Taken, PeerAssumption DEF HandleLine, PeerTypeOK
<1>3. CASE terminalError = None /\ line.kind = "note"
  <2>1. line \in Notes /\ line # None
    BY <1>2, <1>3, NoneAssumption DEF Lines, Delivered
  <2>2. line.n = heard + 1
    BY <1>3, NextNote DEF HandleLine
  <2>3. heard' = heard + 1 /\ terminalError' = None
    BY <1>3, <2>2 DEF HandleLine
  <2>4. CASE waiter
    <3>1. /\ waiter' = FALSE /\ delivered' = line /\ notificationQueue' = <<>>
      BY <1>3, <2>4 DEF HandleLine, Queueing
    <3> QED
      BY <1>3, <2>1, <2>2, <2>3, <3>1 DEF Queueing, HoldsNote
  <2>5. CASE ~waiter
    <3>1. /\ waiter' = FALSE /\ delivered' = delivered
          /\ notificationQueue' = Append(notificationQueue, line)
      BY <1>3, <2>5 DEF HandleLine
    <3>2. HoldsNote /\ HoldsNote'
      BY <1>1, <1>3, <2>5, <3>1 DEF Queueing, HoldsNote
    <3>3. /\ Len(notificationQueue') = Len(notificationQueue) + 1
          /\ notificationQueue'[Len(notificationQueue) + 1] = line
          /\ \A i \in 1..Len(notificationQueue) :
               notificationQueue'[i] = notificationQueue[i]
      BY <1>2, <2>1, <3>1, Put
    <3>4. \A i \in 1..Len(notificationQueue') :
            notificationQueue'[i].n = heard' - Len(notificationQueue') + i
      <4>1. SUFFICES ASSUME NEW i \in 1..Len(notificationQueue')
                     PROVE  notificationQueue'[i].n = heard' - Len(notificationQueue') + i
        OBVIOUS
      <4>2. CASE i = Len(notificationQueue) + 1
        BY <1>2, <2>2, <2>3, <3>3, <4>2
      <4>3. CASE i \in 1..Len(notificationQueue)
        <5>1. notificationQueue[i].n = heard - Len(notificationQueue) + i
          BY <4>3 DEF Queueing
        <5> QED
          BY <1>2, <2>3, <3>3, <4>3, <5>1
      <4> QED
        BY <1>2, <3>3, <4>1, <4>2, <4>3
    <3>5. delivered'.n = heard' - Len(notificationQueue')
      BY <1>2, <2>3, <3>1, <3>2, <3>3 DEF Queueing
    <3> QED
      BY <3>1, <3>2, <3>4, <3>5 DEF Queueing
  <2> QED
    BY <2>4, <2>5
<1>4. CASE terminalError # None \/ (line.kind # "note" /\ terminalError' = terminalError)
  <2>1. UNCHANGED <<notificationQueue, waiter, delivered, heard, terminalError>>
    BY <1>4, PeerAssumption DEF HandleLine, noteVars, Fail
  <2> QED
    BY <1>1, <2>1 DEF Queueing, HoldsNote
<1>5. CASE terminalError = None /\ line.kind # "note" /\ terminalError' # terminalError
  <2>1. PICK cause \in Errors : Fail(cause, TRUE)
    BY <1>5 DEF HandleLine, Errors
  <2>2. UNCHANGED <<notificationQueue, heard>>
    BY <1>5 DEF HandleLine, noteVars
  <2> QED
    BY <1>1, <2>1, <2>2, QueueFailed
<1> QED
  BY <1>3, <1>4, <1>5

LEMMA QueueTaken ==
  ASSUME PeerTypeOK, Queueing, TakeDelivered
  PROVE  Queueing'
<1>1. UNCHANGED <<heard, terminalError, exit>> /\ delivered # None
  BY DEF TakeDelivered, endVars
<1>2. /\ notificationQueue \in Seq(Notes) /\ Len(notificationQueue) \in Nat
      /\ heard \in Nat
  BY PeerAssumption DEF PeerTypeOK
<1>3. CASE delivered.kind # "note"
  <2>1. delivered' = None /\ UNCHANGED <<notificationQueue, waiter>>
    BY <1>3 DEF TakeDelivered
  <2>2. ~HoldsNote /\ ~HoldsNote' /\ notificationQueue = <<>> /\ ~waiter
    BY <1>1, <1>3, <2>1 DEF HoldsNote, Queueing
  <2> QED
    BY <1>1, <2>1, <2>2 DEF Queueing
<1>4. CASE delivered.kind = "note" /\ notificationQueue = <<>>
  <2>1. delivered' = NextInLine /\ waiter' = (NextInLine = None)
    BY <1>4 DEF TakeDelivered
  <2>2. NextInLine = None \/ NextInLine.kind # "note"
    BY <1>4 DEF NextInLine
  <2>3. notificationQueue' = <<>>
    BY <1>4, <2>1, <2>2 DEF TakeDelivered
  <2>4. ~HoldsNote'
    BY <2>1, <2>2 DEF HoldsNote
  <2>5. NextInLine # None => terminalError # None \/ exit # None
    BY <1>4 DEF NextInLine
  <2>6. /\ waiter' => delivered' = None
        /\ ~waiter' => terminalError' # None \/ exit' # None
    BY <1>1, <2>1, <2>5
  <2> QED
    BY <2>3, <2>4, <2>6 DEF Queueing
<1>5. CASE delivered.kind = "note" /\ notificationQueue # <<>>
  <2>1. /\ NextInLine = Head(notificationQueue) /\ NextInLine \in Notes
        /\ NextInLine = notificationQueue[1] /\ Len(notificationQueue) \in Nat \ {0}
        /\ Len(Tail(notificationQueue)) = Len(notificationQueue) - 1
        /\ \A i \in 1..Len(Tail(notificationQueue)) :
             Tail(notificationQueue)[i] = notificationQueue[i + 1]
    BY <1>2, <1>5, Taken DEF NextInLine
  <2>2. NextInLine # None /\ NextInLine.kind = "note"
    BY <2>1, NoneAssumption DEF Notes, Delivered
  <2>3. /\ delivered' = NextInLine /\ waiter' = FALSE
        /\ notificationQueue' = Tail(notificationQueue)
    BY <1>5, <2>2 DEF TakeDelivered
  <2>4. HoldsNote'
    BY <2>2, <2>3 DEF HoldsNote
  <2>5. delivered'.n = heard' - Len(notificationQueue')
    BY <1>1, <1>2, <2>1, <2>3 DEF Queueing
  <2>6. \A i \in 1..Len(notificationQueue') :
          notificationQueue'[i].n = heard' - Len(notificationQueue') + i
    <3>1. SUFFICES ASSUME NEW i \in 1..Len(notificationQueue')
                   PROVE  notificationQueue'[i].n = heard' - Len(notificationQueue') + i
      OBVIOUS
    <3>2. i + 1 \in 1..Len(notificationQueue)
      BY <2>1, <2>3
    <3>3. notificationQueue[i + 1].n = heard - Len(notificationQueue) + (i + 1)
      BY <3>2 DEF Queueing
    <3> QED
      BY <1>1, <1>2, <2>1, <2>3, <3>3
  <2> QED
    BY <2>3, <2>4, <2>5, <2>6 DEF Queueing
<1> QED
  BY <1>3, <1>4, <1>5

LEMMA QueueingKept ==
  ASSUME PeerTypeOK, Ending, Numbering, Queueing, PeerNext
  PROVE  Queueing'
<1>1. CASE UNCHANGED <<notificationQueue, waiter, delivered, heard, terminalError, exit>>
  BY <1>1 DEF Queueing, HoldsNote
<1>2. ASSUME NEW id \in Ids, Request(id) PROVE Queueing'
  <2>1. CASE terminalError # None \/ ~closing
    <3>1. UNCHANGED <<notificationQueue, delivered, heard, terminalError, exit>>
      BY <1>2, <2>1 DEF Request
    <3>2. waiter' <=> waiter
      BY <1>2, <2>1 DEF Request
    <3> QED
      BY <3>1, <3>2 DEF Queueing, HoldsNote
  <2>2. CASE terminalError = None /\ closing
    <3>1. UNCHANGED <<notificationQueue, heard, exit>> /\ waiter' = FALSE
      BY <1>2, <2>2 DEF Request
    <3>2. /\ delivered' = IF waiter THEN [kind |-> "failed"] ELSE delivered
          /\ terminalError' # None
      BY <1>2, <2>2, PeerAssumption DEF Request
    <3>3. HoldsNote' => HoldsNote /\ delivered' = delivered
      BY <3>2 DEF HoldsNote
    <3>4. notificationQueue # <<>> => HoldsNote'
      BY <3>2 DEF HoldsNote, Queueing
    <3> QED
      BY <3>1, <3>2, <3>3, <3>4 DEF Queueing
  <2> QED
    BY <2>1, <2>2
<1>3. ASSUME NEW code \in {"clean", "dirty"}, OnExit(code) PROVE Queueing'
  <2>1. UNCHANGED <<notificationQueue, heard>> /\ exit' # None
    BY <1>3, PeerAssumption DEF OnExit
  <2>2. CASE terminalError # None
    BY <1>3, <2>1, <2>2 DEF OnExit, Queueing, HoldsNote
  <2>3. CASE terminalError = None
    <3>1. waiter' = FALSE
      BY <1>3, <2>3 DEF OnExit, RejectAll, Dismissed
    <3>2. \/ delivered' = IF waiter THEN [kind |-> "failed"] ELSE delivered
          \/ delivered' = IF waiter THEN [kind |-> "end"] ELSE delivered
      BY <1>3, <2>3 DEF OnExit, RejectAll, Dismissed
    <3>3. HoldsNote' => HoldsNote /\ delivered' = delivered
      BY <3>2 DEF HoldsNote
    <3>4. notificationQueue # <<>> => HoldsNote'
      BY <3>2 DEF HoldsNote, Queueing
    <3> QED
      BY <2>1, <3>1, <3>3, <3>4 DEF Queueing
  <2> QED
    BY <2>2, <2>3
<1>4. CASE StdoutEnds
  <2>1. Fail("ended", TRUE) /\ UNCHANGED <<notificationQueue, heard, exit>>
    BY <1>4 DEF StdoutEnds
  <2> QED
    BY <2>1, QueueFailed DEF Errors
<1>5. CASE SpawnFails
  <2>1. Fail("ended", FALSE) /\ UNCHANGED <<notificationQueue, heard, exit>>
    BY <1>5 DEF SpawnFails
  <2> QED
    BY <2>1, QueueFailed DEF Errors
<1>6. CASE Close \/ CloseStageTimeout \/ CloseSettles \/ ChildStep
  BY <1>1, <1>6 DEF Close, CloseStageTimeout, CloseSettles, ChildStep, ChildMisbehaves,
     ChildClosesStdout, ChildDies, ChildAnswers, ChildNotifies, noteVars, endVars
<1>7. ASSUME NEW id, NEW reason, Abort(id, reason) PROVE Queueing'
  BY <1>1, <1>7 DEF Abort, noteVars, endVars
<1> QED
  BY <1>2, <1>3, <1>4, <1>5, <1>6, <1>7, QueueLine, QueueTaken
     DEF PeerNext, ClientCall, PeerEvent

-----------------------------------------------------------------------------
(* The theorems                                                             *)

LEMMA KnownKept ==
  ASSUME PeerTypeOK, Answering, PeerNext, terminalError # "unknownId"
  PROVE  terminalError' # "unknownId"
<1>1. CASE HandleLine
  <2>1. /\ Head(stdout) \in Lines /\ Head(stdout) = stdout[1]
        /\ Len(stdout) \in Nat \ {0}
    BY <1>1, Taken DEF HandleLine, PeerTypeOK
  <2>2. Head(stdout).kind \in {"note", "reply", "junk"}
    BY <2>1 DEF Lines, Notes
  <2>3. terminalError = None /\ Head(stdout).kind = "reply" =>
          Head(stdout).id \in pending \cup ignoredResponseIds
    BY <2>1 DEF Answering, IsReply
  <2> QED
    BY <1>1, <2>2, <2>3, PeerAssumption DEF HandleLine, Fail
<1>2. CASE ~HandleLine
  BY <1>2, PeerAssumption DEF PeerNext, ClientCall, Request, Abort, TakeDelivered, Close,
     PeerEvent, StdoutEnds, SpawnFails, CloseStageTimeout, CloseSettles,
     OnExit, Fail, ChildStep, ChildMisbehaves, ChildClosesStdout, ChildDies,
     ChildAnswers, ChildNotifies, endVars
<1> QED
  BY <1>1, <1>2

(* The parts of IInv are inductive together.                                *)
THEOREM PeerInvariant == PeerSpec => []IInv
<1>1. ASSUME PeerInit PROVE IInv
  <2>1. PeerTypeOK
    BY <1>1, TypeInit
  <2>2. Ending /\ Queueing /\ terminalError # "unknownId"
    BY <1>1, PeerAssumption DEF PeerInit, Ending, Queueing, HoldsNote
  <2>3. Answering /\ Numbering
    BY <1>1 DEF PeerInit, Answering, Numbering, IsReply, IsNote
  <2> QED
    BY <2>1, <2>2, <2>3 DEF IInv
<1>2. ASSUME IInv, [PeerNext]_peerVars PROVE IInv'
  <2>1. CASE UNCHANGED peerVars
    BY <1>2, <2>1 DEF peerVars, IInv, PeerTypeOK, Ending, Answering, Numbering, Queueing,
       HoldsNote, IsReply, IsNote
  <2>2. CASE PeerNext
    <3>1. PeerTypeOK'
      BY <1>2, <2>2, TypeClient, TypeEvent, TypeChild DEF IInv, PeerNext
    <3> QED
      BY <1>2, <2>2, <3>1, EndingKept, AnsweringKept, NumberingKept, QueueingKept,
         KnownKept DEF IInv
  <2> QED
    BY <1>2, <2>1, <2>2
<1> QED
  BY <1>1, <1>2, PTL DEF PeerSpec

(* Once the peer has failed or its child has ended nobody is left waiting,  *)
(* whatever the client calls and in whichever order.                        *)
THEOREM NobodyIsLeftWaiting == PeerSpec => []NobodyWaits
<1>1. IInv => NobodyWaits
  BY DEF IInv, Ending, NobodyWaits
<1> QED
  BY <1>1, PeerInvariant, PTL

(* A response to an aborted request, early or late, never fails the peer.   *)
THEOREM LateResponsesAreHarmless == PeerSpec => []LateResponseHarmless
<1>1. IInv => LateResponseHarmless
  BY DEF IInv, LateResponseHarmless
<1> QED
  BY <1>1, PeerInvariant, PTL

(* Notifications are handed out in the order in which the child wrote them, *)
(* none is missing, and a failure overtakes none of them.                   *)
THEOREM NotificationsInOrder == PeerSpec => []InOrder
<1>1. ASSUME IInv PROVE InOrder
  <2>1. /\ notificationQueue \in Seq(Notes) /\ Len(notificationQueue) \in Nat
        /\ heard \in Nat
    BY <1>1, PeerAssumption DEF IInv, PeerTypeOK
  <2>2. CASE ~HoldsNote
    <3>1. notificationQueue = <<>> /\ InHand = <<>>
      BY <1>1, <2>2 DEF IInv, Queueing, HoldsNote, InHand
    <3> QED
      BY <3>1 DEF InOrder
  <2>3. CASE HoldsNote
    <3>1. InHand = <<delivered>> \o notificationQueue
      BY <2>3 DEF HoldsNote, InHand
    <3>2. delivered \in Notes
      BY <1>1, <2>3 DEF HoldsNote, IInv, PeerTypeOK, Delivered
    <3>3. /\ Len(InHand) = Len(notificationQueue) + 1 /\ InHand[1] = delivered
          /\ \A i \in 2..Len(InHand) : InHand[i] = notificationQueue[i - 1]
      BY <2>1, <3>1, <3>2
    <3>4. ASSUME NEW i \in 1..Len(InHand)
          PROVE  InHand[i].n = heard - Len(InHand) + i
      <4>1. CASE i = 1
        BY <1>1, <2>1, <2>3, <3>3, <4>1 DEF IInv, Queueing
      <4>2. CASE i # 1
        <5>1. i - 1 \in 1..Len(notificationQueue) /\ i \in 2..Len(InHand)
          BY <2>1, <3>3, <4>2
        <5>2. notificationQueue[i - 1].n = heard - Len(notificationQueue) + (i - 1)
          BY <1>1, <5>1 DEF IInv, Queueing
        <5> QED
          BY <2>1, <3>3, <5>1, <5>2
      <4> QED
        BY <4>1, <4>2
    <3> QED
      BY <2>3, <3>4 DEF InOrder, HoldsNote
  <2> QED
    BY <2>2, <2>3
<1> QED
  BY <1>1, PeerInvariant, PTL

(* The peer keeps its three promises to any client, whatever the child does.*)
THEOREM PeerIsCorrect == PeerSpec => []PeerCorrect
BY NobodyIsLeftWaiting, LateResponsesAreHarmless, NotificationsInOrder, PTL DEF PeerCorrect

-----------------------------------------------------------------------------
(* The runner is a client of the peer                                       *)

LEMMA AbortIsPeerStep ==
  ASSUME PeerTypeOK, NEW id, NEW reason \in {"timeout", "cancelled"}, Abort(id, reason)
  PROVE  PeerNext
<1>1. id \in Ids
  BY DEF Abort, PeerTypeOK
<1> QED
  BY <1>1 DEF PeerNext, ClientCall

LEMMA RequestIsPeerStep == ASSUME NEW id, Request(id) PROVE PeerNext
<1>1. id \in Ids
  BY DEF Request
<1> QED
  BY <1>1 DEF PeerNext, ClientCall

LEMMA EventIsPeerStep == ASSUME PeerTypeOK, Event PROVE PeerNext \/ UNCHANGED peerVars
<1>1. CASE \E id \in Ids, what \in Replies : ServerAnswers(id, what)
  BY <1>1 DEF ServerAnswers, PeerNext, ChildStep
<1>2. CASE \E body \in Bodies : ServerNotifies(body)
  BY <1>2 DEF ServerNotifies, PeerNext, ChildStep
<1>3. CASE ServerElse
  BY <1>3 DEF ServerElse, PeerNext, ChildStep
<1>4. CASE DeadlinePasses
  BY <1>4 DEF DeadlinePasses
<1>5. CASE Cancel
  <2>1. Abort(req, "cancelled") \/ UNCHANGED peerVars
    BY <1>5 DEF Cancel
  <2> QED
    BY <2>1, AbortIsPeerStep
<1>6. CASE PeerHandles
  BY <1>6 DEF PeerHandles, PeerNext, PeerEvent
<1> QED
  BY <1>1, <1>2, <1>3, <1>4, <1>5, <1>6 DEF Event

LEMMA TimerIsPeerStep == ASSUME PeerTypeOK, Timers PROVE PeerNext \/ UNCHANGED peerVars
<1>1. CASE RequestTimeout
  <2>1. Abort(req, "timeout")
    BY <1>1 DEF RequestTimeout
  <2> QED
    BY <2>1, AbortIsPeerStep
<1>2. CASE CollectTimeout \/ DrainTimeout
  BY <1>2 DEF CollectTimeout, DrainTimeout
<1>3. CASE PeerCloses
  BY <1>3 DEF PeerCloses, PeerNext, PeerEvent
<1> QED
  BY <1>1, <1>2, <1>3 DEF Timers

LEMMA RunnerIsPeerStep == ASSUME Runner PROVE PeerNext \/ UNCHANGED peerVars
<1>1. CASE SendHandshake \/ SendTurn \/ SendInterrupt
  <2>1. Request(nextId) \/ UNCHANGED peerVars
    BY <1>1 DEF SendHandshake, SendTurn, SendInterrupt
  <2> QED
    BY <2>1, RequestIsPeerStep
<1>2. CASE ClosePeer
  BY <1>2 DEF ClosePeer, PeerNext, ClientCall
<1>3. CASE HandshakeAnswered \/ CaptureBefore \/ TurnStarted \/ Collect
  BY <1>3 DEF HandshakeAnswered, CaptureBefore, TurnStarted, Collect
<1>4. CASE InterruptAnswered \/ Drain \/ CheckAfterError \/ CheckCompleted
  BY <1>4 DEF InterruptAnswered, Drain, CheckAfterError, CheckCompleted
<1>5. CASE CatchError \/ PeerClosed \/ CaptureAfterClose
  BY <1>5 DEF CatchError, PeerClosed, CaptureAfterClose
<1> QED
  BY <1>1, <1>2, <1>3, <1>4, <1>5 DEF Runner

(* A review drives the peer as one of its clients.                          *)
THEOREM ReviewIsClient == Spec => PeerSpec
<1>1. ASSUME Init PROVE PeerInit /\ PeerTypeOK
  BY <1>1, TypeInit DEF Init
<1>2. ASSUME PeerTypeOK, [Next]_vars PROVE [PeerNext]_peerVars
  <2>1. CASE UNCHANGED vars
    BY <2>1 DEF vars, peerVars
  <2>2. CASE Next
    <3>1. CASE HandleLine \/ TakeDelivered
      BY <3>1 DEF PeerNext, PeerEvent, ClientCall
    <3>2. CASE ~HandleLine /\ ~TakeDelivered
      BY <1>2, <2>2, <3>2, EventIsPeerStep, TimerIsPeerStep, RunnerIsPeerStep
         DEF Next, NextLine, Pump
    <3> QED
      BY <3>1, <3>2
  <2> QED
    BY <1>2, <2>1, <2>2
<1>3. ASSUME PeerTypeOK, [PeerNext]_peerVars PROVE PeerTypeOK'
  <2>1. CASE UNCHANGED peerVars
    BY <1>3, <2>1 DEF PeerTypeOK, peerVars
  <2> QED
    BY <1>3, <2>1, TypeClient, TypeEvent, TypeChild DEF PeerNext
<1> QED
  BY <1>1, <1>2, <1>3, PTL DEF Spec, PeerSpec

(* In a review, too, nobody waits for a peer that is gone, no late response *)
(* fails it, and no notification is lost or overtaken on its way.           *)
THEOREM ReviewPeerCorrect == Spec => []PeerCorrect
BY ReviewIsClient, PeerIsCorrect, PTL

-----------------------------------------------------------------------------
(* The outcome of a review                                                  *)

(* Where a review may be once a turn was asked for.                         *)
Turning == {"turn", "collect", "interrupt", "awaitInterrupt", "drain", "guard", "check",
            "afterClose"}
Leaving == {"close", "closing", "afterClose", "done"}
Interrupting == {"interrupt", "awaitInterrupt", "drain"}

(* Requests are numbered by the handshake first; a turn has its snapshot.   *)
Numbered ==
  /\ nextId = req + 1 /\ req \in Nat
  /\ pc = "send" => nextId <= HandshakeLength
  /\ pc \in {"await", "awaitInterrupt"} => req \in Ids
  /\ pc \in Turning \/ (pc = "await" /\ req > HandshakeLength) => before # None

(* What is being thrown, at each place where something is.                  *)
Thrown ==
  /\ pc \in Interrupting => error \in {"active", "preAbort", "timeout"}
  /\ pc = "guard" =>
       error \in {"active", "preAbort", "failed", "cancelled", "timeout"}
  /\ pc = "catch" => error \in Failures \cup {"active"}
  /\ pc \notin Interrupting \cup {"guard", "catch"} => error = None

AfterChanged == afterTurn \notin {None, before}
CloseChanged == afterClose \notin {None, before}

(* A changed repository is on its way to the caller as soon as it is seen.  *)
Compared ==
  /\ before \in {None, "original"}
  /\ before = None => afterTurn = None
  /\ pc # "done" => afterClose = None /\ outcome = None
  /\ failure \in {None} \cup Failures
  /\ failure # None => pc \in Leaving
  /\ error = "mutated" => checked /\ AfterChanged
  /\ AfterChanged => (pc = "catch" /\ error = "mutated") \/ failure = "mutated"
  /\ CloseChanged => failure = "mutated"
  /\ failure = "mutated" => before # None /\ (AfterChanged \/ CloseChanged)

(* A report stands for a turn that nobody interrupted, a cancel for one     *)
(* that was.                                                                *)
Reported ==
  /\ report => pc \in Leaving /\ ~interrupted /\ before # None /\ afterTurn = before
  /\ cancelled => interrupted
  /\ interrupted => pc \in {"guard", "catch"} \cup Leaving
  /\ pc \in {"guard", "catch"} /\ error = "active" => interrupted

Clean == closeStage = "closed" /\ termination = "none" /\ ~endedEarly /\ exit = "clean"

Closed ==
  /\ pc \in {"afterClose", "done"} => closeStage \in {"closed", "threw"}
  /\ pc \in {"afterClose", "done"} /\ failure = None => Clean

Concluded ==
  /\ outcome = "reviewed" =>
       failure = None /\ ~cancelled /\ report /\ afterClose = before
  /\ outcome = "interrupted" => failure = None /\ cancelled
  /\ outcome # None => (outcome = "mutated" <=> failure = "mutated")
  /\ outcome # None => pc = "done"

CInv == Numbered /\ Thrown /\ Compared /\ Reported /\ Closed /\ Concluded

LEMMA CleanIsClean == ASSUME PeerTypeOK PROVE CleanClose <=> Clean
  BY DEF CleanClose, Clean, CloseKind, PeerTypeOK

(* The peer, its child and the clock leave the runner alone, and once it    *)
(* has closed the peer nothing of what it saw of the close changes.         *)
LEMMA OutsideKept ==
  ASSUME PeerTypeOK, CInv, UNCHANGED <<runnerVars, nextId>>,
         pc \in {"afterClose", "done"} =>
           closeStage' = closeStage /\ (Clean => Clean')
  PROVE  CInv'
<1> USE DEF CInv, runnerVars, snapshotVars, resultVars
<1>1. Numbered' /\ Thrown'
  BY DEF Numbered, Thrown
<1>2. Compared' /\ Reported'
  BY DEF Compared, Reported, AfterChanged, CloseChanged
<1>3. Closed' /\ Concluded'
  BY DEF Closed, Concluded
<1> QED
  BY <1>1, <1>2, <1>3

LEMMA EventKept ==
  ASSUME PeerTypeOK, CInv, Event, closeStage \in Stages \cup {"open"}
  PROVE  CInv'
<1>1. pc \notin {"afterClose", "done"}
  BY DEF CInv, Closed, Stages
<1>2. UNCHANGED runnerVars
  BY DEF Event, ServerAnswers, ServerNotifies, ServerElse, DeadlinePasses, Cancel,
     PeerHandles
<1>3. nextId' = nextId
  BY DEF Event, ServerAnswers, ServerNotifies, ServerElse, DeadlinePasses, Cancel,
     PeerHandles, ChildAnswers, ChildNotifies, ChildMisbehaves, ChildClosesStdout,
     ChildDies, Abort, StdoutEnds, SpawnFails, OnExit, requestVars, peerVars
<1> QED
  BY <1>1, <1>2, <1>3, OutsideKept

LEMMA LineKept ==
  ASSUME PeerTypeOK, Ending, CInv, NextLine \/ Pump
  PROVE  CInv'
<1>1. UNCHANGED runnerVars
  BY DEF NextLine, Pump
<1>2. UNCHANGED <<nextId, closeStage, endedEarly, exit>>
  BY DEF NextLine, Pump, HandleLine, TakeDelivered, requestVars, endVars
<1>3. Clean => ~HandleLine
  BY PeerAssumption DEF Clean, Ending, HandleLine
<1>4. Clean => termination' = termination
  BY <1>3 DEF NextLine, Pump, TakeDelivered, endVars
<1> QED
  BY <1>1, <1>2, <1>4, OutsideKept DEF Clean

LEMMA TimerKept ==
  ASSUME PeerTypeOK, CInv, RequestTimeout \/ PeerCloses,
         closeStage \in Stages \cup {"open"}
  PROVE  CInv'
<1>1. pc \notin {"afterClose", "done"}
  BY DEF CInv, Closed, Stages
<1>2. UNCHANGED runnerVars
  BY DEF RequestTimeout, PeerCloses
<1>3. nextId' = nextId
  BY DEF RequestTimeout, PeerCloses, Abort, CloseStageTimeout, CloseSettles, requestVars
<1> QED
  BY <1>1, <1>2, <1>3, OutsideKept

(* A step on the way to a result, or to an error.                           *)
LEMMA MoveKept ==
  ASSUME CInv, Numbered', Thrown',
         UNCHANGED <<before, afterTurn, afterClose, resultVars>>,
         pc \notin Leaving \cup {"guard", "catch"}, pc' \notin Leaving,
         error' # "mutated", pc' \in {"guard", "catch"} => error' # "active"
  PROVE  CInv'
<1>1. failure = None /\ ~AfterChanged /\ ~report /\ ~interrupted
  BY ReviewAssumption DEF CInv, Compared, Reported
<1>2. Compared'
  BY <1>1 DEF CInv, Compared, AfterChanged, CloseChanged, resultVars, Leaving
<1>3. Reported'
  BY <1>1 DEF CInv, Reported, resultVars
<1>4. Closed' /\ Concluded'
  BY DEF CInv, Closed, Concluded, resultVars, Leaving
<1> QED
  BY <1>2, <1>3, <1>4 DEF CInv

(* Nothing is sent, and there is a snapshot where there must be one.        *)
LEMMA NumberedKept ==
  ASSUME Numbered, UNCHANGED <<nextId, req>>, pc' \notin {"send", "await", "awaitInterrupt"},
         pc' \in Turning => before' # None
  PROVE  Numbered'
  BY DEF Numbered

Reasons == {"failed", "cancelled", "timeout"}

LEMMA AnswerErrors ==
  ASSUME PeerTypeOK, req \in Ids, answer[req] \notin {"none", "ok"}
  PROVE  AnswerError(answer[req]) \in Reasons
  BY DEF PeerTypeOK, Settled, Replies, AnswerError, Reasons

LEMMA SendKept ==
  ASSUME PeerTypeOK, CInv, SendHandshake \/ SendTurn \/ SendInterrupt
  PROVE  CInv'
<1>1. /\ pc \notin Leaving \cup {"guard", "catch"}
      /\ UNCHANGED <<before, afterTurn, afterClose, resultVars>>
  BY DEF SendHandshake, SendTurn, SendInterrupt, Leaving, snapshotVars
<1>2. CASE Request(nextId) /\ pc' \in {"await", "awaitInterrupt"}
  <2>1. req' = nextId /\ error' = error
    BY <1>2 DEF SendHandshake, SendTurn, SendInterrupt, Throw, Goto
  <2>2. nextId \in Ids /\ nextId' = nextId + 1
    BY <1>2 DEF Request
  <2>3. pc' = "awaitInterrupt" => pc = "interrupt"
    BY <1>2 DEF SendHandshake, SendTurn, SendInterrupt, Goto, Throw
  <2>4. /\ pc' = "await" => pc \in {"send", "turn"}
    BY <1>2 DEF SendHandshake, SendTurn, SendInterrupt, Goto, Throw
  <2>5. Numbered'
    BY <1>1, <1>2, <2>1, <2>2, <2>3, <2>4, ReviewAssumption, PeerAssumption
       DEF CInv, Numbered, Turning, Ids
  <2>6. Thrown' /\ error' # "mutated"
    BY <1>2, <2>1, <2>3, <2>4, ReviewAssumption DEF CInv, Thrown, Interrupting
  <2> QED
    BY <1>1, <1>2, <2>5, <2>6, MoveKept DEF Leaving
<1>3. CASE pc' \in {"guard", "catch"} /\ UNCHANGED <<peerVars, req>>
  <2>1. error' \in {"cancelled", "timeout"}
    BY <1>3 DEF SendHandshake, SendTurn, SendInterrupt, Throw, Goto
  <2>2. pc' = "guard" => pc = "turn"
    BY <1>3 DEF SendHandshake, SendTurn, SendInterrupt, Throw, Goto
  <2>3. Numbered'
    BY <1>1, <1>3, <2>2, NumberedKept DEF CInv, Numbered, Turning, peerVars
  <2>4. Thrown'
    BY <1>3, <2>1 DEF Thrown, Interrupting, Failures
  <2> QED
    BY <1>1, <1>3, <2>1, <2>3, <2>4, MoveKept DEF Leaving
<1> QED
  BY <1>2, <1>3 DEF SendHandshake, SendTurn, SendInterrupt, Throw, Goto

LEMMA AnsweredKept ==
  ASSUME PeerTypeOK, CInv, HandshakeAnswered \/ TurnStarted
  PROVE  CInv'
<1>1. /\ pc = "await" /\ req \in Ids /\ answer[req] # "none" /\ error = None
      /\ UNCHANGED <<before, afterTurn, afterClose, resultVars, nextId, req>>
  BY DEF HandshakeAnswered, TurnStarted, snapshotVars, peerVars, CInv, Numbered, Thrown,
     Interrupting
<1>2. CASE HandshakeAnswered
  <2>1. \/ pc' = "catch" /\ error' \in Reasons
        \/ pc' = "send" /\ req < HandshakeLength /\ error' = None
        \/ pc' = "before" /\ error' = None
    BY <1>1, <1>2, AnswerErrors DEF HandshakeAnswered, Throw, Goto, Reasons
  <2>2. Numbered'
    BY <1>1, <2>1, ReviewAssumption DEF CInv, Numbered, Turning
  <2>3. Thrown' /\ error' # "mutated"
    BY <2>1, ReviewAssumption DEF Thrown, Interrupting, Failures, Reasons
  <2> QED
    BY <1>1, <2>1, <2>2, <2>3, MoveKept DEF Leaving, Reasons
<1>3. CASE TurnStarted
  <2>1. \/ pc' = "guard" /\ error' \in Reasons
        \/ pc' = "interrupt" /\ error' = "preAbort"
        \/ pc' = "collect" /\ error' = None
    BY <1>1, <1>3, AnswerErrors DEF TurnStarted, Throw, Goto
  <2>2. before # None
    BY <1>1, <1>3 DEF TurnStarted, CInv, Numbered
  <2>3. Numbered'
    BY <1>1, <2>1, <2>2, NumberedKept DEF CInv
  <2>4. Thrown' /\ error' # "mutated"
    BY <2>1, ReviewAssumption DEF Thrown, Interrupting, Reasons
  <2> QED
    BY <1>1, <2>1, <2>3, <2>4, MoveKept DEF Leaving, Reasons
<1> QED
  BY <1>2, <1>3

LEMMA CollectKept == ASSUME PeerTypeOK, CInv, Collect \/ CollectTimeout PROVE CInv'
<1>1. /\ pc = "collect" /\ error = None /\ before # None
      /\ UNCHANGED <<before, afterTurn, afterClose, resultVars, nextId, req>>
  BY DEF Collect, CollectTimeout, snapshotVars, peerVars, CInv, Numbered, Thrown,
     Interrupting, Turning
<1>2. \/ pc' \in {"collect", "check"} /\ error' = None
      \/ pc' = "guard" /\ error' = "failed"
      \/ pc' = "interrupt" /\ error' \in {"active", "timeout"}
  BY <1>1 DEF Collect, CollectTimeout, Throw, Goto
<1>3. Numbered'
  BY <1>1, <1>2, NumberedKept DEF CInv
<1>4. Thrown' /\ error' # "mutated"
  BY <1>2, ReviewAssumption DEF Thrown, Interrupting
<1> QED
  BY <1>1, <1>2, <1>3, <1>4, MoveKept DEF Leaving

LEMMA InterruptKept ==
  ASSUME PeerTypeOK, CInv, InterruptAnswered \/ Drain \/ DrainTimeout
  PROVE  CInv'
<1>1. /\ pc \in {"awaitInterrupt", "drain"} /\ before # None
      /\ error \in {"active", "preAbort", "timeout"}
      /\ UNCHANGED <<before, afterTurn, afterClose, checked, nextId, req>>
      /\ UNCHANGED <<failure, report, outcome>>
  BY DEF InterruptAnswered, Drain, DrainTimeout, snapshotVars, resultVars, peerVars, CInv,
     Numbered, Thrown, Interrupting, Turning
<1>2. \/ /\ UNCHANGED <<interrupted, cancelled>>
         /\ \/ pc' = "drain" /\ error' = error
            \/ pc' \in {"guard", "catch"} /\ error' \in Reasons
      \/ /\ pc' = "guard" /\ error' = error /\ interrupted' = TRUE
         /\ cancelled' = (cancelled \/ error = "preAbort")
  <2>1. CASE InterruptAnswered
    <3>1. req \in Ids /\ answer[req] # "none"
      BY <2>1 DEF InterruptAnswered, CInv, Numbered
    <3> QED
      BY <2>1, <3>1, AnswerErrors DEF InterruptAnswered, InterruptFails, Throw, Goto,
         resultVars, Reasons
  <2>2. CASE Drain
    BY <2>2 DEF Drain, InterruptFails, Throw, Goto, Reasons
  <2>3. CASE DrainTimeout
    BY <2>3 DEF DrainTimeout, InterruptFails, Throw, Goto, Reasons, resultVars
  <2> QED
    BY <2>1, <2>2, <2>3
<1>3. Numbered'
  BY <1>1, <1>2, NumberedKept DEF CInv
<1>4. Thrown'
  BY <1>1, <1>2 DEF Thrown, Interrupting, Reasons, Failures
<1>5. failure = None /\ ~AfterChanged /\ ~report /\ ~interrupted
  BY <1>1, ReviewAssumption DEF CInv, Compared, Reported, Leaving
<1>6. Compared'
  BY <1>1, <1>2, <1>5, ReviewAssumption
     DEF CInv, Compared, AfterChanged, CloseChanged, Reasons, Leaving
<1>7. Reported'
  BY <1>1, <1>2, <1>5 DEF CInv, Reported, Reasons
<1>8. Closed' /\ Concluded'
  BY <1>1, <1>2, ReviewAssumption DEF CInv, Closed, Concluded
<1> QED
  BY <1>3, <1>4, <1>6, <1>7, <1>8 DEF CInv

LEMMA CaptureKept == ASSUME PeerTypeOK, CInv, CaptureBefore PROVE CInv'
<1>1. /\ pc = "before" /\ error = None
      /\ UNCHANGED <<afterTurn, afterClose, checked, resultVars, nextId, req>>
  BY DEF CaptureBefore, peerVars, CInv, Thrown, Interrupting
<1>2. /\ before' \in {before, "original"}
      /\ \/ pc' = "turn" /\ error' = None /\ before' = "original"
         \/ pc' = "catch" /\ error' = "failed" /\ before' = before
  BY <1>1 DEF CaptureBefore, Throw, Goto
<1>3. Numbered'
  BY <1>1, <1>2, NumberedKept, ReviewAssumption DEF CInv, Turning, Snapshots
<1>4. Thrown'
  BY <1>2 DEF Thrown, Interrupting, Failures
<1>5. /\ failure = None /\ ~AfterChanged /\ ~report /\ ~interrupted
      /\ before \in {None, "original"}
  BY <1>1, ReviewAssumption DEF CInv, Compared, Reported, Leaving
<1>6. ~AfterChanged'
  BY <1>1, <1>2, <1>5 DEF CInv, Compared, AfterChanged
<1>7. Compared'
  BY <1>1, <1>2, <1>5, <1>6, ReviewAssumption
     DEF CInv, Compared, CloseChanged, resultVars, Snapshots
<1>8. Reported'
  BY <1>1, <1>2, <1>5 DEF CInv, Reported, resultVars
<1>9. Closed' /\ Concluded'
  BY <1>1, <1>2, ReviewAssumption DEF CInv, Closed, Concluded, resultVars
<1> QED
  BY <1>3, <1>4, <1>7, <1>8, <1>9 DEF CInv

LEMMA CheckKept ==
  ASSUME PeerTypeOK, CInv, CheckAfterError \/ CheckCompleted
  PROVE  CInv'
<1>1. /\ pc \in {"guard", "check"} /\ before # None /\ failure = None /\ ~report
      /\ ~AfterChanged /\ outcome = None
      /\ UNCHANGED <<before, afterClose, failure, cancelled, interrupted, outcome,
                     nextId, req>>
  BY ReviewAssumption DEF CheckAfterError, CheckCompleted, peerVars, resultVars, CInv,
     Numbered, Turning, Compared, Reported, Leaving
<1>2. /\ afterTurn' \in {afterTurn} \cup Snapshots
      /\ \/ /\ pc' = "catch" /\ error' = "mutated" /\ checked' = TRUE
            /\ afterTurn' # before /\ afterTurn' \in Snapshots /\ ~report'
         \/ /\ pc' = "catch" /\ error' \in Failures \cup {"active"} /\ error' # "mutated"
            /\ afterTurn' \in {afterTurn, before} /\ ~report'
            /\ error' = "active" => interrupted
         \/ /\ pc' = "close" \/ (pc' = "turn" /\ pc = "check")
            /\ error' = None
            /\ afterTurn' \in {afterTurn, before} /\ ~report'
         \/ /\ pc' = "close" /\ error' = None /\ afterTurn' = before /\ pc = "check"
            /\ report'
  <2>1. CASE CheckAfterError
    <3>1. /\ pc = "guard" /\ report' = report
          /\ error \in {"active", "preAbort", "failed", "cancelled", "timeout"}
          /\ error = "active" => interrupted
      BY <2>1 DEF CheckAfterError, resultVars, CInv, Thrown, Reported
    <3>2. CASE /\ afterTurn' \in Snapshots /\ checked' = TRUE /\ afterTurn' # before
               /\ Throw("mutated", "catch")
      BY <1>1, <3>1, <3>2, ReviewAssumption DEF CInv, Reported, Leaving, Throw, Goto
    <3>3. CASE afterTurn' \in {afterTurn, before} /\ CarryOn
      <4>1. before \in Snapshots
        BY <1>1 DEF CInv, Compared, Snapshots
      <4> QED
        BY <1>1, <3>1, <3>3, <4>1 DEF CarryOn, Throw, Goto, Failures
    <3> QED
      BY <2>1, <3>2, <3>3 DEF CheckAfterError
  <2>2. CASE CheckCompleted
    BY <1>1, <2>2 DEF CheckCompleted, Throw, Goto, Failures, CInv, Reported, Leaving
  <2> QED
    BY <2>1, <2>2
<1>3. Numbered'
  BY <1>1, <1>2, NumberedKept DEF CInv
<1>4. Thrown'
  BY <1>2, ReviewAssumption DEF Thrown, Interrupting, Failures
<1>5. Compared'
  BY <1>1, <1>2, ReviewAssumption DEF CInv, Compared, AfterChanged, CloseChanged, Snapshots
<1>6. Reported'
  <2>1. pc = "check" => ~interrupted
    BY DEF CInv, Reported, Leaving
  <2> QED
    BY <1>1, <1>2, <2>1, ReviewAssumption DEF CInv, Reported, Leaving
<1>7. Closed' /\ Concluded'
  BY <1>1, <1>2, ReviewAssumption DEF CInv, Closed, Concluded
<1> QED
  BY <1>3, <1>4, <1>5, <1>6, <1>7 DEF CInv

LEMMA CatchKept == ASSUME PeerTypeOK, CInv, CatchError PROVE CInv'
<1>1. /\ pc = "catch" /\ error \in Failures \cup {"active"} /\ failure = None /\ ~report
      /\ outcome = None /\ pc' = "close" /\ error' = None
      /\ UNCHANGED <<before, afterClose, report, interrupted, outcome, nextId, req>>
      /\ before \in {None, "original"}
  BY ReviewAssumption DEF CatchError, Throw, Goto, peerVars, CInv, Thrown, Compared,
     Reported, Leaving
<1>2. AfterChanged <=> error = "mutated"
  BY <1>1, ReviewAssumption DEF CInv, Compared
<1>3. \/ /\ error = "active" /\ cancelled' = TRUE
         /\ UNCHANGED <<failure, afterTurn, checked>>
      \/ /\ error # "active" /\ cancelled' = cancelled /\ failure' = error
         /\ afterTurn' \in {afterTurn, before}
         /\ error = "mutated" => afterTurn' = afterTurn
      \/ /\ error # "active" /\ cancelled' = cancelled /\ failure' = "mutated"
         /\ afterTurn' \in Snapshots /\ afterTurn' # before /\ before # None
  <2>1. error = "mutated" => checked
    BY DEF CInv, Compared
  <2> QED
    BY <1>1, <2>1 DEF CatchError
<1>4. Numbered'
  BY <1>1, NumberedKept DEF CInv, Turning
<1>5. Thrown'
  BY <1>1 DEF Thrown, Interrupting
<1>6. AfterChanged' => failure' = "mutated"
  BY <1>1, <1>2, <1>3 DEF AfterChanged
<1>7. failure' = "mutated" => before' # None /\ AfterChanged'
  BY <1>1, <1>2, <1>3, ReviewAssumption DEF AfterChanged, Snapshots, CInv, Compared
<1>8. Compared'
  <2>1. failure' \in {None} \cup Failures
    BY <1>1, <1>3 DEF Failures
  <2>2. before' = None => afterTurn' = None
    BY <1>1, <1>3 DEF CInv, Compared
  <2>3. afterClose = None
    BY <1>1 DEF CInv, Compared
  <2> QED
    BY <1>1, <1>6, <1>7, <2>1, <2>2, <2>3, ReviewAssumption
       DEF Compared, CloseChanged, Leaving
<1>9. Reported'
  BY <1>1, <1>3 DEF CInv, Reported, Leaving
<1>10. Closed' /\ Concluded'
  BY <1>1, ReviewAssumption DEF CInv, Closed, Concluded
<1> QED
  BY <1>4, <1>5, <1>8, <1>9, <1>10 DEF CInv

LEMMA CloseKept == ASSUME PeerTypeOK, CInv, ClosePeer PROVE CInv'
<1>1. /\ pc = "close" /\ pc' = "closing" /\ error = None /\ nextId' = nextId
      /\ UNCHANGED <<req, error, before, afterTurn, afterClose, resultVars>>
  BY DEF ClosePeer, Close, Goto, requestVars, CInv, Thrown, Interrupting
<1>2. Numbered'
  BY <1>1, NumberedKept DEF CInv, Turning
<1>3. Thrown'
  BY <1>1 DEF Thrown, Interrupting
<1>4. Compared'
  BY <1>1, ReviewAssumption
     DEF CInv, Compared, AfterChanged, CloseChanged, Leaving, resultVars
<1>5. Reported'
  BY <1>1 DEF CInv, Reported, Leaving, resultVars
<1>6. Closed' /\ Concluded'
  BY <1>1 DEF CInv, Closed, Concluded, resultVars
<1> QED
  BY <1>2, <1>3, <1>4, <1>5, <1>6 DEF CInv

(* Conclude hands out what the results stand for.                           *)
LEMMA ConcludeRight ==
  ASSUME Conclude, failure' \in {None} \cup Failures,
         report' /\ failure' = None /\ afterClose' # None => afterClose' = before'
  PROVE  Concluded'
<1>1. pc' = "done"
  BY DEF Conclude, Goto
<1>2. CASE failure' # None
  BY <1>1, <1>2, ReviewAssumption DEF Conclude, Concluded, Failures
<1>3. CASE failure' = None
  <2>1. outcome' \in {"failed", "teardown", "interrupted", "reviewed"}
    BY <1>3 DEF Conclude
  <2>2. outcome' = "interrupted" => cancelled'
    BY <1>3 DEF Conclude
  <2>3. outcome' = "reviewed" => ~cancelled' /\ Complete'
    BY <1>3 DEF Conclude
  <2>4. Complete' => report' /\ afterClose' # None
    BY DEF Complete
  <2> QED
    BY <1>1, <1>3, <2>1, <2>2, <2>3, <2>4, ReviewAssumption DEF Concluded
<1> QED
  BY <1>2, <1>3

LEMMA ClosedKept == ASSUME PeerTypeOK, CInv, PeerClosed PROVE CInv'
<1>1. /\ pc = "closing" /\ error' = None /\ pc' \in {"afterClose", "done"}
      /\ closeStage \in {"closed", "threw"} /\ afterClose = None
      /\ UNCHANGED <<before, afterTurn, afterClose, checked, cancelled, report,
                     interrupted, nextId, req>>
      /\ UNCHANGED <<closeStage, termination, endedEarly, exit>>
  BY DEF PeerClosed, Conclude, Goto, peerVars, snapshotVars, CInv, Thrown, Compared,
     Interrupting
<1>2. /\ pc' = "afterClose" => before # None /\ outcome' = None
      /\ pc' = "done" => Conclude
  BY <1>1 DEF PeerClosed, Conclude, Goto, CInv, Compared
<1>3. /\ failure' \in {failure, "teardown"} /\ failure' \in {None} \cup Failures
      /\ failure' = "mutated" <=> failure = "mutated"
      /\ failure' = None => Clean
  BY CleanIsClean, ReviewAssumption DEF PeerClosed, CInv, Compared, Failures
<1>4. Numbered'
  BY <1>1, <1>2, NumberedKept DEF CInv, Turning
<1>5. Thrown'
  BY <1>1 DEF Thrown, Interrupting
<1>6. Compared'
  BY <1>1, <1>2, <1>3, ReviewAssumption
     DEF CInv, Compared, AfterChanged, CloseChanged, Leaving
<1>7. Reported'
  BY <1>1 DEF CInv, Reported, Leaving
<1>8. Closed'
  BY <1>1, <1>3 DEF Closed, Clean
<1>9. Concluded'
  <2>1. CASE pc' = "done"
    BY <1>1, <1>2, <1>3, <2>1, ConcludeRight
  <2>2. CASE pc' = "afterClose"
    BY <1>2, <2>2, ReviewAssumption DEF Concluded
  <2> QED
    BY <1>1, <2>1, <2>2
<1> QED
  BY <1>4, <1>5, <1>6, <1>7, <1>8, <1>9 DEF CInv

LEMMA AfterCloseKept == ASSUME PeerTypeOK, CInv, CaptureAfterClose PROVE CInv'
<1>1. /\ pc = "afterClose" /\ error' = None /\ pc' = "done" /\ before = "original"
      /\ closeStage \in {"closed", "threw"} /\ afterClose = None
      /\ UNCHANGED <<before, afterTurn, checked, report, interrupted, nextId, req>>
      /\ UNCHANGED <<closeStage, termination, endedEarly, exit>>
  BY ReviewAssumption DEF CaptureAfterClose, Conclude, Goto, peerVars, CInv, Thrown,
     Compared, Interrupting, Numbered, Turning, Closed
<1>2. \/ /\ afterClose' \in Snapshots /\ afterClose' # before
         /\ failure' = "mutated" /\ cancelled' = FALSE
      \/ /\ afterClose' = before /\ UNCHANGED <<failure, cancelled>>
      \/ /\ afterClose' = None /\ cancelled' = cancelled
         /\ failure' = IF failure = None /\ ~cancelled THEN "failed" ELSE failure
  BY <1>1 DEF CaptureAfterClose, FailureAfterClose
<1>3. /\ failure' \in {None} \cup Failures
      /\ failure' = None => failure = None
      /\ failure' = "mutated" <=> failure = "mutated" \/ CloseChanged'
  <2>1. failure \in {None} \cup Failures
    BY DEF CInv, Compared
  <2>2. CloseChanged' <=> afterClose' \in Snapshots /\ afterClose' # before
    BY <1>1, <1>2, ReviewAssumption DEF CloseChanged, Snapshots
  <2> QED
    BY <1>1, <1>2, <2>1, <2>2, ReviewAssumption DEF Failures
<1>4. Numbered'
  BY <1>1, NumberedKept DEF CInv, Turning
<1>5. Thrown'
  BY <1>1 DEF Thrown, Interrupting
<1>6. Compared'
  <2>1. CloseChanged => failure = "mutated"
    BY DEF CInv, Compared
  <2>2. AfterChanged' <=> AfterChanged
    BY <1>1 DEF AfterChanged
  <2>3. /\ AfterChanged => failure = "mutated"
        /\ failure = "mutated" => before # None /\ AfterChanged
    BY <1>1, ReviewAssumption DEF CInv, Compared, CloseChanged
  <2>4. failure' = "mutated" <=> AfterChanged' \/ CloseChanged'
    BY <1>1, <1>3, <2>2, <2>3
  <2> QED
    BY <1>1, <1>3, <2>4, ReviewAssumption DEF Compared, Leaving, Snapshots
<1>7. Reported'
  BY <1>1, <1>2 DEF CInv, Reported, Leaving
<1>8. Closed'
  BY <1>1, <1>3 DEF CInv, Closed, Clean
<1>9. Concluded'
  <2>1. failure' = None /\ afterClose' # None => afterClose' = before'
    BY <1>1, <1>2, ReviewAssumption
  <2>2. Conclude
    BY DEF CaptureAfterClose
  <2> QED
    BY <1>3, <2>1, <2>2, ConcludeRight
<1> QED
  BY <1>4, <1>5, <1>6, <1>7, <1>8, <1>9 DEF CInv

-----------------------------------------------------------------------------
(* CInv is inductive given what is known of the peer.                       *)
THEOREM ReviewInvariant == Spec => [](PeerTypeOK /\ Ending /\ CInv)
<1>1. ASSUME Init PROVE CInv
  <2>1. Numbered /\ Thrown /\ Closed
    BY <1>1, ReviewAssumption
       DEF Init, PeerInit, Numbered, Thrown, Closed, Turning, Interrupting
  <2>2. Compared /\ Reported /\ Concluded
    BY <1>1, ReviewAssumption
       DEF Init, Compared, Reported, Concluded, AfterChanged, CloseChanged, Leaving
  <2> QED
    BY <2>1, <2>2 DEF CInv
<1>2. ASSUME PeerTypeOK, Ending, CInv, [Next]_vars PROVE CInv'
  <2>1. CASE UNCHANGED vars
    <3>1. UNCHANGED <<runnerVars, nextId, closeStage, termination, endedEarly, exit>>
      BY <2>1 DEF vars, runnerVars, snapshotVars, resultVars
    <3> QED
      BY <1>2, <3>1, OutsideKept DEF Clean
  <2>2. CASE Runner
    BY <1>2, <2>2, SendKept, AnsweredKept, CollectKept, InterruptKept, CaptureKept,
       CheckKept, CatchKept, CloseKept, ClosedKept, AfterCloseKept DEF Runner
  <2>3. CASE closeStage \in Stages \cup {"open"} /\ (Event \/ Timers)
    BY <1>2, <2>3, EventKept, TimerKept, CollectKept, InterruptKept DEF Timers
  <2>4. CASE NextLine \/ Pump
    BY <1>2, <2>4, LineKept
  <2> QED
    BY <1>2, <2>1, <2>2, <2>3, <2>4 DEF Next
<1>3. IInv => PeerTypeOK /\ Ending
  BY DEF IInv
<1> QED
  BY <1>1, <1>2, <1>3, ReviewIsClient, PeerInvariant, PTL DEF Spec

(* A review is handed out only after a clean end of the child, a turn that  *)
(* nobody interrupted, and three equal snapshots.                           *)
THEOREM ReviewedMeansSound == Spec => []ReviewedIsSound
<1>1. ASSUME PeerTypeOK, Ending, CInv, outcome = "reviewed" PROVE ReviewedIsSound
  <2>1. /\ failure = None /\ report /\ afterClose = before /\ pc = "done"
    BY <1>1, ReviewAssumption DEF CInv, Concluded
  <2>2. Clean /\ ~interrupted /\ before # None /\ afterTurn = before
    BY <1>1, <2>1 DEF CInv, Closed, Reported
  <2>3. child = "down"
    BY <1>1, <2>2, PeerAssumption DEF Ending, Clean
  <2> QED
    BY <2>1, <2>2, <2>3 DEF ReviewedIsSound, Clean
<1> QED
  BY <1>1, ReviewInvariant, PTL DEF ReviewedIsSound

(* Whoever changes the repository during a review is reported, and nothing  *)
(* else is ever reported as a change.                                       *)
THEOREM ChangesAreReported == Spec => []ChangeIsReported
<1>1. ASSUME CInv, outcome # None PROVE outcome = "mutated" <=> Changed
  <2>1. (outcome = "mutated" <=> failure = "mutated") /\ pc = "done"
    BY <1>1 DEF CInv, Concluded
  <2>2. failure = "mutated" <=> before # None /\ (AfterChanged \/ CloseChanged)
    BY <1>1, <2>1 DEF CInv, Compared
  <2>3. before # None /\ (AfterChanged \/ CloseChanged) <=> Changed
    BY DEF Changed, AfterChanged, CloseChanged
  <2> QED
    BY <2>1, <2>2, <2>3
<1> QED
  BY <1>1, ReviewInvariant, PTL DEF ChangeIsReported

(* A cancel that is reported as clean was acknowledged by the child, which  *)
(* then ended by itself, and no snapshot differs.                           *)
THEOREM CancelledMeansClean == Spec => []CancelledIsClean
<1>1. ASSUME CInv, outcome = "interrupted" PROVE CancelledIsClean
  <2>1. failure = None /\ cancelled /\ pc = "done"
    BY <1>1, ReviewAssumption DEF CInv, Concluded
  <2>2. Clean /\ interrupted
    BY <1>1, <2>1 DEF CInv, Closed, Reported
  <2>3. ~Changed
    BY <1>1, <2>1, ReviewAssumption
       DEF CInv, Compared, Changed, AfterChanged, CloseChanged
  <2> QED
    BY <2>2, <2>3 DEF CancelledIsClean, Clean
<1> QED
  BY <1>1, ReviewInvariant, PTL DEF CancelledIsClean
(* What the runner reports is what happened to the review: the three        *)
(* promises together.                                                       *)
THEOREM OutcomesAreTrue == Spec => []OutcomeIsTrue
BY ReviewedMeansSound, ChangesAreReported, CancelledMeansClean, PTL DEF OutcomeIsTrue

-----------------------------------------------------------------------------
(* Nothing is skipped between the child and the runner                      *)

(* The last notification that has left the hands of the peer.               *)
Held == heard - Len(notificationQueue) - (IF HoldsNote THEN 1 ELSE 0)
LooksAtNote == got # None /\ got.kind = "note"

(* The reader goes on where the peer ends, and the runner where the reader  *)
(* does; only the two loops over notifications wait for one.                *)
Reading ==
  /\ readerQueue \in Seq(Notes) /\ readerWaiter \in BOOLEAN
  /\ readerDone \in {"no", "end", "failed"}
  /\ got \in {None} \cup Delivered /\ seen \in Nat
  /\ readerWaiter => got = None /\ readerQueue = <<>>
  /\ pc \notin {"collect", "drain"} => got = None /\ ~readerWaiter
  /\ LooksAtNote => got.n = seen + 1 /\ seen + 1 + Len(readerQueue) = Held
  /\ ~LooksAtNote => seen + Len(readerQueue) = Held
  /\ \A i \in 1..Len(readerQueue) : readerQueue[i].n = Held - Len(readerQueue) + i

LEMMA HeldType == ASSUME PeerTypeOK PROVE Held \in Int /\ heard \in Nat
  BY PeerAssumption DEF PeerTypeOK, Held

(* A step that takes nothing from the pipe and nothing out of the peer.     *)
Quiet ==
  /\ UNCHANGED <<heard, notificationQueue>>
  /\ delivered' = delivered \/ (waiter /\ delivered' \in [kind : {"end", "failed"}])

LEMMA QuietHeld == ASSUME PeerTypeOK, Queueing, Quiet PROVE Held' = Held
<1>1. HoldsNote' <=> HoldsNote
  <2>1. CASE delivered' = delivered
    BY <2>1 DEF HoldsNote
  <2>2. CASE waiter /\ delivered' \in [kind : {"end", "failed"}]
    <3>1. ~HoldsNote
      BY <2>2 DEF Queueing, HoldsNote
    <3>2. delivered'.kind # "note"
      BY <2>2
    <3> QED
      BY <3>1, <3>2 DEF HoldsNote
  <2> QED
    BY <2>1, <2>2 DEF Quiet
<1> QED
  BY <1>1 DEF Held, Quiet

LEMMA EventQuiet == ASSUME Event PROVE Quiet
<1> USE DEF Quiet, noteVars, peerVars
<1>1. ASSUME NEW id \in Ids, NEW what \in Replies, ServerAnswers(id, what) PROVE Quiet
  BY <1>1 DEF ServerAnswers, ChildAnswers
<1>2. ASSUME NEW body \in Bodies, ServerNotifies(body) PROVE Quiet
  BY <1>2 DEF ServerNotifies, ChildNotifies
<1>3. CASE ServerElse \/ DeadlinePasses
  BY <1>3 DEF ServerElse, DeadlinePasses, ChildMisbehaves, ChildClosesStdout, ChildDies
<1>4. CASE Cancel
  BY <1>4 DEF Cancel, Abort
<1>5. CASE StdoutEnds \/ SpawnFails
  BY <1>5 DEF StdoutEnds, SpawnFails, Fail, RejectAll
<1>6. ASSUME NEW code, OnExit(code) PROVE Quiet
  BY <1>6 DEF OnExit, RejectAll, Dismissed
<1> QED
  BY <1>1, <1>2, <1>3, <1>4, <1>5, <1>6 DEF Event, PeerHandles

LEMMA TimerQuiet == ASSUME Timers PROVE Quiet
  BY DEF Timers, RequestTimeout, CollectTimeout, DrainTimeout, PeerCloses, Abort,
     CloseStageTimeout, CloseSettles, noteVars, peerVars, Quiet

LEMMA RequestQuiet == ASSUME NEW id, Request(id) PROVE Quiet
  BY DEF Request, Quiet

LEMMA RunnerQuiet == ASSUME Runner PROVE Quiet
<1>1. CASE SendHandshake \/ SendTurn \/ SendInterrupt
  <2>1. Request(nextId) \/ UNCHANGED peerVars
    BY <1>1 DEF SendHandshake, SendTurn, SendInterrupt
  <2> QED
    BY <2>1, RequestQuiet DEF Quiet, peerVars
<1>2. CASE ~(SendHandshake \/ SendTurn \/ SendInterrupt)
  BY <1>2 DEF Runner, HandshakeAnswered, CaptureBefore, TurnStarted, Collect,
     InterruptAnswered, Drain, CheckAfterError, CheckCompleted, CatchError, ClosePeer,
     Close, PeerClosed, CaptureAfterClose, noteVars, peerVars, Quiet
<1> QED
  BY <1>1, <1>2

(* A line leaves what the peer has handed over as it is: a notification     *)
(* goes to the waiter, who has had all before it, or to the queue.          *)
LEMMA LineHeld ==
  ASSUME PeerTypeOK, PeerTypeOK', Numbering, Queueing, Queueing', HandleLine
  PROVE  Held' = Held
<1>1. heard \in Nat /\ heard' \in Nat
  BY PeerAssumption DEF PeerTypeOK
<1>2. CASE Quiet
  BY <1>2, QuietHeld
<1>3. CASE /\ terminalError = None /\ Head(stdout).kind = "note"
  <2>1. heard' = heard + 1
    BY <1>3, NextNote DEF HandleLine
  <2>2. CASE waiter
    <3>1. ~HoldsNote /\ notificationQueue = <<>>
      BY <2>2 DEF Queueing, HoldsNote
    <3>2. delivered' = Head(stdout) /\ notificationQueue' = <<>>
      BY <1>3, <2>2, <3>1 DEF HandleLine
    <3>3. Head(stdout) \in Lines
      BY Taken DEF HandleLine, PeerTypeOK
    <3>4. Head(stdout) \in Notes
      BY <1>3, <3>3 DEF Lines
    <3>5. HoldsNote'
      BY <1>3, <3>2, <3>4, NoneAssumption DEF HoldsNote, Delivered
    <3> QED
      BY <1>1, <2>1, <3>1, <3>2, <3>5 DEF Held
  <2>3. CASE ~waiter
    <3>1. notificationQueue' = Append(notificationQueue, Head(stdout)) /\ delivered' = delivered
      BY <1>3, <2>3 DEF HandleLine
    <3>2. Head(stdout) \in Notes
      BY <1>3, Taken DEF HandleLine, PeerTypeOK, Lines
    <3>3. Len(notificationQueue') = Len(notificationQueue) + 1 /\ Len(notificationQueue) \in Nat
      BY <3>1, <3>2, Put DEF PeerTypeOK
    <3>4. HoldsNote' = HoldsNote
      BY <3>1 DEF HoldsNote
    <3> QED
      BY <1>1, <2>1, <3>3, <3>4 DEF Held
  <2> QED
    BY <2>2, <2>3
<1>4. Quiet \/ (terminalError = None /\ Head(stdout).kind = "note")
  BY DEF HandleLine, Fail, RejectAll, noteVars, Quiet
<1> QED
  BY <1>2, <1>3, <1>4

(* The pump gets the next notification, or what is no notification.         *)
LEMMA TakenNext ==
  ASSUME PeerTypeOK, PeerTypeOK', Queueing, Queueing', TakeDelivered
  PROVE  /\ delivered \in Delivered
         /\ delivered.kind = "note" => delivered.n = Held + 1 /\ Held' = Held + 1
         /\ delivered.kind # "note" => Held' = Held
<1>1. delivered \in Delivered /\ heard \in Nat /\ heard' = heard
  BY PeerAssumption DEF PeerTypeOK, TakeDelivered
<1>2. CASE delivered.kind # "note"
  <2>1. ~HoldsNote /\ ~HoldsNote' /\ notificationQueue' = notificationQueue
    BY <1>2 DEF TakeDelivered, HoldsNote
  <2> QED
    BY <1>1, <1>2, <2>1 DEF Held
<1>3. CASE delivered.kind = "note"
  <2>1. HoldsNote /\ delivered.n = heard - Len(notificationQueue)
    BY <1>3 DEF Queueing, HoldsNote, TakeDelivered
  <2>2. delivered' = NextInLine /\ Len(notificationQueue) \in Nat
    BY <1>3 DEF TakeDelivered, PeerTypeOK
  <2>3. CASE notificationQueue = <<>>
    <3>1. ~HoldsNote'
      BY <2>2, <2>3 DEF NextInLine, HoldsNote
    <3>2. notificationQueue' = <<>>
      BY <1>3, <2>3, <3>1 DEF TakeDelivered, HoldsNote
    <3> QED
      BY <1>1, <1>3, <2>1, <2>3, <3>1, <3>2 DEF Held
  <2>4. CASE notificationQueue # <<>>
    <3>1. delivered' = Head(notificationQueue) /\ Head(notificationQueue) \in Notes
      BY <2>2, <2>4, Taken DEF NextInLine, PeerTypeOK
    <3>2. HoldsNote'
      BY <3>1, NoneAssumption DEF HoldsNote, Delivered, Notes
    <3>3. notificationQueue' = Tail(notificationQueue)
      BY <1>3, <3>2 DEF TakeDelivered, HoldsNote
    <3>4. Len(notificationQueue') = Len(notificationQueue) - 1
      BY <2>4, <3>3, Taken DEF PeerTypeOK
    <3> QED
      BY <1>1, <1>3, <2>1, <2>2, <3>2, <3>4 DEF Held
  <2> QED
    BY <2>3, <2>4
<1> QED
  BY <1>1, <1>2, <1>3

(* A step that leaves the reader alone and does not enter its loops.        *)
LEMMA ReaderLeft ==
  ASSUME Reading, Held' = Held, UNCHANGED <<readerQueue, readerWaiter, readerDone, got, seen>>,
         pc' = pc \/ pc \notin {"collect", "drain"}
  PROVE  Reading'
  BY DEF Reading, LooksAtNote

(* next() hands out the notification after the one that was seen last.      *)
LEMMA NextIsNext ==
  ASSUME PeerTypeOK, ReaderNext, readerQueue \in Seq(Notes), readerWaiter = FALSE,
         readerDone \in {"no", "end", "failed"}, seen' \in Nat, readerDone' = readerDone,
         seen' + Len(readerQueue) = Held, Held' = Held, pc' \in {"collect", "drain"},
         \A i \in 1..Len(readerQueue) : readerQueue[i].n = Held - Len(readerQueue) + i
  PROVE  Reading'
<1>1. Held \in Int /\ Len(readerQueue) \in Nat
  BY HeldType
<1>2. CASE readerQueue # <<>>
  <2>1. /\ got' = Head(readerQueue) /\ readerQueue' = Tail(readerQueue)
        /\ readerWaiter' = FALSE
    BY <1>2 DEF ReaderNext
  <2>2. /\ got' \in Notes /\ got' = readerQueue[1] /\ readerQueue' \in Seq(Notes)
        /\ Len(readerQueue') = Len(readerQueue) - 1 /\ Len(readerQueue) # 0
        /\ \A i \in 1..Len(readerQueue') : readerQueue'[i] = readerQueue[i + 1]
    BY <1>2, <2>1, Taken
  <2>3. LooksAtNote' /\ got' \in Delivered
    BY <2>2, NoneAssumption DEF LooksAtNote, Delivered, Notes
  <2>4. got'.n = seen' + 1 /\ seen' + 1 + Len(readerQueue') = Held'
    BY <1>1, <2>2
  <2>5. \A i \in 1..Len(readerQueue') :
          readerQueue'[i].n = Held' - Len(readerQueue') + i
    <3> TAKE i \in 1..Len(readerQueue')
    <3>1. i + 1 \in 1..Len(readerQueue) /\ i \in Int
      BY <1>1, <2>2
    <3>2. readerQueue[i + 1].n = Held - Len(readerQueue) + (i + 1)
      BY <3>1
    <3> QED
      BY <1>1, <2>2, <3>1, <3>2
  <2> QED
    BY <2>1, <2>2, <2>3, <2>4, <2>5 DEF Reading
<1>3. CASE readerQueue = <<>> /\ readerDone # "no"
  <2>1. got' = [kind |-> readerDone] /\ UNCHANGED <<readerQueue, readerWaiter>>
    BY <1>3 DEF ReaderNext
  <2>2. got' \in Delivered /\ ~LooksAtNote'
    BY <1>3, <2>1 DEF Delivered, LooksAtNote
  <2> QED
    BY <1>1, <1>3, <2>1, <2>2 DEF Reading
<1>4. CASE readerQueue = <<>> /\ readerDone = "no"
  <2>1. got' = None /\ readerWaiter' = TRUE /\ readerQueue' = readerQueue
    BY <1>4 DEF ReaderNext
  <2> QED
    BY <1>1, <1>4, <2>1 DEF Reading, LooksAtNote
<1> QED
  BY <1>2, <1>3, <1>4

LEMMA PumpReads ==
  ASSUME PeerTypeOK, PeerTypeOK', Queueing, Queueing', Reading, Pump
  PROVE  Reading'
<1>1. /\ delivered \in Delivered
      /\ delivered.kind = "note" => delivered.n = Held + 1 /\ Held' = Held + 1
      /\ delivered.kind # "note" => Held' = Held
  BY TakenNext DEF Pump
<1>2. Held \in Int /\ pc' = pc /\ seen' = seen /\ delivered # None
  BY <1>1, HeldType, NoneAssumption DEF Pump, runnerVars
<1>3. readerDone' \in {"no", "end", "failed"}
  BY <1>1 DEF Pump, Reading, Delivered, Notes
<1>4. CASE readerWaiter
  <2>1. /\ got' = delivered /\ readerWaiter' = FALSE /\ readerQueue' = readerQueue
        /\ readerQueue = <<>> /\ got = None /\ ~LooksAtNote /\ pc \in {"collect", "drain"}
    BY <1>4 DEF Pump, Reading, LooksAtNote
  <2>2. seen = Held
    BY <1>2, <2>1 DEF Reading
  <2>3. LooksAtNote' <=> delivered.kind = "note"
    BY <1>2, <2>1 DEF LooksAtNote
  <2>4. LooksAtNote' => got'.n = seen' + 1 /\ seen' + 1 + Len(readerQueue') = Held'
    BY <1>1, <1>2, <2>1, <2>2, <2>3
  <2>5. ~LooksAtNote' => seen' + Len(readerQueue') = Held'
    BY <1>1, <1>2, <2>1, <2>2, <2>3
  <2>6. /\ readerQueue' \in Seq(Notes) /\ got' \in {None} \cup Delivered /\ seen' \in Nat
        /\ Len(readerQueue') = 0
    BY <1>1, <1>2, <2>1 DEF Reading
  <2>7. \A i \in 1..Len(readerQueue') :
          readerQueue'[i].n = Held' - Len(readerQueue') + i
    BY <2>6
  <2> QED
    BY <1>2, <1>3, <2>1, <2>4, <2>5, <2>6, <2>7 DEF Reading
<1>5. CASE ~readerWaiter /\ delivered.kind = "note"
  <2>1. UNCHANGED <<got, readerWaiter>> /\ readerQueue' = Append(readerQueue, delivered)
    BY <1>5 DEF Pump
  <2>2. delivered \in Notes /\ (LooksAtNote' <=> LooksAtNote)
    BY <1>1, <1>5, <2>1 DEF Delivered, LooksAtNote
  <2>3. /\ readerQueue' \in Seq(Notes) /\ Len(readerQueue') = Len(readerQueue) + 1
        /\ readerQueue'[Len(readerQueue) + 1] = delivered /\ Len(readerQueue) \in Nat
        /\ \A i \in 1..Len(readerQueue) : readerQueue'[i] = readerQueue[i]
    BY <2>1, <2>2, Put DEF Reading
  <2>4. \A i \in 1..Len(readerQueue') :
          readerQueue'[i].n = Held' - Len(readerQueue') + i
    <3> TAKE i \in 1..Len(readerQueue')
    <3>1. CASE i = Len(readerQueue) + 1
      BY <1>1, <1>2, <1>5, <2>3, <3>1
    <3>2. CASE i \in 1..Len(readerQueue)
      BY <1>1, <1>2, <1>5, <2>3, <3>2 DEF Reading
    <3> QED
      BY <2>3, <3>1, <3>2
  <2>5. /\ LooksAtNote' => got'.n = seen' + 1 /\ seen' + 1 + Len(readerQueue') = Held'
        /\ ~LooksAtNote' => seen' + Len(readerQueue') = Held'
    BY <1>1, <1>2, <1>5, <2>1, <2>2, <2>3 DEF Reading
  <2> QED
    BY <1>2, <1>3, <1>5, <2>1, <2>2, <2>3, <2>4, <2>5 DEF Reading
<1>6. CASE ~readerWaiter /\ delivered.kind # "note"
  <2>1. UNCHANGED <<got, readerWaiter, readerQueue>>
    BY <1>6 DEF Pump
  <2> QED
    BY <1>1, <1>2, <1>3, <1>6, <2>1 DEF Reading, LooksAtNote
<1> QED
  BY <1>4, <1>5, <1>6

LEMMA TurnReads ==
  ASSUME PeerTypeOK, Reading, Held' = Held, TurnStarted \/ InterruptAnswered
  PROVE  Reading'
<1>1. pc \in {"await", "awaitInterrupt"} /\ UNCHANGED <<readerDone, seen>>
  BY DEF TurnStarted, InterruptAnswered, readerVars
<1>2. got = None /\ readerWaiter = FALSE /\ ~LooksAtNote
  BY <1>1 DEF Reading, LooksAtNote
<1>3. CASE ReaderNext /\ pc' \in {"collect", "drain"}
  BY <1>1, <1>2, <1>3, NextIsNext DEF Reading
<1>4. CASE UNCHANGED <<readerQueue, readerWaiter, got>>
  BY <1>1, <1>4, ReaderLeft
<1> QED
  BY <1>3, <1>4 DEF TurnStarted, InterruptAnswered, readerVars, Goto

LEMMA LoopReads ==
  ASSUME PeerTypeOK, Reading, Held' = Held, Collect \/ Drain
  PROVE  Reading'
<1>1. /\ pc \in {"collect", "drain"} /\ got # None /\ readerDone' = readerDone
      /\ seen' = IF got.kind = "note" THEN got.n ELSE seen
  BY DEF Collect, Drain, Look
<1>2. got \in Delivered /\ readerWaiter = FALSE /\ Held \in Int
  BY <1>1, HeldType DEF Reading
<1>3. seen' = seen + (IF LooksAtNote THEN 1 ELSE 0)
  BY <1>1 DEF Reading, LooksAtNote
<1>4. seen' + Len(readerQueue) = Held /\ seen' \in Nat
  BY <1>3 DEF Reading
<1>5. CASE ReaderNext /\ pc' = pc
  BY <1>1, <1>2, <1>4, <1>5, NextIsNext DEF Reading
<1>6. CASE got' = None /\ UNCHANGED <<readerQueue, readerWaiter>>
  <2>1. ~LooksAtNote'
    BY <1>6 DEF LooksAtNote
  <2> QED
    BY <1>1, <1>2, <1>4, <1>6, <2>1 DEF Reading
<1> QED
  BY <1>5, <1>6 DEF Collect, Drain

LEMMA TimeoutReads ==
  ASSUME Reading, Held' = Held, CollectTimeout \/ DrainTimeout
  PROVE  Reading'
<1>1. /\ got = None /\ readerWaiter' = FALSE
      /\ UNCHANGED <<readerQueue, readerDone, got, seen>>
  BY DEF CollectTimeout, DrainTimeout, Detached
<1> QED
  BY <1>1 DEF Reading, LooksAtNote

LEMMA ReadingKept ==
  ASSUME IInv, IInv', Reading, [Next]_vars
  PROVE  Reading'
<1>1. /\ PeerTypeOK /\ PeerTypeOK' /\ Numbering /\ Queueing /\ Queueing'
  BY DEF IInv
<1>2. CASE UNCHANGED vars
  <2>1. Held' = Held
    BY <1>2 DEF vars, Held, HoldsNote
  <2> QED
    BY <1>2, <2>1, ReaderLeft DEF vars
<1>3. CASE Event
  <2>1. UNCHANGED readerVars /\ pc' = pc
    BY <1>3 DEF Event, ServerAnswers, ServerNotifies, ServerElse, DeadlinePasses, Cancel,
       PeerHandles, runnerVars
  <2> QED
    BY <1>1, <1>3, <2>1, EventQuiet, QuietHeld, ReaderLeft DEF readerVars
<1>4. CASE Timers
  <2>1. Held' = Held
    BY <1>1, <1>4, TimerQuiet, QuietHeld
  <2>2. CASE RequestTimeout \/ PeerCloses
    BY <2>1, <2>2, ReaderLeft DEF RequestTimeout, PeerCloses, readerVars, runnerVars
  <2> QED
    BY <1>4, <2>1, <2>2, TimeoutReads DEF Timers
<1>5. CASE NextLine
  <2>1. Held' = Held
    BY <1>1, <1>5, LineHeld DEF NextLine
  <2> QED
    BY <1>5, <2>1, ReaderLeft DEF NextLine, readerVars, runnerVars
<1>6. CASE Pump
  BY <1>1, <1>6, PumpReads
<1>7. CASE Runner
  <2>1. Held' = Held
    BY <1>1, <1>7, RunnerQuiet, QuietHeld
  <2>2. CASE TurnStarted \/ InterruptAnswered \/ Collect \/ Drain
    BY <1>1, <2>1, <2>2, TurnReads, LoopReads
  <2>3. CASE ~(TurnStarted \/ InterruptAnswered \/ Collect \/ Drain)
    <3>1. UNCHANGED readerVars /\ pc \notin {"collect", "drain"}
      BY <1>7, <2>3 DEF Runner, SendHandshake, HandshakeAnswered, CaptureBefore, SendTurn,
         SendInterrupt, CheckAfterError, CheckCompleted, CatchError, ClosePeer, PeerClosed,
         CaptureAfterClose
    <3> QED
      BY <2>1, <3>1, ReaderLeft DEF readerVars
  <2> QED
    BY <2>2, <2>3
<1> QED
  BY <1>2, <1>3, <1>4, <1>5, <1>6, <1>7 DEF Next

(* Two stretches of notes without a gap, one after the other.               *)
LEMMA Joined ==
  ASSUME NEW S, NEW a \in Seq(S), NEW b \in Seq(S), NEW n \in Int,
         \A i \in 1..Len(a) : a[i].n = n + i,
         \A i \in 1..Len(b) : b[i].n = n + Len(a) + i
  PROVE  /\ a \o b \in Seq(S) /\ Len(a \o b) = Len(a) + Len(b) /\ Len(a \o b) \in Nat
         /\ \A i \in 1..Len(a \o b) : (a \o b)[i].n = n + i
<1>1. /\ a \o b \in Seq(S) /\ Len(a \o b) = Len(a) + Len(b) /\ Len(a) \in Nat
      /\ Len(b) \in Nat
      /\ \A i \in 1..Len(a \o b) :
           (a \o b)[i] = IF i <= Len(a) THEN a[i] ELSE b[i - Len(a)]
  OBVIOUS
<1>2. ASSUME NEW i \in 1..Len(a \o b) PROVE (a \o b)[i].n = n + i
  <2>1. CASE i <= Len(a)
    BY <1>1, <2>1
  <2>2. CASE i > Len(a)
    <3>1. i - Len(a) \in 1..Len(b)
      BY <1>1, <2>2
    <3>2. b[i - Len(a)].n = n + Len(a) + (i - Len(a))
      BY <3>1
    <3>3. (a \o b)[i] = b[i - Len(a)]
      BY <1>1, <2>2
    <3> QED
      BY <1>1, <3>2, <3>3
  <2> QED
    BY <1>1, <2>1, <2>2
<1> QED
  BY <1>1, <1>2

(* What is on its way to the runner, from the note it looks at to the last  *)
(* one the peer took, is numbered without a gap.                            *)
LEMMA WayIsWhole == ASSUME IInv, InOrder, Reading PROVE NothingSkipped
<1> DEFINE looked == IF LooksAtNote THEN <<got>> ELSE <<>>
           front == looked \o readerQueue
           hand == InHand
<1>1. /\ heard \in Nat /\ Held \in Int /\ seen \in Nat
      /\ notificationQueue \in Seq(Notes) /\ delivered \in {None} \cup Delivered
  BY HeldType DEF IInv, PeerTypeOK, Reading
<1>2. hand \in Seq(Notes) /\ Len(hand) = heard - Held /\ Len(hand) \in Nat
  <2>1. CASE HoldsNote
    <3>1. delivered \in Notes
      BY <1>1, <2>1 DEF HoldsNote, Delivered
    <3> QED
      BY <1>1, <2>1, <3>1 DEF InHand, Held, HoldsNote
  <2>2. CASE ~HoldsNote
    BY <1>1, <2>2 DEF InHand, Held, HoldsNote
  <2> QED
    BY <2>1, <2>2
<1>3. /\ looked \in Seq(Notes) /\ Len(looked) \in Nat
      /\ Len(looked) + Len(readerQueue) = Held - seen
      /\ \A i \in 1..Len(looked) : looked[i].n = seen + i
  <2>1. CASE LooksAtNote
    <3>1. got \in Notes
      BY <2>1 DEF Reading, LooksAtNote, Delivered
    <3>2. looked = <<got>>
      BY <2>1
    <3>3. looked \in Seq(Notes) /\ Len(looked) = 1 /\ looked[1] = got
      BY <3>1, <3>2
    <3>4. seen + 1 + Len(readerQueue) = Held /\ got.n = seen + 1
      BY <2>1 DEF Reading
    <3>5. Len(readerQueue) \in Nat
      BY DEF Reading
    <3> HIDE DEF looked
    <3> QED
      BY <1>1, <3>3, <3>4, <3>5
  <2>2. CASE ~LooksAtNote
    <3>1. looked = <<>>
      BY <2>2
    <3>2. seen + Len(readerQueue) = Held /\ Len(readerQueue) \in Nat
      BY <2>2 DEF Reading
    <3> QED
      BY <1>1, <3>1, <3>2
  <2> QED
    BY <2>1, <2>2
<1>4. readerQueue \in Seq(Notes) /\ Len(readerQueue) \in Nat
  BY DEF Reading
<1>5. \A i \in 1..Len(readerQueue) : readerQueue[i].n = seen + Len(looked) + i
  <2> HIDE DEF looked
  <2> TAKE i \in 1..Len(readerQueue)
  <2>1. readerQueue[i].n = Held - Len(readerQueue) + i
    BY DEF Reading
  <2> QED
    BY <1>1, <1>3, <1>4, <2>1
<1>6. /\ front \in Seq(Notes) /\ Len(front) = Held - seen
      /\ \A i \in 1..Len(front) : front[i].n = seen + i
  <2> HIDE DEF looked
  <2> QED
    BY <1>1, <1>3, <1>4, <1>5, Joined
<1>7. \A i \in 1..Len(hand) : hand[i].n = seen + Len(front) + i
  <2>1. \A i \in 1..Len(hand) : hand[i].n = heard - Len(hand) + i
    BY DEF InOrder
  <2> HIDE DEF front, hand
  <2> TAKE i \in 1..Len(hand)
  <2>2. hand[i].n = heard - Len(hand) + i
    BY <2>1
  <2>3. heard - Len(hand) = seen + Len(front)
    BY <1>1, <1>2, <1>6
  <2> QED
    BY <2>2, <2>3
<1>8. /\ Len(front \o hand) = Len(front) + Len(hand)
      /\ \A i \in 1..Len(front \o hand) : (front \o hand)[i].n = seen + i
  <2>1. \A i \in 1..Len(hand) : hand[i].n = seen + Len(front) + i
    BY <1>7
  <2>2. \A i \in 1..Len(front) : front[i].n = seen + i
    BY <1>6
  <2>3. front \in Seq(Notes) /\ hand \in Seq(Notes) /\ seen \in Int
    BY <1>1, <1>2, <1>6
  <2> HIDE DEF front, hand
  <2> QED
    BY <2>1, <2>2, <2>3, Joined
<1>9. Unseen = front \o hand
  BY DEF Unseen, LooksAtNote
<1>10. seen + Len(front \o hand) = heard
  <2> HIDE DEF front, hand
  <2> QED
    BY <1>1, <1>2, <1>6, <1>8
<1> QED
  BY <1>8, <1>9, <1>10 DEF NothingSkipped

(* No notification the peer took is lost or overtaken on its way through    *)
(* its queue and the reader to the runner, whichever side times out.        *)
THEOREM NothingIsSkipped == Spec => []NothingSkipped
<1>1. ASSUME Init, IInv PROVE Reading
  <2>1. /\ readerQueue = <<>> /\ got = None /\ seen = 0 /\ readerWaiter = FALSE
        /\ readerDone = "no"
    BY <1>1 DEF Init
  <2>2. Held = 0
    <3>1. notificationQueue = <<>> /\ delivered = None /\ heard = 0
      BY <1>1 DEF Init, PeerInit
    <3>2. ~HoldsNote /\ Len(notificationQueue) = 0
      BY <3>1 DEF HoldsNote
    <3> QED
      BY <3>1, <3>2, 0 - 0 - 0 = 0 DEF Held
  <2>3. readerQueue \in Seq(Notes) /\ Len(readerQueue) = 0 /\ ~LooksAtNote
    BY <2>1 DEF LooksAtNote
  <2> QED
    <3>1. /\ got \in {None} \cup Delivered /\ seen \in Nat /\ readerWaiter \in BOOLEAN
          /\ readerDone \in {"no", "end", "failed"}
      BY <2>1
    <3>4. seen + Len(readerQueue) = Held
      BY <2>1, <2>2, <2>3, 0 + 0 = 0
    <3>2. \A i \in 1..Len(readerQueue) : readerQueue[i].n = Held - Len(readerQueue) + i
      BY <2>3
    <3>3. ~readerWaiter
      BY <2>1
    <3> QED
      BY <2>1, <2>3, <3>1, <3>2, <3>3, <3>4 DEF Reading
<1>2. Spec => [](IInv /\ InOrder)
  BY ReviewIsClient, PeerInvariant, NotificationsInOrder, PTL
<1> QED
  BY <1>1, <1>2, ReadingKept, WayIsWhole, PTL DEF Spec
=============================================================================
