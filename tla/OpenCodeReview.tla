--------------------------- MODULE OpenCodeReview ---------------------------
(***************************************************************************)
(* A review through the OpenCode server: runReview of                      *)
(* src/opencode/client.ts with the settlement coordinator of               *)
(* src/opencode/settlement.ts.  One session receives a prompt and, while   *)
(* the answer fails validation, up to MaxAttempts - 1 more.  Every prompt  *)
(* is an attempt with its own coordinator, which three sources race to     *)
(* settle: the event stream, a periodic look at the stored messages, and   *)
(* the time limit.  The server is outside src/ and is modelled by what the *)
(* client can see of it: stored messages, events that lag behind them, and *)
(* calls that fail.                                                        *)
(*                                                                         *)
(* A text is a message and a kind.  A complete review ends with a brace,   *)
(* which is what the prompt asks for; text behind it is not modelled.      *)
(***************************************************************************)
EXTENDS Naturals, FiniteSets, SequencesExt

CONSTANTS MaxAttempts,   \* SCHEMA_VALIDATION_MAX_ATTEMPTS
          MaxMessages,   \* bound: assistant messages of the session
          MaxEvents      \* bound: events under way to the client

VARIABLES
  phase,      \* where runReview stands
  outcome,    \* how it ended, "none" before
  signal,     \* the caller's signal was aborted
  aborted,    \* eventsController was aborted
  stream,     \* the event stream: "unopened", "open", "closed"
  events,     \* events under way
  prompts,    \* prompts the server accepted
  turn,       \* the prompt the agent answers, 0 between turns
  answered,   \* prompts whose turn ended
  log,        \* the stored assistant messages
  att,        \* the coordinator of the current attempt
  look,       \* its reconciliation: "idle", "asked", or what the server said
  known,      \* assistantMessageIds
  parts,      \* textPartsByMessageId
  seen,       \* attemptMessageIds
  consumed,   \* consumedMessageIds
  ignored,    \* ignoreRawTexts
  rejected    \* history: the candidates that failed validation

client == <<phase, outcome, signal, aborted>>
server == <<prompts, turn, answered, log>>
memory == <<known, parts, seen, consumed, ignored, rejected>>
vars == <<client, stream, events, server, att, look, memory>>
-----------------------------------------------------------------------------
(* Texts: a draft is short and unfinished; a review and a broken review    *)
(* are complete, and only the first is valid.                              *)
Kinds == {"draft", "review", "broken"}
NoText == [msg |-> 0, kind |-> "empty"]
Length(t) == IF t = NoText THEN 0 ELSE IF t.kind = "draft" THEN 1 ELSE 2
LooksComplete(t) == t.kind \in {"review", "broken"}

Look(type) == [type |-> type, text |-> NoText]

NewAttempt(n) == [n |-> n, state |-> "pending", value |-> NoText, error |-> "none",
                  response |-> NoText, current |-> 0, via |-> "none",
                  armed |-> TRUE, timeout |-> FALSE]
Settled(a) == a.state # "pending"
Resolve(a, t, via) ==
  IF Settled(a) THEN a ELSE [a EXCEPT !.state = "resolved", !.value = t, !.via = via]
Reject(a, error) ==
  IF Settled(a) THEN a ELSE [a EXCEPT !.state = "rejected", !.error = error]

(* acceptText: an event names its message, so another message replaces the *)
(* buffer; a reconciled text does not, and replaces it if it is longer, or *)
(* as long and different.                                                  *)
Buffer(a, t, byEvent) ==
  LET another == byEvent /\ t.msg # a.current
      better == \/ Length(t) > Length(a.response)
                \/ ~byEvent /\ Length(t) = Length(a.response) /\ t # a.response
  IN  [a EXCEPT !.current = IF another THEN t.msg ELSE @,
                !.response = IF another \/ better THEN t ELSE @]
AcceptTextOnlyFromEvents(a, t, byEvent) ==
  LET b == Buffer(a, t, byEvent)
  IN  IF Settled(a) THEN a
      ELSE IF byEvent /\ LooksComplete(b.response) THEN Resolve(b, b.response, "event") ELSE b
AcceptText(a, t, byEvent) ==
  LET b == Buffer(a, t, byEvent)
  IN  IF Settled(a) THEN a
      ELSE IF LooksComplete(b.response)
           THEN Resolve(b, b.response, IF byEvent THEN "event" ELSE "look")
           ELSE b

Finish(a) == IF a.response # NoText THEN Resolve(a, a.response, "finish")
             ELSE Reject(a, "ended")

Init ==
  /\ phase = "connect" /\ outcome = "none" /\ signal = FALSE /\ aborted = FALSE
  /\ stream = "unopened" /\ events = <<>>
  /\ prompts = 0 /\ turn = 0 /\ answered = 0 /\ log = <<>>
  /\ att = [NewAttempt(1) EXCEPT !.state = "released"] /\ look = Look("idle")
  /\ known = {} /\ parts = [m \in 1..MaxMessages |-> NoText] /\ seen = {}
  /\ consumed = {} /\ ignored = {} /\ rejected = <<>>
-----------------------------------------------------------------------------
(* runReview.  The listener that forwards the signal exists from "stream"  *)
(* on, and only what follows "prompt" is inside the try block, which       *)
(* aborts the stream however it ends.                                      *)
End(o) == /\ phase' = "done" /\ outcome' = o
          /\ aborted' = TRUE /\ stream' = "closed" /\ events' = <<>>
          /\ UNCHANGED signal
Fail(error) == End(IF signal THEN "cancelled" ELSE error)

Setup == [connect |-> "session", session |-> "tools", tools |-> "stream"]
SetupStep ==
  /\ phase \in DOMAIN Setup
  /\ phase' = Setup[phase]
  /\ UNCHANGED <<outcome, signal, aborted, stream, events, server, att, look, memory>>
SetupFails ==
  /\ phase \in {"connect", "session", "stream"}
  /\ phase' = "done" /\ outcome' = "request"
  /\ UNCHANGED <<signal, aborted, stream, events, server, att, look, memory>>
OpenStream ==
  /\ phase = "stream"
  /\ phase' = "prompt" /\ stream' = "open" /\ att' = NewAttempt(1)
  /\ UNCHANGED <<outcome, signal, aborted, events, server, look, memory>>

PromptAccepted ==
  /\ phase \in {"prompt", "retry"}
  /\ phase' = "wait" /\ prompts' = prompts + 1
  /\ UNCHANGED <<outcome, signal, aborted, stream, events, turn, answered, log, att, look, memory>>
PromptFails ==
  /\ phase \in {"prompt", "retry"}
  /\ Fail("request")
  /\ \E arrived \in BOOLEAN : prompts' = IF arrived THEN prompts + 1 ELSE prompts
  /\ UNCHANGED <<turn, answered, log, att, look, memory>>

(* resolveReviewDocument with sendRetry: what the attempt saw is consumed, *)
(* its text is ignored from now on, and a new coordinator replaces it.     *)
Retry ==
  /\ phase' = "retry"
  /\ consumed' = consumed \cup seen /\ seen' = {}
  /\ ignored' = IF att.response # NoText THEN ignored \cup {att.response} ELSE ignored
  /\ rejected' = Append(rejected, att.value)
  /\ att' = NewAttempt(att.n + 1) /\ look' = Look("idle")
  /\ UNCHANGED <<outcome, signal, aborted, stream, events, server, known, parts>>
Candidate ==
  /\ phase = "wait" /\ att.state = "resolved"
  /\ \/ /\ att.value.kind = "review"
        /\ End("report")
        /\ UNCHANGED <<server, att, look, memory>>
     \/ /\ att.value.kind # "review" /\ att.n < MaxAttempts
        /\ Retry
     \/ /\ att.value.kind # "review" /\ att.n >= MaxAttempts
        /\ Fail("schema")
        /\ UNCHANGED <<server, att, look, memory>>
AttemptFails ==
  /\ phase = "wait" /\ att.state = "rejected"
  /\ Fail(att.error)
  /\ UNCHANGED <<server, att, look, memory>>

Listening == phase \in {"stream", "prompt", "wait", "retry"}
Cancel ==
  /\ phase # "done" /\ ~signal
  /\ signal' = TRUE /\ aborted' = (aborted \/ Listening)
  /\ UNCHANGED <<phase, outcome, stream, events, server, att, look, memory>>
-----------------------------------------------------------------------------
(* The loop over the event stream.  Events that arrive while the current   *)
(* attempt is settled are dropped, whatever they are.                      *)
Live == phase # "done" /\ stream = "open"
Ignore == UNCHANGED <<att, known, parts, seen>>

TextPart(e) ==
  IF e.msg \in consumed THEN Ignore
  ELSE /\ seen' = seen \cup {e.msg}
       /\ parts' = [parts EXCEPT ![e.msg] = [msg |-> e.msg, kind |-> e.kind]]
       /\ att' = IF e.msg \in known THEN AcceptText(att, parts'[e.msg], TRUE) ELSE att
       /\ UNCHANGED known
AssistantMessage(e) ==
  IF e.msg \in consumed THEN Ignore
  ELSE /\ seen' = seen \cup {e.msg} /\ known' = known \cup {e.msg}
       /\ att' = IF e.kind = "failed" THEN Reject(att, "review")
                 ELSE IF parts[e.msg] # NoText THEN AcceptText(att, parts[e.msg], TRUE)
                 ELSE att
       /\ UNCHANGED parts
SessionIdle ==
  /\ att' = IF att.response # NoText THEN Finish(att) ELSE att
  /\ UNCHANGED <<known, parts, seen>>
SessionError == att' = Reject(att, "review") /\ UNCHANGED <<known, parts, seen>>

Deliver ==
  /\ Live /\ events # <<>>
  /\ events' = Tail(events)
  /\ LET e == Head(events)
     IN  IF Settled(att) THEN Ignore
         ELSE \/ e.type = "text" /\ TextPart(e)
              \/ e.type = "message" /\ AssistantMessage(e)
              \/ e.type = "idle" /\ SessionIdle
              \/ e.type = "session-error" /\ SessionError
  /\ UNCHANGED <<client, stream, server, look, consumed, ignored, rejected>>

(* The stream returns, or throws: by itself, or because it was aborted.    *)
StreamEnds ==
  /\ Live
  /\ stream' = "closed" /\ events' = <<>>
  /\ att' = IF Settled(att) THEN att ELSE Finish(att)
  /\ UNCHANGED <<client, server, look, memory>>
StreamThrows ==
  /\ Live
  /\ stream' = "closed" /\ events' = <<>>
  /\ att' = Reject(att, IF aborted THEN "cancelled" ELSE "request")
  /\ UNCHANGED <<client, server, look, memory>>
-----------------------------------------------------------------------------
(* The coordinator's timers and its look at the stored messages.           *)
Ticking == phase # "done" /\ ~Settled(att)
IntervalFires ==
  /\ Ticking /\ look.type = "idle"
  /\ look' = Look("asked")
  /\ UNCHANGED <<client, stream, events, server, att, memory>>
TimeLimitUnlessLooking ==
  /\ Ticking /\ att.armed
  /\ att' = [att EXCEPT !.armed = FALSE, !.timeout = look.type = "idle"]
  /\ look' = IF look.type = "idle" THEN Look("asked") ELSE look
  /\ UNCHANGED <<client, stream, events, server, memory>>
TimeLimit ==
  /\ Ticking /\ att.armed
  /\ att' = [att EXCEPT !.armed = FALSE, !.timeout = TRUE]
  /\ look' = IF look.type = "idle" THEN Look("asked") ELSE look
  /\ UNCHANGED <<client, stream, events, server, memory>>

(* extractSessionMessageResult: the newest message that is not ignored and *)
(* has an error or a text.                                                 *)
TextOf(m) == IF log[m].kind \in Kinds THEN [msg |-> m, kind |-> log[m].kind] ELSE NoText
Telling(m) == /\ m \notin consumed
              /\ log[m].kind = "failed" \/ (TextOf(m) # NoText /\ TextOf(m) \notin ignored)
Newest == {m \in DOMAIN log : Telling(m) /\ \A k \in DOMAIN log : Telling(k) => k <= m}
SessionMessageResult ==
  IF Newest = {} THEN Look("empty")
  ELSE LET m == CHOOSE m \in Newest : TRUE
       IN  IF log[m].kind = "failed" THEN Look("failed")
           ELSE [type |-> "text", text |-> TextOf(m)]

ServerAnswersLook ==
  /\ Ticking /\ look.type = "asked"
  /\ look' = SessionMessageResult
  /\ UNCHANGED <<client, stream, events, server, att, memory>>

Expire(a) == IF a.timeout THEN Reject(a, "timeout") ELSE a
LookReturns ==
  /\ Ticking /\ look.type \notin {"idle", "asked"}
  /\ look' = Look("idle")
  /\ att' = IF look.type = "failed" THEN Reject(att, "review")
            ELSE IF look.type = "text" THEN Expire(AcceptText(att, look.text, FALSE))
            ELSE Expire(att)
  /\ UNCHANGED <<client, stream, events, server, memory>>
LookFails ==
  /\ Ticking /\ look.type # "idle"
  /\ look' = Look("idle") /\ att' = Expire(att)
  /\ UNCHANGED <<client, stream, events, server, memory>>
-----------------------------------------------------------------------------
(* The server: an agent answers the prompts in order, each with some       *)
(* messages, and announces what it stores on the event stream.             *)
Emit(es) == /\ Len(events) + Len(es) <= MaxEvents
            /\ events' = IF stream = "open" THEN events \o es ELSE events
AgentTakes ==
  /\ turn = 0 /\ answered < prompts /\ phase # "done"
  /\ turn' = answered + 1
  /\ UNCHANGED <<client, stream, events, prompts, answered, log, att, look, memory>>
AgentWrites ==
  /\ turn # 0 /\ phase # "done"
  /\ \E m \in 1..MaxMessages, k \in Kinds, early \in BOOLEAN :
       LET message == [type |-> "message", msg |-> m, kind |-> "written"]
           text == [type |-> "text", msg |-> m, kind |-> k]
       IN  /\ \/ m = Len(log) + 1
              \/ m = Len(log) /\ log[m].prompt = turn /\ log[m].kind = "draft" /\ k # "draft"
           /\ log' = IF m > Len(log) THEN Append(log, [prompt |-> turn, kind |-> k])
                     ELSE [log EXCEPT ![m].kind = k]
           /\ m = Len(log) => early
           /\ Emit(IF early THEN <<message, text>> ELSE <<text, message>>)
  /\ UNCHANGED <<client, stream, prompts, turn, answered, att, look, memory>>
AgentFails ==
  /\ turn # 0 /\ phase # "done" /\ Len(log) < MaxMessages
  /\ log' = Append(log, [prompt |-> turn, kind |-> "failed"])
  /\ Emit(<<[type |-> "message", msg |-> Len(log) + 1, kind |-> "failed"]>>)
  /\ UNCHANGED <<client, stream, prompts, turn, answered, att, look, memory>>
SessionFails ==
  /\ turn # 0 /\ phase # "done"
  /\ Emit(<<[type |-> "session-error"]>>)
  /\ UNCHANGED <<client, stream, server, att, look, memory>>
AgentIdle ==
  /\ turn # 0 /\ phase # "done"
  /\ turn' = 0 /\ answered' = turn
  /\ Emit(<<[type |-> "idle"]>>)
  /\ UNCHANGED <<client, stream, prompts, log, att, look, memory>>

ClientNext ==
  \/ SetupStep \/ SetupFails \/ OpenStream
  \/ PromptAccepted \/ PromptFails \/ Candidate \/ AttemptFails
  \/ Deliver \/ TimeLimit \/ LookReturns \/ LookFails
ServerNext ==
  \/ AgentTakes \/ AgentWrites \/ AgentFails \/ SessionFails \/ AgentIdle
Next == ClientNext \/ ServerNext \/ Cancel \/ StreamEnds \/ StreamThrows
        \/ IntervalFires \/ ServerAnswersLook

Spec == Init /\ [][Next]_vars

(* The calls of the client return or fail, its timers fire, an aborted     *)
(* stream ends; the agent may hang and the stream may stay silent.         *)
Call == SetupStep \/ OpenStream \/ PromptAccepted \/ PromptFails \/ Candidate \/ AttemptFails
FairSpec == Spec /\ WF_vars(Call) /\ WF_vars(TimeLimit) /\ WF_vars(LookReturns \/ LookFails)
-----------------------------------------------------------------------------
(* A complete review in the buffer always settles the attempt: whichever   *)
(* source brought it, no timer, later event or late look can pass it by,   *)
(* and no attempt times out on it.                                         *)
CompleteSettles ==
  LooksComplete(att.response) => Settled(att) /\ att.error # "timeout"

(* A look at the stored messages never settles a retry with a text that an *)
(* earlier attempt already rejected, even if the message was never seen in *)
(* the event stream.                                                       *)
LookIsFresh == att.via = "look" => att.value \notin ToSet(rejected)
=============================================================================
