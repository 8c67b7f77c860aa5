---------------------------- MODULE ReviewCommand ----------------------------
(***************************************************************************)
(* One `diffowl review` process (src/cli.ts, the review command): its      *)
(* preflight checks, the signals it takes, what it makes of the end of the *)
(* pipeline, and what it leaves behind: the hook status the queue worker   *)
(* judges, the document on stdout and the exit code.                       *)
(***************************************************************************)
EXTENDS Naturals

VARIABLES cmd,       \* the options: hook, json, gate, and whether they conflict
          stage,     \* where the process is
          unspent,   \* signals whose handler is still registered
          timers,    \* forced exits that are armed, by signal
          held,      \* the signal whose timer interruptForceExit holds
          outcome,   \* how the pipeline ended, a fact about the state database
          told,      \* the hook status on disk
          printed,   \* the document printed: a result, an error or nothing
          exitCode   \* the code the process ended with, or will end with

commandVars == <<cmd, stage, unspent, timers, held, outcome, told, printed, exitCode>>

Options == [hook : BOOLEAN, json : BOOLEAN, gate : BOOLEAN, conflict : BOOLEAN]
Signals == {"int", "tstp"}
Code == [int |-> 130, tstp |-> 146, none |-> 130]
Done == {"open", "resolved", "skipped", "empty"}

CommandInit ==
  /\ cmd \in Options /\ stage = "started"
  /\ unspent = {} /\ timers = {} /\ held = "none"
  /\ outcome = "none" /\ told = "none" /\ printed = "nothing" /\ exitCode = 255

Aborted == stage # "started" /\ unspent # Signals
Exit(code) == stage' = "ended" /\ exitCode' = code

(* writeHookStatus never fails the review: a status may be lost.            *)
Tell(status) == told' \in IF cmd.hook THEN {told, status} ELSE {told}
PrintError == printed' = IF cmd.json THEN "error" ELSE printed

-----------------------------------------------------------------------------
(* Before the handlers are registered                                       *)

Start_WithoutMessage ==
  /\ stage = "started" /\ Tell("ok") /\ stage' = "preflight"
  /\ UNCHANGED <<cmd, unspent, timers, held, outcome, printed, exitCode>>
(* The first status has code 0 and the message "Review started.".           *)
Start ==
  /\ stage = "started" /\ Tell("started") /\ stage' = "preflight"
  /\ UNCHANGED <<cmd, unspent, timers, held, outcome, printed, exitCode>>

(* failReview: not a repository, conflicting targets, no commits.           *)
FailReview ==
  /\ stage = "preflight"
  /\ Tell("failed") /\ PrintError /\ Exit(IF cmd.hook THEN 0 ELSE 1)
  /\ UNCHANGED <<cmd, unspent, timers, held, outcome>>

(* A configuration that does not load, and an invalid depth, exit as they   *)
(* are, whatever the mode; the latter and the first setup print no document.*)
Misconfigured ==
  /\ stage = "preflight" /\ Exit(1) /\ (PrintError \/ UNCHANGED printed)
  /\ UNCHANGED <<cmd, unspent, timers, held, outcome, told>>

Prepared ==
  /\ stage = "preflight" /\ ~cmd.conflict
  /\ stage' = "reviewing" /\ unspent' = Signals
  /\ UNCHANGED <<cmd, timers, held, outcome, told, printed, exitCode>>

-----------------------------------------------------------------------------
(* Signals                                                                  *)

Running == stage \notin {"started", "preflight", "ended"}

(* handleReviewInterrupt, once for each signal: the later timer is the one  *)
(* that is remembered.                                                      *)
Interrupt(s) ==
  /\ Running /\ s \in unspent
  /\ unspent' = unspent \ {s}
  /\ timers' = timers \cup {s} /\ held' = s
  /\ UNCHANGED <<cmd, stage, outcome, told, printed, exitCode>>

(* Without a handler SIGINT ends the process.  (SIGTSTP suspends it.)       *)
Killed ==
  /\ stage # "ended" /\ "int" \notin unspent
  /\ Exit(130)
  /\ UNCHANGED <<cmd, unspent, timers, held, outcome, told, printed>>

(* The forced exit, REVIEW_INTERRUPT_FORCE_EXIT_MS after a signal.          *)
ForceExit(s) ==
  /\ Running /\ s \in timers
  /\ Exit(IF cmd.hook THEN 0 ELSE Code[s])
  /\ UNCHANGED <<cmd, unspent, timers, held, outcome, told, printed>>

-----------------------------------------------------------------------------
(* The end of the pipeline                                                  *)

ClearTimer == timers' = timers \ {held}

(* runReviewPipeline returns; an empty diff is saved only for JSON.         *)
PipelineReturns ==
  /\ stage = "reviewing"
  /\ \/ outcome' \in {"open", "resolved", "skipped"}
     \/ outcome' = "empty" /\ ~cmd.json
  /\ stage' = "delivering" /\ ClearTimer
  /\ UNCHANGED <<cmd, unspent, held, told, printed, exitCode>>

(* It throws: the executor failed, or noticed the abort.                    *)
PipelineThrows ==
  /\ stage = "reviewing"
  /\ outcome' \in {"failed", "cancelled"}
  /\ stage' = "catching" /\ ClearTimer
  /\ UNCHANGED <<cmd, unspent, held, told, printed, exitCode>>

(* emitReviewJsonSuccess reads the saved review back and may throw.         *)
PrintResult ==
  /\ stage = "delivering"
  /\ \/ printed' = (IF cmd.json THEN "result" ELSE printed) /\ stage' = "closing" /\ UNCHANGED timers
     \/ cmd.json /\ stage' = "catching" /\ ClearTimer /\ UNCHANGED printed
  /\ UNCHANGED <<cmd, unspent, held, outcome, told, exitCode>>

(* decideGateExit: open findings fail the command if the gate is on, never  *)
(* a hook.                                                                  *)
GateExit == IF outcome = "open" /\ cmd.gate /\ ~cmd.hook THEN 1 ELSE 0

Finish ==
  /\ stage = "closing" /\ Tell("ok") /\ Exit(GateExit)
  /\ UNCHANGED <<cmd, unspent, timers, held, outcome, printed>>

(* The catch: an abort, or a ReviewCancelledError, is a cancellation.  A    *)
(* hook reports and exits with 0; an aborted command leaves its code and    *)
(* waits for its children; every other one exits.                           *)
Catch ==
  /\ stage = "catching" /\ PrintError
  /\ IF cmd.hook THEN Tell("failed") /\ Exit(0)
     ELSE /\ told' = told
          /\ IF Aborted THEN stage' = "draining" /\ exitCode' = Code[held]
             ELSE Exit(IF outcome = "cancelled" THEN 130 ELSE 1)
  /\ UNCHANGED <<cmd, unspent, timers, held, outcome>>

(* The event loop has nothing left to wait for; a timer that was forgotten  *)
(* is something to wait for.                                                *)
Drained ==
  /\ stage = "draining" /\ timers = {} /\ Exit(exitCode)
  /\ UNCHANGED <<cmd, unspent, timers, held, outcome, told, printed>>

CommandNext ==
  \/ Start \/ FailReview \/ Misconfigured \/ Prepared
  \/ \E s \in Signals : Interrupt(s) \/ ForceExit(s)
  \/ Killed \/ PipelineReturns \/ PipelineThrows \/ PrintResult \/ Finish
  \/ Catch \/ Drained

CommandSpec == CommandInit /\ [][CommandNext]_commandVars

-----------------------------------------------------------------------------
(* The queue worker takes a commit off the queue for exit code 0 and no     *)
(* message, and that is only ever said of a commit that was reviewed or     *)
(* needed no review, in whatever order signals, forced exits, lost status   *)
(* writes and failures come.  A process that was not started by the hook    *)
(* answers 0 only then and, for JSON, with the result printed; for open     *)
(* findings it answers 0 only without the gate, and 1 only for the gate or  *)
(* because the result could not be printed.                                 *)
AnswerIsTrue ==
  /\ told = "ok" => outcome \in Done
  /\ stage = "ended" =>
       /\ exitCode = 0 => cmd.hook \/ outcome \in Done
       /\ exitCode = 0 /\ outcome = "open" => cmd.hook \/ ~cmd.gate
       /\ exitCode = 0 /\ cmd.json /\ ~cmd.hook => printed = "result"
       /\ exitCode = 1 /\ outcome = "open" => ~cmd.hook /\ (cmd.gate \/ cmd.json)
  /\ printed = "result" => outcome \in Done

-----------------------------------------------------------------------------
(* What the proofs need                                                     *)

Stages == {"started", "preflight", "reviewing", "delivering", "closing", "catching", "draining", "ended"}

(* What each stage knows of the review: nothing has ended before the        *)
(* pipeline has; what is delivered is done; what is thrown failed or could  *)
(* not be printed; and an interrupted process waits with its own code.      *)
StageFits ==
  /\ cmd \in Options /\ stage \in Stages /\ held \in Signals \cup {"none"}
  /\ stage \in {"started", "preflight", "reviewing"} => outcome = "none"
  /\ stage \in {"delivering", "closing"} => outcome \in Done
  /\ stage = "closing" /\ cmd.json => printed = "result"
  /\ stage = "catching" => outcome \in {"failed", "cancelled"} \/ cmd.json
  /\ stage = "draining" => exitCode \in {130, 146}
CommandFits == StageFits /\ AnswerIsTrue
=============================================================================
