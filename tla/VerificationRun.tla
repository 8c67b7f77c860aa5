--------------------------- MODULE VerificationRun ---------------------------
(***************************************************************************)
(* One run of the verification controller (skills/verify-diffowl): the     *)
(* commands `run`, `cancel` and `cleanup` of several processes on the same *)
(* evidence directory.  The receipt is only changed under its lease, one   *)
(* change at a time; the manifest, with the processes that the run owns, is*)
(* only written by the process that executes the run.  Any command may be  *)
(* killed, any process may exit, and its PID may be taken by another one.  *)
(***************************************************************************)
CONSTANTS Runners,    \* processes of `run --run <id>`
          Cleaners    \* processes of `cancel` or `cleanup`

VARIABLES receipt,    \* state, owner, result and cleanup of the receipt
          owned,      \* ownedProcesses of the manifest, by PID
          process,    \* who has the PID
          scratch,    \* the disposable repository is there
          runner,     \* progress of each `run`
          cleaner     \* progress of each `cancel` or `cleanup`

runVars == <<receipt, owned, process, scratch, runner, cleaner>>

(* The PIDs of the feature command and of the OpenCode server.              *)
Pids == {"child", "server"}
Terminal == {"completed", "failed", "cleaned"}

Idle == [at |-> "idle", command |-> "none", seen |-> [p \in Pids |-> "none"]]

(* The run is created, or failed because the source changed while it built. *)
RunInit ==
  /\ receipt \in [state : {"created", "failed"}, owner : {"none"}, result : {"INCONCLUSIVE"},
                  cleaning : {"none"}]
  /\ owned = [p \in Pids |-> [state |-> "unknown", launched |-> "none"]]
  /\ process = [p \in Pids |-> "unborn"]
  /\ scratch = TRUE
  /\ runner = [r \in Runners |-> [at |-> "check", verdict |-> "good"]]
  /\ cleaner = [c \in Cleaners |-> Idle]

Alive(p) == process[p] \notin {"unborn", "none"}

-----------------------------------------------------------------------------
(* executeRun                                                               *)

(* What one failed requirement makes of the verdict.                        *)
Unless(verdict, ok) == IF verdict = "good" /\ ~ok THEN "bad" ELSE verdict
At(r, here) == runner[r].at = here
Goto(r, there) == runner' = [runner EXCEPT ![r].at = there]
Ends(r) == runner' = [runner EXCEPT ![r] = [at |-> "ended", verdict |-> "good"]]
Executing(r) == runner[r].at \notin {"check", "claim", "ended"}
Update(state, result) == receipt' = [receipt EXCEPT !.state = state, !.result = result]

Check(r) ==
  /\ At(r, "check") /\ Goto(r, IF receipt.state = "created" THEN "claim" ELSE "ended")
  /\ UNCHANGED <<receipt, owned, process, scratch, cleaner>>

Claim_AsChecked(r) ==
  /\ At(r, "claim")
  /\ receipt' = [receipt EXCEPT !.state = "running", !.owner = r] /\ Goto(r, "preflight")
  /\ UNCHANGED <<owned, process, scratch, cleaner>>
(* The claim looks at the state again, under the lease.                     *)
Claim(r) ==
  /\ At(r, "claim")
  /\ IF receipt.state = "created"
       THEN receipt' = [receipt EXCEPT !.state = "running", !.owner = r] /\ Goto(r, "preflight")
       ELSE UNCHANGED receipt /\ Ends(r)
  /\ UNCHANGED <<owned, process, scratch, cleaner>>

(* inspectRunIdentity finds the source that was built, or another one, and  *)
(* then the run fails before it acts.                                       *)
Preflight(r) ==
  /\ At(r, "preflight")
  /\ \/ Goto(r, "before") /\ UNCHANGED receipt
     \/ Ends(r) /\ Update("failed", "INCONCLUSIVE")
  /\ UNCHANGED <<owned, process, scratch, cleaner>>

(* A snapshot needs the scratch; a change between the two spoils the run.   *)
Snapshot(r) ==
  /\ scratch
  /\ \/ At(r, "before") /\ Goto(r, "server")
     \/ At(r, "after") /\ \E same \in BOOLEAN :
          runner' = [runner EXCEPT ![r].at = "teardown", ![r].verdict = Unless(@, same)]
  /\ UNCHANGED <<receipt, owned, process, scratch, cleaner>>

(* executeFeature: the OpenCode features start a server, and most features  *)
(* run one command as a child of their own, with a PID that nobody has.     *)
StartServer(r) ==
  /\ At(r, "server")
  /\ \/ /\ ~Alive("server") /\ process' = [process EXCEPT !["server"] = "ours"]
        /\ Goto(r, "record server")
     \/ Goto(r, "spawn") /\ UNCHANGED process
  /\ UNCHANGED <<receipt, owned, scratch, cleaner>>
Spawn(r) ==
  /\ At(r, "spawn")
  /\ \/ /\ ~Alive("child") /\ process' = [process EXCEPT !["child"] = "ours"]
        /\ Goto(r, "record child")
     \/ Goto(r, "stop") /\ UNCHANGED process
  /\ UNCHANGED <<receipt, owned, scratch, cleaner>>

(* A record tells the process that has the PID by its start and its group.  *)
(* The PID of the server comes from a file that may be missing.             *)
RecordOwned(r, p) ==
  /\ At(r, IF p = "server" THEN "record server" ELSE "record child")
  /\ \/ owned' = [owned EXCEPT ![p] = [state |-> "running", launched |-> process[p]]]
        /\ Goto(r, IF p = "server" THEN "spawn" ELSE "wait")
     \/ p = "server" /\ runner' = [runner EXCEPT ![r] = [at |-> "spawn", verdict |-> "bad"]]
        /\ UNCHANGED owned
  /\ UNCHANGED <<receipt, process, scratch, cleaner>>

ChildClosed(r) ==
  /\ At(r, "wait") /\ process["child"] # "ours"
  /\ owned' = [owned EXCEPT !["child"].state = "exited"]
  /\ \E agrees \in BOOLEAN :
       runner' = [runner EXCEPT ![r].at = "stop", ![r].verdict = Unless(@, agrees)]
  /\ UNCHANGED <<receipt, process, scratch, cleaner>>

(* The server is stopped whatever the command did; it may not obey.         *)
StopServer(r) ==
  /\ At(r, "stop") /\ Goto(r, IF runner[r].verdict = "unknown" THEN "after" ELSE "stopped")
  /\ \/ UNCHANGED process
     \/ process["server"] = "ours" /\ process' = [process EXCEPT !["server"] = "none"]
  /\ UNCHANGED <<receipt, owned, scratch, cleaner>>
RecordStopped(r) ==
  /\ At(r, "stopped")
  /\ owned' = [owned EXCEPT !["server"].state =
                 IF @ = "unknown" \/ Alive("server") THEN @ ELSE "exited"]
  /\ runner' = [runner EXCEPT ![r].at = "after",
                              ![r].verdict = IF Alive("server") THEN "bad" ELSE @]
  /\ UNCHANGED <<receipt, process, scratch, cleaner>>

(* What a feature throws makes the run inconclusive, after the finally.     *)
FeatureThrows(r) ==
  /\ runner[r].at \in {"server", "record server", "spawn", "record child", "wait", "stopped"}
  /\ runner' = [runner EXCEPT ![r].verdict = "unknown",
       ![r].at = IF @ \in {"spawn", "record child", "wait"} THEN "stop" ELSE "after"]
  /\ UNCHANGED <<receipt, owned, process, scratch, cleaner>>

(* Every recorded PID must be free, and every artifact must be copied.      *)
Teardown(r) ==
  /\ At(r, "teardown")
  /\ LET gone == \A p \in Pids : owned[p].state # "unknown" => ~Alive(p) IN
     runner' = [runner EXCEPT ![r].at = "preserve", ![r].verdict = Unless(@, gone)]
  /\ UNCHANGED <<receipt, owned, process, scratch, cleaner>>
Preserve(r) ==
  /\ At(r, "preserve")
  /\ \E kept \in IF scratch THEN BOOLEAN ELSE {FALSE} :
       runner' = [runner EXCEPT ![r].at = "complete", ![r].verdict = Unless(@, kept)]
  /\ UNCHANGED <<receipt, owned, process, scratch, cleaner>>
(* The source is looked at once more, which concerns nobody else; then the  *)
(* verdict is recorded.                                                     *)
Complete(r) ==
  /\ At(r, "complete") /\ Ends(r)
  /\ \E verdict \in {runner[r].verdict, "unknown"} :
       Update("completed", IF verdict = "unknown" THEN "INCONCLUSIVE"
                           ELSE IF verdict = "good" THEN "VERIFIED" ELSE "NOT VERIFIED")
  /\ UNCHANGED <<owned, process, scratch, cleaner>>

(* Whatever else is thrown fails the run, if the receipt can be changed; a  *)
(* kill leaves it as it is.                                                 *)
Break(r) ==
  /\ Executing(r) /\ Ends(r)
  /\ Update("failed", "INCONCLUSIVE") \/ UNCHANGED receipt
  /\ UNCHANGED <<owned, process, scratch, cleaner>>

-----------------------------------------------------------------------------
(* cancel and cleanup                                                       *)

Stands(c, here) == cleaner[c].at = here
Moves(c, there) == cleaner' = [cleaner EXCEPT ![c] = [Idle EXCEPT !.at = there]]

Look(c) ==
  /\ Stands(c, "idle")
  /\ \E command \in {"cancel", "cleanup"} :
     LET seen == [p \in Pids |-> IF owned[p].state = "running" /\ Alive(p) THEN process[p] ELSE "none"] IN
     cleaner' = [cleaner EXCEPT ![c] = [command |-> command, seen |-> seen,
       at |-> IF command = "cancel" /\ \A p \in Pids : seen[p] = "none" THEN "ended" ELSE "signal"]]
  /\ UNCHANGED <<receipt, owned, process, scratch, runner>>

SameProcess_ByCommand(p, who) == who # "other"
(* assertOwnedProcess: the command line, the start and the process group.   *)
SameProcess(p, who) == who # "other" /\ who = owned[p].launched

(* Commands go by what they saw.  A cancel tells the server, which was      *)
(* recorded first; a cleanup leaves it to its helper.                       *)
Wrong(c) == {p \in Pids : cleaner[c].seen[p] # "none" /\ ~SameProcess(p, cleaner[c].seen[p])}
Told(c) ==
  {p \in (IF cleaner[c].command = "cleanup" THEN {"child"}
           ELSE IF "server" \in Wrong(c) THEN {} ELSE Pids) \ Wrong(c) : cleaner[c].seen[p] # "none"}
(* A signal goes to whoever has the PID by then, who may not obey.          *)
Hits(pids) ==
  \E hit \in SUBSET {p \in pids : Alive(p)} :
    process' = [p \in Pids |-> IF p \in hit THEN "none" ELSE process[p]]
Signal(c) ==
  /\ Stands(c, "signal") /\ Hits(Told(c))
  /\ IF Wrong(c) # {} \/ cleaner[c].command = "cancel" THEN Moves(c, "ended")
     ELSE cleaner' = [cleaner EXCEPT ![c].at = "await", ![c].seen["server"] = "none"]
  /\ UNCHANGED <<receipt, owned, scratch, runner>>

Await(c) ==
  /\ Stands(c, "await") /\ (cleaner[c].seen["child"] # "none" => ~Alive("child"))
  /\ Moves(c, "safe")
  /\ UNCHANGED <<receipt, owned, process, scratch, runner>>

(* waitForCleanupSafeState reads the receipt, then looks for the owner of a *)
(* run that goes on, and fails the run of one that is gone.                 *)
ReadState(c) ==
  /\ Stands(c, "safe") /\ Moves(c, IF receipt.state = "running" THEN "find owner" ELSE "mark")
  /\ UNCHANGED <<receipt, owned, process, scratch, runner>>
FindOwner(c) ==
  /\ Stands(c, "find owner")
  /\ Moves(c, IF At(receipt.owner, "ended") THEN "abandon" ELSE "safe")
  /\ UNCHANGED <<receipt, owned, process, scratch, runner>>
Abandon(c) ==
  /\ Stands(c, "abandon") /\ Moves(c, "mark")
  /\ IF receipt.state = "running" THEN Update("failed", "INCONCLUSIVE") ELSE UNCHANGED receipt
  /\ UNCHANGED <<owned, process, scratch, runner>>

Mark(c) ==
  /\ Stands(c, "mark") /\ Moves(c, "help") /\ receipt' = [receipt EXCEPT !.cleaning = "removing"]
  /\ UNCHANGED <<owned, process, scratch, runner>>

(* cleanup.sh: the server goes by the PID file of the scratch and by its    *)
(* command line alone, which is looked at before the kill; then the scratch *)
(* is removed.  Without a PID file nothing is looked at.                    *)
HelperLooks(c) ==
  /\ Stands(c, "help") /\ scratch /\ process["server"] \in {"ours", "alike"}
  /\ cleaner' = [cleaner EXCEPT ![c].at = "kill", ![c].seen["server"] = process["server"]]
  /\ UNCHANGED <<receipt, owned, process, scratch, runner>>
HelperStops(c) ==
  /\ Stands(c, "kill") /\ Hits({"server"}) /\ Moves(c, "killed")
  /\ UNCHANGED <<receipt, owned, scratch, runner>>
HelperRefuses(c) ==
  /\ \/ Stands(c, "help") /\ scratch /\ process["server"] = "other"
     \/ Stands(c, "killed") /\ Alive("server")
  /\ Moves(c, "ended") /\ receipt' = [receipt EXCEPT !.cleaning = "failed"]
  /\ UNCHANGED <<owned, process, scratch, runner>>
HelperRemoves(c) ==
  /\ \/ Stands(c, "help") /\ (scratch /\ Alive("server") => owned["server"].state = "unknown")
     \/ Stands(c, "killed") /\ ~Alive("server")
  /\ scratch' = FALSE /\ Moves(c, "finish")
  /\ UNCHANGED <<receipt, owned, process, runner>>

Finish(c) ==
  /\ Stands(c, "finish") /\ Moves(c, "ended")
  /\ receipt' = [receipt EXCEPT !.cleaning = "completed",
                                !.state = IF @ = "created" THEN "cleaned" ELSE @]
  /\ UNCHANGED <<owned, process, scratch, runner>>

(* A deadline, or a kill.                                                   *)
GiveUp(c) ==
  /\ cleaner[c].at \notin {"idle", "ended"} /\ Moves(c, "ended")
  /\ UNCHANGED <<receipt, owned, process, scratch, runner>>

-----------------------------------------------------------------------------
(* The system                                                               *)

Exit(p) ==
  /\ process[p] = "ours" /\ process' = [process EXCEPT ![p] = "none"]
  /\ UNCHANGED <<receipt, owned, scratch, runner, cleaner>>
(* Another process gets the PID and keeps it, perhaps with the command line *)
(* of ours.                                                                 *)
Reuse(p) ==
  /\ process[p] = "none" /\ \A q \in Pids : process[q] \notin {"other", "alike"}
  /\ \E who \in {"other", "alike"} : process' = [process EXCEPT ![p] = who]
  /\ UNCHANGED <<receipt, owned, scratch, runner, cleaner>>

RunNext ==
  \/ \E r \in Runners :
       \/ Check(r) \/ Claim(r) \/ Preflight(r) \/ Snapshot(r) \/ StartServer(r) \/ Spawn(r)
       \/ \E p \in Pids : RecordOwned(r, p)
       \/ ChildClosed(r) \/ StopServer(r) \/ RecordStopped(r) \/ FeatureThrows(r) \/ Teardown(r)
       \/ Preserve(r) \/ Complete(r) \/ Break(r)
  \/ \E c \in Cleaners :
       \/ Look(c) \/ Signal(c) \/ Await(c) \/ ReadState(c) \/ FindOwner(c) \/ Abandon(c) \/ Mark(c)
       \/ HelperLooks(c) \/ HelperStops(c) \/ HelperRefuses(c) \/ HelperRemoves(c)
       \/ Finish(c) \/ GiveUp(c)
  \/ \E p \in Pids : Exit(p) \/ Reuse(p)

RunSpec == RunInit /\ [][RunNext]_runVars

-----------------------------------------------------------------------------
(* However commands race, die or are killed, and PIDs are taken over: one   *)
(* process at most executes the run, and a verified run has left none of its*)
(* processes alive, recorded or not.                                        *)
EvidenceIsSound ==
  /\ \A q, r \in Runners : Executing(q) /\ Executing(r) => q = r
  /\ receipt.result = "VERIFIED" => process["child"] # "ours" /\ process["server"] # "ours"

(* The result of a run that has ended stands, whatever commands come late.  *)
KeepsVerdict ==
  receipt.state \in Terminal =>
    receipt'.state = receipt.state /\ receipt'.result = receipt.result

(* No step ends a process that is not the run's, but a signal of a `cancel` *)
(* or `cleanup` that looked at its PID: one that was sent after another     *)
(* process had taken the PID over, or one to a process with the command line*)
(* of ours, which the run recorded as its own or which only the helper, that*)
(* asks for no more than the command line, has taken for it.                *)
ForeignSpared ==
  \A p \in Pids : process[p] \in {"other", "alike"} /\ process'[p] # process[p] =>
    \E c \in Cleaners : cleaner[c].seen[p] # "none" /\
      \/ (Signal(c) \/ HelperStops(c)) /\ cleaner[c].seen[p] # process[p]
      \/ process[p] = "alike" /\ (HelperStops(c) \/ (Signal(c) /\ owned[p].launched = "alike"))

-----------------------------------------------------------------------------
(* What the proofs need                                                     *)

States == {"created", "running"} \cup Terminal
Results == {"INCONCLUSIVE", "VERIFIED", "NOT VERIFIED"}
RunnerPlaces ==
  {"check", "claim", "preflight", "before", "server", "record server", "spawn", "record child",
   "wait", "stop", "stopped", "after", "teardown", "preserve", "complete", "ended"}
CleanerPlaces ==
  {"idle", "signal", "await", "safe", "find owner", "abandon", "mark", "help", "kill", "killed", "finish",
   "ended"}
Holders == {"unborn", "none", "ours", "other", "alike"}
Verdicts == {"good", "bad", "unknown"}
Receipts == [state : States, owner : Runners \cup {"none"}, result : Results,
             cleaning : {"none", "removing", "failed", "completed"}]
RunnerStates == [at : RunnerPlaces, verdict : Verdicts]
CleanerStates == [at : CleanerPlaces, command : {"none", "cancel", "cleanup"},
                  seen : [Pids -> Holders]]
RunTypes ==
  /\ receipt \in Receipts
  /\ owned \in [Pids -> [state : {"unknown", "running", "exited"}, launched : Holders]]
  /\ process \in [Pids -> Holders]
  /\ runner \in [Runners -> RunnerStates] /\ cleaner \in [Cleaners -> CleanerStates]

(* The runner that claimed the receipt owns it for good, and it is running  *)
(* as long as that one executes.                                            *)
OwnerExecutes ==
  /\ \A r \in Runners : Executing(r) => receipt.state = "running" /\ receipt.owner = r
  /\ receipt.state = "running" => receipt.owner \in Runners
  /\ \A c \in Cleaners :
       /\ cleaner[c].at = "find owner" => receipt.state # "created" /\ receipt.owner \in Runners
       /\ cleaner[c].at = "abandon" =>
            receipt.state # "created" /\ \A r \in Runners : ~Executing(r)

(* A process of the run that is alive is recorded, unless the verdict is    *)
(* already lost, and none is alive once they all were found gone.           *)
ProcessesKnown ==
  /\ receipt.state = "created" => \A p \in Pids : process[p] = "unborn"
  /\ \A r \in Runners : Executing(r) /\ runner[r].verdict = "good" =>
       /\ runner[r].at # "record server" /\ process["server"] = "ours" => owned["server"].state # "unknown"
       /\ runner[r].at # "record child" /\ process["child"] = "ours" => owned["child"].state # "unknown"
       /\ runner[r].at \in {"preserve", "complete"} => \A p \in Pids : process[p] # "ours"
  /\ receipt.result = "VERIFIED" => receipt.state = "completed" /\ \A p \in Pids : process[p] # "ours"
=============================================================================
