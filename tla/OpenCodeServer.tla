--------------------------- MODULE OpenCodeServer ---------------------------
(***************************************************************************)
(* Starting and stopping the shared OpenCode server, src/opencode/server.ts. *)
(* Several command lines of one project find, replace, spawn or stop the   *)
(* server of one port, without a lock: everything they know is a health    *)
(* answer, the process that listens, and a pid file.                       *)
(*                                                                         *)
(* Processes are numbered; 0 is a process that is not OpenCode.  Process   *)
(* ids are not reused, lsof and ps work, the installed version is known,   *)
(* and the server found at the start has finished starting.                *)
(***************************************************************************)
EXTENDS Integers, FiniteSets

CONSTANTS Callers,    \* command lines that call ensureServer or stopServer
          MaxServers  \* bound: OpenCode servers, the first one included

Foreign == 0
Nothing == -1
Processes == 0..MaxServers

VARIABLES
  state,     \* of each process: "absent", "starting", "listening", "dying", "gone"
  current,   \* it has the version of the installed command line
  answers,   \* it answers health requests
  port,      \* the process that listens, or Nothing
  pidFile,   \* the process that server.pid names, or Nothing
  ensures,   \* the caller called ensureServer, and not stopServer
  pc,        \* where each caller stands
  target,    \* the process a caller has read, spawned or found healthy
  result     \* what its call came to

procs == <<state, current, answers, port>>
calls == <<ensures, target, result>>
vars == <<procs, pidFile, pc, calls>>
-----------------------------------------------------------------------------
Init ==
  /\ \E first \in {"absent", "listening"}, stranger \in BOOLEAN :
       /\ ~(stranger /\ first = "listening")
       /\ state = [p \in Processes |-> IF p = 1 THEN first
                                       ELSE IF p = Foreign THEN "listening" ELSE "absent"]
       /\ port = IF stranger THEN Foreign ELSE IF first = "listening" THEN 1 ELSE Nothing
  /\ \E new, up \in BOOLEAN : /\ current = [p \in Processes |-> p # 1 \/ new]
                              /\ answers = [p \in Processes |-> p > 1 \/ (p = 1 /\ up)]
  /\ pidFile \in {Nothing, Foreign, 1}
  /\ ensures \in [Callers -> BOOLEAN]
  /\ pc = [c \in Callers |-> IF ensures[c] THEN "health" ELSE "stop"]
  /\ target = [c \in Callers |-> Nothing]
  /\ result = [c \in Callers |-> "none"]

IsOpencode(p) == p > 0
Runs(p) == state[p] \in {"starting", "listening", "dying"}
Listener == IF port # Nothing /\ IsOpencode(port) THEN port ELSE Nothing
Healthy == Listener # Nothing /\ answers[port]

Goto(c, label) == pc' = [pc EXCEPT ![c] = label]
Return(c, r) == Goto(c, "done") /\ result' = [result EXCEPT ![c] = r]
Terminate(p) == state' = [state EXCEPT ![p] = IF @ \in {"starting", "listening"} THEN "dying" ELSE @]

(* A health request answers, or times out even if the server is well.      *)
CheckHealth(c) ==
  /\ pc[c] = "health"
  /\ \/ /\ Healthy /\ current[port]
        /\ Return(c, "ok") /\ target' = [target EXCEPT ![c] = port]
     \/ Healthy /\ ~current[port] /\ Goto(c, "stop") /\ UNCHANGED <<target, result>>
     \/ Goto(c, "find") /\ UNCHANGED <<target, result>>
  /\ UNCHANGED <<procs, pidFile, ensures>>

(* stopManagedServer: read the file, test the process, ask what it is,     *)
(* signal it, remove the file; each is an await of its own.                *)
ReadPidFile(c) ==
  /\ pc[c] = "stop"
  /\ IF pidFile = Nothing
     THEN Goto(c, "stop-listener") /\ UNCHANGED <<pidFile, target>>
     ELSE /\ target' = [target EXCEPT ![c] = pidFile]
          /\ IF Runs(pidFile) THEN Goto(c, "stop-managed") /\ UNCHANGED pidFile
             ELSE Goto(c, "stop-listener") /\ pidFile' = Nothing
  /\ UNCHANGED <<procs, result, ensures>>
StopManagedUnasked(c) ==
  /\ pc[c] = "stop-managed"
  /\ Terminate(target[c]) /\ Goto(c, "stop-unlink")
  /\ UNCHANGED <<current, answers, port, pidFile, calls>>
StopManaged(c) ==
  /\ pc[c] = "stop-managed"
  /\ IF IsOpencode(target[c]) /\ Runs(target[c])
     THEN Terminate(target[c]) /\ Goto(c, "stop-unlink") /\ UNCHANGED pidFile
     ELSE /\ pidFile' \in IF IsOpencode(target[c]) THEN {pidFile, Nothing} ELSE {Nothing}
          /\ Goto(c, "stop-listener") /\ UNCHANGED state
  /\ UNCHANGED <<current, answers, port, calls>>
StopListener(c) ==
  /\ pc[c] = "stop-listener"
  /\ IF Listener = Nothing
     THEN Return(c, IF ensures[c] THEN "error" ELSE "nothing") /\ UNCHANGED state
     ELSE Terminate(Listener) /\ Goto(c, "stop-unlink") /\ UNCHANGED result
  /\ UNCHANGED <<current, answers, port, pidFile, target, ensures>>
Unlink(c) ==
  /\ pc[c] \in {"stop-unlink", "find-unlink"}
  /\ pidFile' = Nothing
  /\ Goto(c, IF pc[c] = "stop-unlink" THEN "stop-wait" ELSE "find-wait")
  /\ UNCHANGED <<procs, calls>>
PortIsFree(c) ==
  /\ pc[c] \in {"stop-wait", "find-wait"} /\ port = Nothing
  /\ IF pc[c] = "find-wait" THEN Goto(c, "spawn") /\ UNCHANGED result
     ELSE IF ensures[c] THEN Goto(c, "find") /\ UNCHANGED result
     ELSE Return(c, "stopped")
  /\ UNCHANGED <<procs, pidFile, target, ensures>>
PortDeadline(c) ==
  /\ pc[c] \in {"stop-wait", "find-wait"} /\ port # Nothing
  /\ Return(c, "error")
  /\ UNCHANGED <<procs, pidFile, target, ensures>>

(* stopUnhealthyServerListener stops any OpenCode that listens by now; a   *)
(* second look at the port decides whether somebody else has it.           *)
FindListener(c) ==
  /\ pc[c] = "find"
  /\ IF Listener = Nothing
     THEN Goto(c, "find-other") /\ UNCHANGED state
     ELSE Terminate(Listener) /\ Goto(c, "find-unlink")
  /\ UNCHANGED <<current, answers, port, pidFile, calls>>
FindOther(c) ==
  /\ pc[c] = "find-other"
  /\ IF port = Nothing THEN Goto(c, "spawn") /\ UNCHANGED result ELSE Return(c, "error")
  /\ UNCHANGED <<procs, pidFile, target, ensures>>

Spawn(c) ==
  /\ pc[c] = "spawn"
  /\ \E p \in Processes \ {Foreign, 1} :
       /\ state[p] = "absent" /\ \A q \in Processes : q > p => state[q] = "absent"
       /\ \A q \in 2..(p - 1) : state[q] # "absent"
       /\ state' = [state EXCEPT ![p] = "starting"]
       /\ target' = [target EXCEPT ![c] = p]
  /\ Goto(c, "write")
  /\ UNCHANGED <<current, answers, port, pidFile, result, ensures>>
WritePidFile(c) ==
  /\ pc[c] = "write"
  /\ pidFile' = target[c]
  /\ Goto(c, "poll")
  /\ UNCHANGED <<procs, calls>>
Poll(c) ==
  /\ pc[c] = "poll"
  /\ \/ Healthy /\ Return(c, "ok") /\ target' = [target EXCEPT ![c] = port]
     \/ Return(c, "error") /\ UNCHANGED target         \* MAX_RETRIES looks failed
  /\ UNCHANGED <<procs, pidFile, ensures>>

(* The servers: a new one listens if the port is free and exits otherwise. *)
Bind(p) ==
  /\ state[p] = "starting"
  /\ state' = [state EXCEPT ![p] = IF port = Nothing THEN "listening" ELSE "gone"]
  /\ port' = IF port = Nothing THEN p ELSE port
  /\ UNCHANGED <<current, answers, pidFile, pc, calls>>
Exit(p) ==
  /\ state[p] = "dying"
  /\ state' = [state EXCEPT ![p] = "gone"]
  /\ port' = IF port = p THEN Nothing ELSE port
  /\ UNCHANGED <<current, answers, pidFile, pc, calls>>

Step(c) == \/ CheckHealth(c) \/ ReadPidFile(c) \/ StopManaged(c) \/ StopListener(c) \/ Unlink(c)
           \/ PortIsFree(c) \/ PortDeadline(c) \/ FindListener(c) \/ FindOther(c)
           \/ Spawn(c) \/ WritePidFile(c) \/ Poll(c)
Next == (\E c \in Callers : Step(c)) \/ (\E p \in Processes : Bind(p) \/ Exit(p))
Spec == Init /\ [][Next]_vars
-----------------------------------------------------------------------------
(* Only OpenCode is ever signalled, whatever the pid file says and however *)
(* the port changes hands between two looks.                               *)
ForeignSurvives == state[Foreign] = "listening"

(* The server a caller is told to use is not the stale one, although the   *)
(* stale one may go on listening for a while after it was told to stop.    *)
ServerIsCurrent == \A c \in Callers : result[c] = "ok" => current[target[c]]

=============================================================================
