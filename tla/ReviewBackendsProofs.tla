------------------------ MODULE ReviewBackendsProofs ------------------------
(***************************************************************************)
(* The executors that start a child keep the promise of GuardedReview, for *)
(* any number of attempts, unread lines and unread messages, and any       *)
(* number of command lines can share an OpenCode server: what TLC checks   *)
(* on a small instance as KeepsPromise and ServerIsRight.  An attempt of an*)
(* OpenCode review is settled by a complete answer, whatever the server    *)
(* and its events do: OpenCodeSettles.                                     *)
(***************************************************************************)
EXTENDS ReviewBackends, TLAPS

-----------------------------------------------------------------------------
(* Claude                                                                   *)

ClaudePhases == {"before", "spawn", "read", "close", "reap", "group", "check", "done"}

(* Where the executor stands says whether a process of the child's group    *)
(* can run; nothing is decided before the end; and a review has ended in    *)
(* one of its own ways before the repository is compared.                   *)
ClaudeInv ==
  /\ phase \in ClaudePhases /\ dirty \in BOOLEAN /\ verified \in BOOLEAN
  /\ reason \in {"none", "cancelled", "timeout"}
  /\ phase \in {"before", "spawn", "reap", "check", "done"} => ~Claude!Alive
  /\ phase = "group" => child # "running"
  /\ phase # "done" => outcome = "none" /\ ~verified
  /\ phase = "check" => result \in {"report", "failed", "schema", "cancelled", "timeout"}

LEMMA ClaudeStep ==
  ASSUME ClaudeInv, Claude!Next PROVE ClaudeInv'
<1> USE DEF ClaudeInv, ClaudePhases, Claude!Alive, Claude!process, Claude!reading, Claude!ending
<1>1. CASE Claude!SnapshotBefore \/ Claude!SnapshotFails
  BY <1>1 DEF Claude!SnapshotBefore, Claude!SnapshotFails, Claude!End
<1>2. CASE Claude!Spawn \/ Claude!SpawnAborted
  BY <1>2 DEF Claude!Spawn, Claude!SpawnAborted, Claude!Conclude
<1>3. CASE Claude!ReadLine
  BY <1>3 DEF Claude!ReadLine, Claude!Throws
<1>4. CASE Claude!ReadEnds \/ Claude!ExitSeen
  BY <1>4 DEF Claude!ReadEnds, Claude!ExitSeen, Claude!Exited
<1>5. CASE Claude!CloseDeadline \/ Claude!ReapDeadline \/ Claude!Descendants
  BY <1>5 DEF Claude!CloseDeadline, Claude!ReapDeadline, Claude!Descendants, Claude!KillTree,
              Claude!Conclude
<1>6. CASE Claude!AttemptFails \/ Claude!Decide
  BY <1>6 DEF Claude!AttemptFails, Claude!Decide, Claude!Conclude
<1>7. CASE Claude!Check \/ Claude!CheckFails
  BY <1>7 DEF Claude!Check, Claude!CheckFails, Claude!End
<1>8. CASE Claude!TimeLimit \/ Claude!Cancel
  BY <1>8 DEF Claude!TimeLimit, Claude!Cancel, Claude!Abort
<1>9. CASE Claude!ForceKill \/ Claude!ChildExits \/ Claude!KinExits \/ Claude!ChildForks
  BY <1>9 DEF Claude!ForceKill, Claude!ChildExits, Claude!KinExits, Claude!ChildForks
<1>10. CASE Claude!ChildPrints \/ Claude!ChildClosesStdout
  BY <1>10 DEF Claude!ChildPrints, Claude!ChildClosesStdout
<1>11. CASE Claude!RepositoryChanges
  BY <1>11 DEF Claude!RepositoryChanges
<1> QED
  BY <1>1, <1>2, <1>3, <1>4, <1>5, <1>6, <1>7, <1>8, <1>9, <1>10, <1>11
     DEF Claude!Next, Claude!Executor

(* A step of the executor is the start, the end, some work, or not seen.    *)
LEMMA ClaudeKeepsPromise ==
  ASSUME backend = "claude", backend' = "claude", ClaudeInv, ClaudeInv', Claude!Next
  PROVE  Promise!Next \/ UNCHANGED Promise!vars
<1> DEFINE Working == phase \notin {"before", "done"}
<1> USE DEF Guarded, Claude!Stage, Claude!Kind, Claude!Alive, ClaudeInv
<1>1. ASSUME Working, phase' \notin {"before", "done"}, dirty => dirty', UNCHANGED <<verified, outcome>>
      PROVE  Promise!Work
  BY <1>1 DEF Promise!Work
<1>2. ASSUME UNCHANGED <<phase, child, kin, dirty, verified, outcome>> PROVE UNCHANGED Promise!vars
  BY <1>2 DEF Promise!vars
<1>3. CASE Claude!SnapshotBefore
  <2>1. Promise!Start
    BY <1>3 DEF Claude!SnapshotBefore, Promise!Start, Claude!process, Claude!ending
  <2> QED
    BY <2>1 DEF Promise!Next
<1>4. CASE Claude!SnapshotFails
  <2>1. Promise!GiveUp
    BY <1>4 DEF Claude!SnapshotFails, Claude!End, Promise!GiveUp, Claude!process
  <2> QED
    BY <2>1 DEF Promise!Next
<1>5. CASE Claude!Check \/ Claude!CheckFails
  <2>1. Promise!End
    BY <1>5 DEF Claude!Check, Claude!CheckFails, Claude!End, Promise!End, Claude!process
  <2> QED
    BY <2>1 DEF Promise!Next
<1>6. CASE \/ Claude!Spawn \/ Claude!SpawnAborted \/ Claude!ReadLine \/ Claude!ReadEnds
           \/ Claude!CloseDeadline \/ Claude!ReapDeadline \/ Claude!ExitSeen
           \/ Claude!Descendants \/ Claude!AttemptFails \/ Claude!Decide
  <2>1. /\ Working /\ phase' \notin {"before", "done"}
        /\ UNCHANGED <<dirty, verified, outcome>>
    BY <1>6 DEF Claude!Spawn, Claude!SpawnAborted, Claude!ReadLine, Claude!ReadEnds,
                Claude!CloseDeadline, Claude!ReapDeadline, Claude!ExitSeen, Claude!Descendants,
                Claude!AttemptFails, Claude!Decide, Claude!Conclude, Claude!Throws, Claude!ending
  <2> QED
    BY <2>1, <1>1 DEF Promise!Next
<1>7. CASE Claude!TimeLimit \/ Claude!Cancel
  BY <1>7, <1>2 DEF Claude!TimeLimit, Claude!Cancel, Claude!Abort, Claude!ending
<1>8. CASE Claude!ForceKill \/ Claude!ChildExits \/ Claude!KinExits \/ Claude!ChildForks
  <2>1. Working /\ UNCHANGED <<phase, dirty, verified, outcome>>
    BY <1>8 DEF Claude!ForceKill, Claude!ChildExits, Claude!KinExits, Claude!ChildForks, Claude!ending
  <2> QED
    BY <2>1, <1>1 DEF Promise!Next
<1>9. CASE Claude!ChildPrints \/ Claude!ChildClosesStdout \/ Claude!RepositoryChanges
  <2>1. CASE Working
    <3>1. phase' \notin {"before", "done"} /\ UNCHANGED <<verified, outcome>> /\ (dirty => dirty')
      BY <1>9, <2>1 DEF Claude!ChildPrints, Claude!ChildClosesStdout, Claude!RepositoryChanges, Claude!ending
    <3> QED
      BY <2>1, <3>1, <1>1 DEF Promise!Next
  <2>2. CASE ~Working
    BY <1>9, <2>2 DEF Claude!ChildPrints, Claude!ChildClosesStdout, Claude!RepositoryChanges
  <2> QED
    BY <2>1, <2>2
<1> QED
  BY <1>3, <1>4, <1>5, <1>6, <1>7, <1>8, <1>9 DEF Claude!Next, Claude!Executor

-----------------------------------------------------------------------------
(* Cursor                                                                   *)

CursorPhases ==
  {"before", "store", "spawn", "talk", "stopping", "group", "check", "remove", "done"}
Failures == {"failed", "cancelled", "timeout", "policy", "teardown", "validation", "protocol",
             "unverified"}

CursorTypes ==
  /\ phase \in CursorPhases /\ dirty \in BOOLEAN /\ verified \in BOOLEAN /\ kin \in BOOLEAN
  /\ reason \in {"none", "cancelled", "timeout"}
  /\ answer \in Failures \cup {"none", "result"}
  /\ reader \in Failures \cup {"open", "done", "none"}
  /\ mail \in Seq(Failures \cup {"none", "activity", "result"})

(* The worker runs only between its start and the check of its group.       *)
CursorGroup ==
  /\ phase \in {"before", "store", "spawn"} => worker = "none"
  /\ worker = "none" => ~kin
  /\ phase \in {"check", "remove", "done"} => ~Cursor!GroupAlive

(* Nothing is decided before the end, and what will be thrown is a change   *)
(* exactly when a second snapshot was taken that showed one.                *)
CursorEnding ==
  /\ phase # "done" => outcome = "none"
  /\ phase \notin {"remove", "done"} => ~verified /\ failure \in Failures \cup {"none"}
  /\ phase = "remove" => /\ failure \in Failures \cup {"none", "changed"}
                         /\ verified /\ dirty <=> failure = "changed"
                         /\ ~verified => failure # "none"
CursorInv == CursorTypes /\ CursorGroup /\ CursorEnding

LEMMA CursorStep ==
  ASSUME CursorInv, Cursor!Next PROVE CursorInv'
<1> USE DEF CursorInv, CursorTypes, CursorGroup, CursorEnding, CursorPhases, Failures, Cursor!GroupAlive, Cursor!Running, Cursor!work,
            Cursor!ending
<1>1. CASE Cursor!SnapshotBefore \/ Cursor!SnapshotFails \/ Cursor!MakeStore
  BY <1>1 DEF Cursor!SnapshotBefore, Cursor!SnapshotFails, Cursor!MakeStore, Cursor!Throw
<1>2. CASE Cursor!SpawnWorker
  BY <1>2 DEF Cursor!SpawnWorker, Cursor!Throw
<1>3. CASE Cursor!ReadMessage
  <2>1. mail' \in Seq(Failures \cup {"none", "activity", "result"})
        /\ Head(mail) \in Failures \cup {"none", "activity", "result"}
    BY <1>3 DEF Cursor!ReadMessage
  <2>2. UNCHANGED <<phase, reason, failure, worker, kin, answer, dirty, verified, outcome>>
    BY <1>3 DEF Cursor!ReadMessage
  <2> DEFINE m == Head(mail)
  <2>3. \/ reader' = "protocol"
        \/ reader' = reader
        \/ m \notin {"activity", "result"} /\ reader' = m
    BY <1>3, Zenon DEF Cursor!ReadMessage
  <2>5. reader' \in Failures \cup {"open", "done", "none"}
    BY <2>1, <2>3
  <2> QED
    BY <2>1, <2>2, <2>5
<1>4. CASE Cursor!ReadEnds
  BY <1>4 DEF Cursor!ReadEnds, Cursor!Reading
<1>5. CASE Cursor!RaceEnds \/ Cursor!StopSeen
  BY <1>5 DEF Cursor!RaceEnds, Cursor!StopSeen
<1>6. CASE Cursor!Group
  <2>1. /\ phase = "group" /\ phase' = "check"
        /\ UNCHANGED <<reason, reader, answer, mail, dirty, verified, outcome>>
    BY <1>6 DEF Cursor!Group
  <2>2. kin' \in BOOLEAN
    BY <1>6 DEF Cursor!Group
  <2>3. failure' \in Failures \cup {"none"}
    BY <1>6, <2>1 DEF Cursor!Group, Cursor!First
  <2>4. CursorGroup'
    BY <1>6 DEF Cursor!Group
  <2>5. CursorTypes' /\ CursorEnding'
    BY <2>1, <2>2, <2>3
  <2> QED
    BY <2>4, <2>5
<1>7. CASE Cursor!Check
  <2>1. phase = "check" /\ phase' = "remove" /\ CursorGroup'
    BY <1>7 DEF Cursor!Check
  <2>2. CASE verified' = TRUE
    BY <1>7, <2>1, <2>2 DEF Cursor!Check
  <2>3. CASE verified' = FALSE /\ failure' = Cursor!First(Cursor!First(failure, reason), "unverified")
    <3>1. UNCHANGED <<reason, reader, answer, mail, dirty, worker, kin, outcome>>
      BY <1>7 DEF Cursor!Check
    <3>2. failure' \in Failures
      BY <2>1, <2>3 DEF Cursor!First
    <3>3. CursorTypes'
      BY <2>1, <2>3, <3>1
    <3>4. CursorEnding'
      BY <2>1, <2>3, <3>1, <3>2
    <3> QED
      BY <2>1, <3>3, <3>4
  <2> QED
    BY <1>7, <2>2, <2>3 DEF Cursor!Check
<1>8. CASE Cursor!RemoveStore
  <2>1. CursorTypes'
    BY <1>8 DEF Cursor!RemoveStore
  <2>2. CursorGroup' /\ CursorEnding'
    BY <1>8 DEF Cursor!RemoveStore
  <2> QED
    BY <2>1, <2>2
<1>9. CASE Cursor!Cancel \/ Cursor!TimeLimit
  BY <1>9 DEF Cursor!Cancel, Cursor!TimeLimit, Cursor!Stop
<1>10. CASE Cursor!CreateAgent \/ Cursor!TurnEvent
  BY <1>10 DEF Cursor!CreateAgent, Cursor!TurnEvent, Cursor!Send, Cursor!Dispose, Cursor!Parent
<1>11. CASE Cursor!TurnEnds
  BY <1>11 DEF Cursor!TurnEnds, Cursor!Send, Cursor!Dispose, Cursor!Parent
<1>12. CASE Cursor!Disposed \/ Cursor!Report
  BY <1>12 DEF Cursor!Disposed, Cursor!Report, Cursor!Send, Cursor!Parent
<1>13. CASE Cursor!WorkerCrashes \/ Cursor!WorkerForks \/ Cursor!KinExits
  <2>1. UNCHANGED <<phase, reason, failure, reader, answer, mail, dirty, verified, outcome>>
    BY <1>13 DEF Cursor!WorkerCrashes, Cursor!WorkerForks, Cursor!KinExits, Cursor!Parent
  <2>3. kin' \in BOOLEAN
    BY <1>13 DEF Cursor!WorkerCrashes, Cursor!WorkerForks, Cursor!KinExits
  <2>2. CursorGroup'
    BY <1>13 DEF Cursor!WorkerCrashes, Cursor!WorkerForks, Cursor!KinExits, Cursor!Parent
  <2> QED
    BY <2>1, <2>2, <2>3
<1>14. CASE Cursor!RepositoryChanges
  BY <1>14 DEF Cursor!RepositoryChanges
<1> QED
  BY <1>1, <1>2, <1>3, <1>4, <1>5, <1>6, <1>7, <1>8, <1>9, <1>10, <1>11, <1>12, <1>13, <1>14
     DEF Cursor!Next, Cursor!Execute, Cursor!Worker

LEMMA CursorKeepsPromise ==
  ASSUME backend = "cursor", backend' = "cursor", CursorInv, CursorInv', Cursor!Next
  PROVE  Promise!Next \/ UNCHANGED Promise!vars
<1> DEFINE Working == phase \notin {"before", "done"}
<1> USE DEF Guarded, Claude!Stage, Claude!Kind, Cursor!GroupAlive, Cursor!Running,
            Cursor!CheckCounts
<1>1. ASSUME Working, phase' \notin {"before", "done"}, dirty => dirty', UNCHANGED outcome
      PROVE  Promise!Work
  BY <1>1 DEF Promise!Work, CursorInv, CursorTypes
<1>2. ASSUME UNCHANGED <<phase, worker, kin, dirty, verified, outcome>> PROVE UNCHANGED Promise!vars
  BY <1>2 DEF Promise!vars
<1>3. CASE Cursor!SnapshotBefore \/ Cursor!SnapshotFails
  <2>1. Promise!Start
    BY <1>3 DEF Cursor!SnapshotBefore, Cursor!SnapshotFails, Cursor!Throw, Promise!Start,
                Cursor!work, Cursor!ending
  <2> QED
    BY <2>1 DEF Promise!Next
<1>4. CASE Cursor!RemoveStore
  <2>1. Promise!End
    BY <1>4 DEF Cursor!RemoveStore, Promise!End, CursorInv, CursorTypes, CursorGroup, CursorEnding, Failures, Cursor!work
  <2> QED
    BY <2>1 DEF Promise!Next
<1>5. CASE \/ Cursor!MakeStore \/ Cursor!SpawnWorker \/ Cursor!RaceEnds \/ Cursor!StopSeen
           \/ Cursor!Group \/ Cursor!Check
  <2>1. /\ Working /\ phase' \notin {"before", "done"}
        /\ UNCHANGED <<dirty, outcome>>
    BY <1>5 DEF Cursor!MakeStore, Cursor!SpawnWorker, Cursor!RaceEnds, Cursor!StopSeen,
                Cursor!Group, Cursor!Check, Cursor!Throw, Cursor!ending
  <2> QED
    BY <2>1, <1>1 DEF Promise!Next
<1>6. CASE Cursor!ReadMessage \/ Cursor!ReadEnds \/ Cursor!Cancel \/ Cursor!TimeLimit
  BY <1>6, <1>2 DEF Cursor!ReadMessage, Cursor!ReadEnds, Cursor!Cancel, Cursor!TimeLimit, Cursor!Stop,
                    Cursor!work, Cursor!ending
<1>7. CASE Cursor!Worker \/ Cursor!WorkerForks \/ Cursor!KinExits
  <2>1. UNCHANGED <<phase, dirty, verified, outcome>>
    BY <1>7 DEF Cursor!Worker, Cursor!CreateAgent, Cursor!TurnEvent, Cursor!TurnEnds, Cursor!Disposed,
                Cursor!Report, Cursor!WorkerCrashes, Cursor!WorkerForks, Cursor!KinExits,
                Cursor!Parent, Cursor!ending
  <2>2. Cursor!GroupAlive
    BY <1>7 DEF Cursor!Worker, Cursor!CreateAgent, Cursor!TurnEvent, Cursor!TurnEnds, Cursor!Disposed,
                Cursor!Report, Cursor!WorkerCrashes, Cursor!WorkerForks, Cursor!KinExits
  <2>3. Working
    BY <2>2 DEF CursorInv, CursorGroup
  <2> QED
    BY <2>1, <2>3, <1>1 DEF Promise!Next
<1>8. CASE Cursor!RepositoryChanges
  <2>1. Working /\ phase' \notin {"before", "done"} /\ (dirty => dirty') /\ UNCHANGED outcome
    BY <1>8 DEF Cursor!RepositoryChanges, Cursor!ending
  <2> QED
    BY <2>1, <1>1 DEF Promise!Next
<1> QED
  BY <1>3, <1>4, <1>5, <1>6, <1>7, <1>8 DEF Cursor!Next, Cursor!Execute

-----------------------------------------------------------------------------
(* KeepsPromise                                                             *)

PromiseInv == /\ backend = "claude" => ClaudeInv
              /\ backend = "cursor" => CursorInv

LEMMA PromiseInvHolds == Spec => []PromiseInv
<1>1. Init => PromiseInv
  <2>1. ASSUME Init, backend = "claude" PROVE ClaudeInv
    BY <2>1 DEF Init, Claude!Init, ClaudeInv, ClaudePhases, Claude!Alive
  <2>2. ASSUME Init, backend = "cursor" PROVE CursorInv
    <3>1. Cursor!Init
      BY <2>2 DEF Init
    <3>2. CursorTypes
      <4>1. mail \in Seq(Failures \cup {"none", "activity", "result"})
        BY <3>1 DEF Cursor!Init
      <4>2. dirty \in BOOLEAN /\ verified \in BOOLEAN /\ kin \in BOOLEAN
        BY <3>1, Zenon DEF Cursor!Init
      <4>3. /\ phase = "before" /\ reason = "none" /\ answer = "none" /\ reader = "open"
        BY <3>1 DEF Cursor!Init
      <4> QED
        BY <4>1, <4>2, <4>3 DEF CursorTypes, CursorPhases
    <3>3. CursorGroup /\ CursorEnding
      BY <3>1 DEF Cursor!Init, CursorGroup, CursorEnding, Failures
    <3> QED
      BY <3>2, <3>3 DEF CursorInv
  <2> QED
    BY <2>1, <2>2 DEF PromiseInv
<1>2. PromiseInv /\ [Next]_vars => PromiseInv'
  <2> SUFFICES ASSUME PromiseInv, [Next]_vars PROVE PromiseInv'
    OBVIOUS
  <2>1. CASE PrepareServer \/ RunOpenCode
    BY <2>1 DEF PrepareServer, RunOpenCode, Only, PromiseInv
  <2>2. CASE RunClaude
    BY <2>2, ClaudeStep DEF RunClaude, Only, PromiseInv
  <2>3. CASE RunCursor
    BY <2>3, CursorStep DEF RunCursor, Only, PromiseInv
  <2>4. CASE UNCHANGED vars
    <3>1. UNCHANGED <<backend, phase, outcome, result, children, onlyClaude, onlyCursor>>
      BY <2>4 DEF vars
    <3>2. UNCHANGED <<reason, attempt, kin, ok, terminal, failure, dirty, verified, child, term,
                      lines, init, reader, store, worker, cancelled, answer, mail>>
      BY <3>1 DEF children, onlyClaude, onlyCursor
    <3>3. backend = "claude" => ClaudeInv'
      BY <3>1, <3>2 DEF PromiseInv, ClaudeInv, Claude!Alive
    <3>4. backend = "cursor" => CursorInv'
      BY <3>1, <3>2 DEF PromiseInv, CursorInv, CursorTypes, CursorGroup, CursorEnding,
                        Cursor!GroupAlive, Cursor!Running
    <3> QED
      BY <3>1, <3>3, <3>4 DEF PromiseInv
  <2> QED
    BY <2>1, <2>2, <2>3, <2>4 DEF Next
<1> QED
  BY <1>1, <1>2, PTL DEF Spec

(* Whatever the child, the SDK, the timers and the caller do, a review by   *)
(* Claude or Cursor ends as GuardedReview allows: with a report only if the *)
(* repository was compared and unchanged and no process of the group runs,  *)
(* and with the change if one was seen (claude/executor.ts:110,             *)
(* cursor/executor.ts:268).                                                 *)
THEOREM PromiseIsKept == Spec => KeepsPromise
<1>1. Init => Promise!Init
  <2> SUFFICES ASSUME Init PROVE Promise!Init
    OBVIOUS
  <2>1. CASE backend \in {"server", "opencode"}
    BY <2>1 DEF Promise!Init, Guarded
  <2>2. CASE backend = "claude"
    BY <2>2 DEF Init, Promise!Init, Guarded, Claude!Init, Claude!Stage, Claude!Kind, Claude!Alive
  <2>3. CASE backend = "cursor"
    BY <2>3 DEF Init, Promise!Init, Guarded, Cursor!Init, Claude!Stage, Claude!Kind,
                Cursor!GroupAlive, Cursor!Running, Cursor!CheckCounts
  <2> QED
    BY <2>1, <2>2, <2>3 DEF Init
<1>2. PromiseInv /\ PromiseInv' /\ [Next]_vars => [Promise!Next]_(Promise!vars)
  <2> SUFFICES ASSUME PromiseInv, PromiseInv', [Next]_vars
               PROVE  Promise!Next \/ UNCHANGED Promise!vars
    OBVIOUS
  <2>1. CASE PrepareServer \/ RunOpenCode
    <3>1. backend \in {"server", "opencode"} /\ backend' = backend
      BY <2>1 DEF PrepareServer, RunOpenCode, Only
    <3> QED
      BY <3>1 DEF Promise!vars, Guarded
  <2>2. CASE RunClaude
    BY <2>2, ClaudeKeepsPromise DEF RunClaude, Only, PromiseInv
  <2>3. CASE RunCursor
    BY <2>3, CursorKeepsPromise DEF RunCursor, Only, PromiseInv
  <2>4. CASE UNCHANGED vars
    <3>1. UNCHANGED <<backend, phase, outcome, kin, dirty, verified, child, worker>>
      BY <2>4 DEF vars, children, onlyClaude, onlyCursor
    <3> QED
      BY <3>1 DEF Promise!vars, Guarded, Claude!Stage, Claude!Kind, Claude!Alive,
                  Cursor!GroupAlive, Cursor!Running, Cursor!CheckCounts
  <2> QED
    BY <2>1, <2>2, <2>3, <2>4 DEF Next
<1> QED
  BY <1>1, <1>2, PromiseInvHolds, PTL DEF Spec, KeepsPromise, Promise!Spec

-----------------------------------------------------------------------------
(* The OpenCode server                                                      *)

Pids == Server!Processes \cup {Server!Nothing}
States == {"absent", "starting", "listening", "dying", "gone"}
Labels == {"health", "stop", "stop-managed", "stop-unlink", "stop-listener", "stop-wait", "find",
           "find-other", "find-unlink", "find-wait", "spawn", "write", "poll", "done"}
Starts == {"spawn", "write", "poll"}

(* The process of somebody else runs, and the first server never starts     *)
(* again.                                                                   *)
StatesKept == /\ state \in [Server!Processes -> States]
              /\ Server!ForeignSurvives /\ state[1] # "starting"

(* Once a caller has seen the port free, what listens there is of the       *)
(* current version, and it has been given no other.                         *)
CallsRight ==
  /\ pc \in [Callers -> Labels] /\ target \in [Callers -> Pids]
  /\ DOMAIN result = Callers /\ result = [c \in Callers |-> result[c]]
  /\ \A c \in Callers : pc[c] \in Starts => port # 1
  /\ \A c \in Callers : result[c] = "ok" => pc[c] = "done" /\ current[target[c]]

ServerInv ==
  /\ port \in Pids /\ pidFile \in Pids
  /\ \A p \in Server!Processes \ {1} : current[p]
  /\ StatesKept /\ CallsRight

LEMMA TerminateKeeps ==
  ASSUME StatesKept, NEW p \in Server!Processes, p # Server!Foreign, Server!Terminate(p)
  PROVE  StatesKept'
<1> USE Bounds DEF Server!Processes, Server!Foreign, StatesKept, States, Server!ForeignSurvives
<1>1. state' \in [Server!Processes -> States]
  BY DEF Server!Terminate
<1>2. \A q \in Server!Processes : state'[q] \in {state[q], "dying"} /\ (q # p => state'[q] = state[q])
  BY DEF Server!Terminate
<1> QED
  BY <1>1, <1>2

(* What a step of one caller has to show for the calls.                     *)
LEMMA CallKeeps ==
  ASSUME CallsRight, NEW c \in Callers, UNCHANGED <<port, current>>, pc[c] # "done",
         NEW l \in Labels, pc' = [pc EXCEPT ![c] = l], l \in Starts => port # 1,
         NEW t \in Pids, target' = [target EXCEPT ![c] = t],
         NEW r, result' = [result EXCEPT ![c] = r], r = "ok" => l = "done" /\ current[t]
  PROVE  CallsRight'
<1> USE DEF CallsRight
<1>1. pc' \in [Callers -> Labels] /\ target' \in [Callers -> Pids]
  OBVIOUS
<1>2. DOMAIN result' = Callers /\ result' = [d \in Callers |-> result'[d]]
  OBVIOUS
<1>3. pc'[c] = l /\ target'[c] = t /\ result'[c] = r
  OBVIOUS
<1>4. \A d \in Callers \ {c} : pc'[d] = pc[d] /\ target'[d] = target[d] /\ result'[d] = result[d]
  OBVIOUS
<1>5. \A d \in Callers : pc'[d] \in Starts => port' # 1
  BY <1>3, <1>4
<1>6. \A d \in Callers : result'[d] = "ok" => pc'[d] = "done" /\ current'[target'[d]]
  BY <1>3, <1>4
<1> QED
  BY <1>1, <1>2, <1>5, <1>6

LEMMA SameTarget ==
  ASSUME CallsRight, NEW c \in Callers
  PROVE  /\ target[c] \in Pids /\ target = [target EXCEPT ![c] = target[c]]
         /\ result = [result EXCEPT ![c] = result[c]]
         /\ pc[c] # "done" => result[c] # "ok"
BY DEF CallsRight

LEMMA ServerStarts ==
  ASSUME Server!Init PROVE ServerInv
<1> USE Bounds DEF Server!Processes, Server!Foreign, Server!Nothing
<1>1. StatesKept /\ port \in Pids
  BY DEF Server!Init, Pids, StatesKept, States, Server!ForeignSurvives
<1>2. pidFile \in Pids /\ target \in [Callers -> Pids]
  BY DEF Server!Init, Pids
<1>3. \A p \in Server!Processes \ {1} : current[p]
  <2>1. PICK new \in BOOLEAN : current = [p \in Server!Processes |-> p # 1 \/ new]
    BY DEF Server!Init
  <2> QED
    BY <2>1
<1>4. /\ pc \in [Callers -> Labels] /\ \A c \in Callers : pc[c] \in {"health", "stop"}
      /\ result = [c \in Callers |-> "none"]
  BY DEF Server!Init, Labels
<1>5. CallsRight
  BY <1>2, <1>4 DEF CallsRight, Starts
<1> QED
  BY <1>1, <1>2, <1>3, <1>5 DEF ServerInv

LEMMA ServerStep ==
  ASSUME ServerInv, Server!Next PROVE ServerInv'
<1>1. ASSUME NEW c \in Callers, Server!Step(c) PROVE ServerInv'
  <2> USE SameTarget DEF Server!procs, Server!calls, Server!Goto, Server!Return, Labels, Starts
  <2>0. /\ StatesKept /\ CallsRight /\ port \in Pids /\ pidFile \in Pids /\ target[c] \in Pids
        /\ \A p \in Server!Processes \ {1} : current[p]
    BY DEF ServerInv
  <2>a. ASSUME UNCHANGED <<state, port, current>>, pidFile' \in Pids, CallsRight' PROVE ServerInv'
    BY <2>0, <2>a DEF ServerInv, StatesKept, Server!ForeignSurvives
  <2>b. ASSUME StatesKept', UNCHANGED <<port, current>>, pidFile' \in Pids, CallsRight' PROVE ServerInv'
    BY <2>0, <2>b DEF ServerInv
  <2>c. ASSUME NEW l \in Labels, pc[c] # "done", Server!Goto(c, l), l \in Starts => port # 1,
               UNCHANGED <<port, current, target, result>>
        PROVE  CallsRight'
    <3> DEFINE t == target[c]
               r == result[c]
    <3>1. /\ t \in Pids /\ target' = [target EXCEPT ![c] = t]
          /\ r # "ok" /\ result' = [result EXCEPT ![c] = r]
      BY <2>0, <2>c
    <3>2. pc' = [pc EXCEPT ![c] = l] /\ UNCHANGED <<port, current>>
      BY <2>c
    <3> HIDE DEF t, r, Labels, Starts
    <3> QED
      <4>1. /\ CallsRight /\ pc[c] # "done" /\ (l \in Starts => port # 1)
            /\ (r = "ok" => l = "done" /\ current[t])
        BY <2>0, <2>c, <3>1
      <4> QED
        BY <4>1, <3>1, <3>2, CallKeeps
  <2>d. ASSUME NEW r \in {"error", "nothing", "stopped"}, pc[c] # "done", Server!Return(c, r),
               UNCHANGED <<port, current, target>>
        PROVE  CallsRight'
    BY <2>0, <2>d, CallKeeps
  <2>1. CASE Server!CheckHealth(c)
    <3>0. pc[c] = "health" /\ UNCHANGED <<state, port, current, pidFile>>
      BY <2>1 DEF Server!CheckHealth
    <3>1. CASE \/ Server!Goto(c, "stop") /\ UNCHANGED <<target, result>>
               \/ Server!Goto(c, "find") /\ UNCHANGED <<target, result>>
      BY <2>0, <2>a, <2>c, <3>0, <3>1
    <3>2. CASE current[port] /\ Server!Return(c, "ok") /\ target' = [target EXCEPT ![c] = port]
      BY <2>0, <2>a, <3>0, <3>2, CallKeeps
    <3> QED
      BY <2>1, <3>1, <3>2 DEF Server!CheckHealth
  <2>2. CASE Server!ReadPidFile(c)
    <3>0. pc[c] = "stop" /\ UNCHANGED <<state, port, current, result>> /\ pidFile' \in Pids
      BY <2>0, <2>2 DEF Server!ReadPidFile, Pids
    <3>1. CASE pidFile = Server!Nothing
      BY <2>0, <2>2, <2>a, <2>c, <3>0, <3>1 DEF Server!ReadPidFile
    <3>2. CASE target' = [target EXCEPT ![c] = pidFile] /\ Server!Goto(c, "stop-managed")
      BY <2>0, <2>a, <3>0, <3>2, CallKeeps
    <3>3. CASE target' = [target EXCEPT ![c] = pidFile] /\ Server!Goto(c, "stop-listener")
      BY <2>0, <2>a, <3>0, <3>3, CallKeeps
    <3> QED
      BY <2>2, <3>1, <3>2, <3>3 DEF Server!ReadPidFile
  <2>3. CASE Server!StopManaged(c)
    <3>0. /\ pc[c] = "stop-managed" /\ UNCHANGED <<port, current, target, result>>
          /\ pidFile' \in Pids
      BY <2>0, <2>3 DEF Server!StopManaged, Pids
    <3>1. CASE Server!IsOpencode(target[c]) /\ Server!Runs(target[c])
      <4>1. Server!Terminate(target[c]) /\ Server!Goto(c, "stop-unlink")
        BY <2>3, <3>1 DEF Server!StopManaged
      <4>2. target[c] \in Server!Processes /\ target[c] # Server!Foreign
        BY <2>0, <3>1 DEF Pids, Server!IsOpencode, Server!Nothing, Server!Foreign
      <4> QED
        BY <2>0, <2>b, <2>c, <3>0, <4>1, <4>2, TerminateKeeps
    <3>2. CASE UNCHANGED state /\ Server!Goto(c, "stop-listener")
      BY <2>a, <2>c, <3>0, <3>2
    <3> QED
      BY <2>3, <3>1, <3>2 DEF Server!StopManaged
  <2>4. CASE Server!StopListener(c)
    <3>0. /\ pc[c] = "stop-listener" /\ UNCHANGED <<port, current, pidFile, target>>
      BY <2>4 DEF Server!StopListener
    <3>1. CASE UNCHANGED state /\ (Server!Return(c, "error") \/ Server!Return(c, "nothing"))
      BY <2>0, <2>a, <2>d, <3>0, <3>1
    <3>2. CASE Server!Listener # Server!Nothing
      <4>0. Server!Terminate(Server!Listener) /\ Server!Goto(c, "stop-unlink") /\ UNCHANGED result
        BY <2>4, <3>2 DEF Server!StopListener
      <4>1. Server!Listener \in Server!Processes /\ Server!Listener # Server!Foreign
        BY <2>0, <3>2 DEF Pids, Server!Listener, Server!IsOpencode, Server!Nothing, Server!Foreign
      <4> QED
        BY <2>0, <2>b, <2>c, <3>0, <4>0, <4>1, TerminateKeeps
    <3> QED
      BY <2>4, <3>1, <3>2 DEF Server!StopListener
  <2>5. CASE Server!Unlink(c)
    <3>1. CallsRight'
      BY <2>5, <2>c DEF Server!Unlink
    <3> QED
      BY <2>5, <2>a, <3>1 DEF Server!Unlink, Pids
  <2>6. CASE Server!PortIsFree(c)
    <3>0. port # 1 /\ pc[c] # "done" /\ UNCHANGED <<state, port, current, pidFile, target>>
      BY <2>6 DEF Server!PortIsFree, Server!Nothing
    <3>1. CallsRight'
      BY <2>6, <3>0, <2>c, <2>d DEF Server!PortIsFree
    <3> QED
      BY <2>0, <2>a, <3>0, <3>1
  <2>7. CASE Server!PortDeadline(c)
    <3>1. CallsRight'
      BY <2>7, <2>d DEF Server!PortDeadline
    <3> QED
      BY <2>0, <2>7, <2>a, <3>1 DEF Server!PortDeadline
  <2>8. CASE Server!FindListener(c)
    <3>0. pc[c] = "find" /\ UNCHANGED <<port, current, pidFile, target, result>>
      BY <2>8 DEF Server!FindListener
    <3>1. CASE UNCHANGED state /\ Server!Goto(c, "find-other")
      BY <2>0, <2>a, <2>c, <3>0, <3>1
    <3>2. CASE Server!Listener # Server!Nothing
      <4>0. Server!Terminate(Server!Listener) /\ Server!Goto(c, "find-unlink")
        BY <2>8, <3>2 DEF Server!FindListener
      <4>1. Server!Listener \in Server!Processes /\ Server!Listener # Server!Foreign
        BY <2>0, <3>2 DEF Pids, Server!Listener, Server!IsOpencode, Server!Nothing, Server!Foreign
      <4> QED
        BY <2>0, <2>b, <2>c, <3>0, <4>0, <4>1, TerminateKeeps
    <3> QED
      BY <2>8, <3>1, <3>2 DEF Server!FindListener
  <2>9. CASE Server!FindOther(c)
    <3>0. pc[c] # "done" /\ UNCHANGED <<state, port, current, pidFile, target>>
      BY <2>9 DEF Server!FindOther
    <3>1. CallsRight'
      BY <2>9, <3>0, <2>c, <2>d DEF Server!FindOther, Server!Nothing
    <3> QED
      BY <2>0, <2>a, <3>0, <3>1
  <2>10. CASE Server!Spawn(c)
    <3>0. pc[c] = "spawn" /\ UNCHANGED <<port, current, pidFile, result>> /\ Server!Goto(c, "write")
      BY <2>10 DEF Server!Spawn
    <3>1. PICK p \in Server!Processes \ {Server!Foreign, 1} :
            state' = [state EXCEPT ![p] = "starting"] /\ target' = [target EXCEPT ![c] = p]
      BY <2>10 DEF Server!Spawn
    <3>2. StatesKept'
      BY <2>0, <3>1, Bounds DEF StatesKept, States, Server!ForeignSurvives, Server!Processes, Server!Foreign
    <3>3. p \in Pids /\ port # 1
      BY <2>0, <3>0 DEF Pids, CallsRight
    <3>4. CallsRight'
      BY <2>0, <3>0, <3>1, <3>3, CallKeeps
    <3> QED
      BY <2>0, <2>b, <3>0, <3>2, <3>4
  <2>11. CASE Server!WritePidFile(c)
    <3>0. /\ pc[c] = "write" /\ UNCHANGED <<state, port, current, target, result>>
          /\ pidFile' = target[c] /\ Server!Goto(c, "poll")
      BY <2>11 DEF Server!WritePidFile
    <3>1. CallsRight'
      BY <2>0, <2>c, <3>0 DEF CallsRight
    <3> QED
      BY <2>0, <2>a, <3>0, <3>1
  <2>12. CASE Server!Poll(c)
    <3>0. pc[c] = "poll" /\ port # 1 /\ UNCHANGED <<state, port, current, pidFile>>
      BY <2>0, <2>12 DEF Server!Poll, CallsRight
    <3>1. CASE Server!Return(c, "error") /\ UNCHANGED target
      BY <2>0, <2>a, <2>d, <3>0, <3>1
    <3>2. CASE Server!Healthy /\ Server!Return(c, "ok") /\ target' = [target EXCEPT ![c] = port]
      <4>1. port \in Server!Processes \ {1}
        BY <2>0, <3>0, <3>2 DEF Server!Healthy, Server!Listener, Pids
      <4>2. current[port]
        BY <2>0, <4>1
      <4> QED
        BY <2>0, <2>a, <3>0, <3>2, <4>2, CallKeeps
    <3> QED
      BY <2>12, <3>1, <3>2 DEF Server!Poll
  <2> QED
    BY <1>1, <2>1, <2>2, <2>3, <2>4, <2>5, <2>6, <2>7, <2>8, <2>9, <2>10, <2>11, <2>12
       DEF Server!Step
<1>2. ASSUME NEW p \in Server!Processes, Server!Bind(p) PROVE ServerInv'
  <2> USE Bounds DEF Server!Processes, Server!Foreign, Server!Nothing
  <2>1. StatesKept'
    BY <1>2 DEF Server!Bind, ServerInv, StatesKept, States, Server!ForeignSurvives
  <2>2. port' \in Pids /\ port' \in {port, p} /\ p # 1 /\ pidFile' = pidFile
    BY <1>2 DEF Server!Bind, ServerInv, StatesKept, Pids
  <2>3. UNCHANGED <<pc, target, result, current>>
    BY <1>2 DEF Server!Bind, Server!calls
  <2> QED
    BY <2>1, <2>2, <2>3 DEF ServerInv, CallsRight
<1>3. ASSUME NEW p \in Server!Processes, Server!Exit(p) PROVE ServerInv'
  <2> USE Bounds DEF Server!Processes, Server!Foreign, Server!Nothing
  <2>1. StatesKept'
    BY <1>3 DEF Server!Exit, ServerInv, StatesKept, States, Server!ForeignSurvives
  <2>2. port' \in Pids /\ port' \in {port, Server!Nothing} /\ pidFile' = pidFile
    BY <1>3 DEF Server!Exit, ServerInv, Pids
  <2>3. UNCHANGED <<pc, target, result, current>>
    BY <1>3 DEF Server!Exit, Server!calls
  <2> QED
    BY <2>1, <2>2, <2>3 DEF ServerInv, CallsRight
<1> QED
  BY <1>1, <1>2, <1>3 DEF Server!Next

(* However many command lines start, replace and stop the server at once,   *)
(* none signals a process that is not OpenCode, and none is given a server  *)
(* of another version than its own (opencode/server.ts:141).                *)
THEOREM ServerStaysRight == Spec => []ServerIsRight
<1> DEFINE Inv == backend = "server" => ServerInv
<1>1. Init => Inv
  BY ServerStarts DEF Init
<1>2. Inv /\ [Next]_vars => Inv'
  <2> SUFFICES ASSUME Inv, [Next]_vars, backend' = "server" PROVE ServerInv'
    OBVIOUS
  <2>1. CASE PrepareServer
    BY <2>1, ServerStep DEF PrepareServer, Only
  <2>2. CASE RunOpenCode \/ RunClaude \/ RunCursor
    BY <2>2 DEF RunOpenCode, RunClaude, RunCursor, Only
  <2>3. CASE UNCHANGED vars
    BY <2>3 DEF vars, onlyServer, ServerInv, StatesKept, CallsRight, Server!ForeignSurvives
  <2> QED
    BY <2>1, <2>2, <2>3 DEF Next
<1>3. Inv => ServerIsRight
  BY DEF ServerInv, StatesKept, CallsRight, ServerIsRight, Server!ServerIsCurrent
<1> QED
  BY <1>1, <1>2, <1>3, PTL DEF Spec
-----------------------------------------------------------------------------
(* An OpenCode review                                                       *)

Fields == {"n", "state", "value", "error", "response", "current", "via", "armed", "timeout"}

(* An attempt is pending without an error, or settled by a source of its    *)
(* own, with the buffer as its value.                                       *)
AttemptRight(a) ==
  /\ a = [f \in Fields |-> a[f]]
  /\ OpenCode!LooksComplete(a.response) => OpenCode!Settled(a) /\ a.error # "timeout"
  /\ ~OpenCode!Settled(a) => a.error = "none" /\ a.via = "none"
  /\ a.state = "resolved" => a.value = a.response /\ a.response # OpenCode!NoText
  /\ a.via = "look" => a.value \notin ToSet(rejected)

(* What was rejected is ignored by every look, and a look that has found a  *)
(* text belongs to the attempt that asked for it.                           *)
OpenCodeInv ==
  /\ AttemptRight(att)
  /\ rejected \in Seq(ignored)
  /\ look.type = "text" => look.text \notin ignored

LEMMA AcceptKeeps ==
  ASSUME NEW a, AttemptRight(a), NEW t, NEW byEvent \in BOOLEAN,
         ~byEvent => t \notin ToSet(rejected)
  PROVE  AttemptRight(OpenCode!AcceptText(a, t, byEvent))
<1> DEFINE b == OpenCode!Buffer(a, t, byEvent)
<1>1. CASE OpenCode!Settled(a)
  BY <1>1 DEF OpenCode!AcceptText
<1>2. CASE ~OpenCode!Settled(a)
  <2>1. /\ b = [f \in Fields |-> b[f]] /\ b.response \in {t, a.response}
        /\ \A f \in Fields \ {"current", "response"} : b[f] = a[f]
    BY DEF AttemptRight, OpenCode!Buffer, Fields
  <2> HIDE DEF b
  <2>2. b.state = "pending" /\ b.error = "none" /\ b.via = "none"
    BY <1>2, <2>1 DEF AttemptRight, OpenCode!Settled, Fields
  <2>3. CASE OpenCode!LooksComplete(b.response)
    <3>1. b.response = t /\ b.response # OpenCode!NoText
      BY <1>2, <2>1, <2>3 DEF AttemptRight, OpenCode!LooksComplete, OpenCode!NoText
    <3>2. OpenCode!AcceptText(a, t, byEvent) =
            [b EXCEPT !.state = "resolved", !.value = b.response,
                      !.via = IF byEvent THEN "event" ELSE "look"]
      BY <1>2, <2>2, <2>3 DEF OpenCode!AcceptText, OpenCode!Resolve, OpenCode!Settled, b
    <3> QED
      BY <2>1, <2>2, <3>1, <3>2 DEF AttemptRight, OpenCode!Settled, Fields
  <2>4. CASE ~OpenCode!LooksComplete(b.response)
    <3>1. OpenCode!AcceptText(a, t, byEvent) = b
      BY <1>2, <2>4 DEF OpenCode!AcceptText, b
    <3> QED
      BY <2>1, <2>2, <2>4, <3>1 DEF AttemptRight, OpenCode!Settled
  <2> QED
    BY <2>3, <2>4
<1> QED
  BY <1>1, <1>2

LEMMA RejectKeeps ==
  ASSUME NEW a, AttemptRight(a), NEW error
  PROVE  AttemptRight(OpenCode!Reject(a, error))
<1>1. CASE OpenCode!Settled(a)
  BY <1>1 DEF OpenCode!Reject
<1>2. CASE ~OpenCode!Settled(a)
  BY <1>2 DEF OpenCode!Reject, AttemptRight, OpenCode!Settled, Fields
<1> QED
  BY <1>1, <1>2

LEMMA FinishKeeps ==
  ASSUME NEW a, AttemptRight(a)
  PROVE  AttemptRight(OpenCode!Finish(a))
<1>1. CASE a.response # OpenCode!NoText
  BY <1>1 DEF OpenCode!Finish, OpenCode!Resolve, AttemptRight, OpenCode!Settled, Fields
<1>2. CASE a.response = OpenCode!NoText
  BY <1>2, RejectKeeps DEF OpenCode!Finish
<1> QED
  BY <1>1, <1>2

LEMMA NewAttemptRight ==
  ASSUME NEW n PROVE AttemptRight(OpenCode!NewAttempt(n))
BY DEF AttemptRight, OpenCode!NewAttempt, OpenCode!LooksComplete, OpenCode!NoText, OpenCode!Settled,
       Fields

(* A step that leaves the looks alone has to show its attempt only.         *)
LEMMA AttemptOnly ==
  ASSUME OpenCodeInv, UNCHANGED <<look, rejected, ignored>>, AttemptRight(att')
  PROVE  OpenCodeInv'
BY DEF OpenCodeInv, AttemptRight

LEMMA OpenCodeStep ==
  ASSUME OpenCodeInv, OpenCode!Next PROVE OpenCodeInv'
<1> USE DEF OpenCode!client, OpenCode!server, OpenCode!memory
<1>0. AttemptRight(att)
  BY DEF OpenCodeInv
<1>1. CASE \/ OpenCode!SetupStep \/ OpenCode!SetupFails \/ OpenCode!PromptAccepted
           \/ OpenCode!PromptFails \/ OpenCode!AttemptFails \/ OpenCode!Cancel
  <2>1. UNCHANGED <<att, look, rejected, ignored>>
    BY <1>1 DEF OpenCode!SetupStep, OpenCode!SetupFails, OpenCode!PromptAccepted,
                OpenCode!PromptFails, OpenCode!AttemptFails, OpenCode!Cancel
  <2> QED
    BY <1>0, <2>1, AttemptOnly
<1>2. CASE OpenCode!OpenStream
  BY <1>2, NewAttemptRight, AttemptOnly DEF OpenCode!OpenStream
<1>3. CASE OpenCode!Candidate
  <2>1. CASE OpenCode!Retry
    <3>0. att.state = "resolved"
      BY <1>3 DEF OpenCode!Candidate
    <3>1. att.value = att.response /\ att.response # OpenCode!NoText
      BY <1>0, <3>0 DEF AttemptRight
    <3>2. /\ ignored' = ignored \cup {att.response} /\ rejected' = Append(rejected, att.value)
          /\ att' = OpenCode!NewAttempt(att.n + 1) /\ look' = OpenCode!Look("idle")
      BY <2>1, <3>1 DEF OpenCode!Retry
    <3>3. rejected' \in Seq(ignored')
      BY <3>1, <3>2 DEF OpenCodeInv
    <3>4. AttemptRight(att)'
      BY <3>2 DEF AttemptRight, OpenCode!NewAttempt, OpenCode!LooksComplete, OpenCode!NoText,
                  OpenCode!Settled, Fields
    <3> QED
      BY <3>2, <3>3, <3>4 DEF OpenCodeInv, OpenCode!Look
  <2>2. CASE ~OpenCode!Retry
    <3>1. UNCHANGED <<att, look, rejected, ignored>>
      BY <1>3, <2>2 DEF OpenCode!Candidate
    <3> QED
      BY <1>0, <3>1, AttemptOnly
  <2> QED
    BY <2>1, <2>2
<1>4. CASE OpenCode!Deliver
  <2>0. UNCHANGED <<look, rejected, ignored>>
    BY <1>4 DEF OpenCode!Deliver
  <2>1. AttemptRight(att')
    <3>1. CASE OpenCode!Ignore
      BY <1>0, <3>1 DEF OpenCode!Ignore
    <3>2. ASSUME NEW e, OpenCode!TextPart(e) PROVE AttemptRight(att')
      <4> DEFINE t == parts'[e.msg]
      <4>1. AttemptRight(OpenCode!AcceptText(att, t, TRUE))
        BY <1>0, AcceptKeeps
      <4>2. att' = att \/ att' = OpenCode!AcceptText(att, t, TRUE)
        BY <3>2 DEF OpenCode!TextPart, OpenCode!Ignore
      <4> QED
        BY <1>0, <4>1, <4>2
    <3>3. ASSUME NEW e, OpenCode!AssistantMessage(e) PROVE AttemptRight(att')
      BY <1>0, <3>3, AcceptKeeps, RejectKeeps DEF OpenCode!AssistantMessage, OpenCode!Ignore
    <3>4. CASE OpenCode!SessionIdle
      BY <1>0, <3>4, FinishKeeps DEF OpenCode!SessionIdle
    <3>5. CASE OpenCode!SessionError
      BY <1>0, <3>5, RejectKeeps DEF OpenCode!SessionError
    <3> QED
      BY <1>4, <3>1, <3>2, <3>3, <3>4, <3>5 DEF OpenCode!Deliver
  <2> QED
    BY <2>0, <2>1, AttemptOnly
<1>5. CASE OpenCode!StreamEnds \/ OpenCode!StreamThrows
  <2>1. UNCHANGED <<look, rejected, ignored>>
    BY <1>5 DEF OpenCode!StreamEnds, OpenCode!StreamThrows
  <2>2. AttemptRight(att')
    BY <1>0, <1>5, FinishKeeps, RejectKeeps DEF OpenCode!StreamEnds, OpenCode!StreamThrows
  <2> QED
    BY <2>1, <2>2, AttemptOnly
<1>6. CASE OpenCode!TimeLimit
  <2>1. AttemptRight(att')
    BY <1>0, <1>6 DEF OpenCode!TimeLimit, AttemptRight, OpenCode!Settled, Fields
  <2>2. UNCHANGED <<rejected, ignored>> /\ (look' = look \/ look' = OpenCode!Look("asked"))
    BY <1>6 DEF OpenCode!TimeLimit
  <2> QED
    BY <2>1, <2>2 DEF OpenCodeInv, AttemptRight, OpenCode!Look
<1>7. CASE OpenCode!IntervalFires
  BY <1>0, <1>7 DEF OpenCode!IntervalFires, OpenCodeInv, AttemptRight, OpenCode!Look
<1>8. CASE OpenCode!ServerAnswersLook
  <2>1. UNCHANGED <<att, rejected, ignored>> /\ look' = OpenCode!SessionMessageResult
    BY <1>8 DEF OpenCode!ServerAnswersLook
  <2>2. look'.type = "text" => look'.text \notin ignored
    <3>1. CASE OpenCode!Newest = {}
      BY <2>1, <3>1 DEF OpenCode!SessionMessageResult, OpenCode!Look
    <3>2. CASE OpenCode!Newest # {}
      <4> DEFINE m == CHOOSE m \in OpenCode!Newest : TRUE
      <4>1. m \in OpenCode!Newest
        BY <3>2
      <4>2. OpenCode!Telling(m)
        BY <4>1 DEF OpenCode!Newest
      <4>3. look' = IF log[m].kind = "failed" THEN OpenCode!Look("failed")
                    ELSE [type |-> "text", text |-> OpenCode!TextOf(m)]
        BY <2>1, <3>2 DEF OpenCode!SessionMessageResult
      <4> HIDE DEF m
      <4> QED
        BY <4>2, <4>3 DEF OpenCode!Telling, OpenCode!Look
    <3> QED
      BY <3>1, <3>2
  <2> QED
    BY <2>1, <2>2 DEF OpenCodeInv, AttemptRight
<1>9. CASE OpenCode!LookReturns \/ OpenCode!LookFails
  <2>0. /\ UNCHANGED <<rejected, ignored>> /\ look' = OpenCode!Look("idle")
    BY <1>9 DEF OpenCode!LookReturns, OpenCode!LookFails
  <2>1. ASSUME NEW a, AttemptRight(a) PROVE AttemptRight(OpenCode!Expire(a))
    BY <2>1, RejectKeeps DEF OpenCode!Expire
  <2>2. look.type = "text" => look.text \notin ToSet(rejected)
    BY DEF OpenCodeInv, ToSet
  <2>3. look.type = "text" => AttemptRight(OpenCode!AcceptText(att, look.text, FALSE))
    BY <1>0, <2>2, AcceptKeeps
  <2>4. AttemptRight(att')
    <3>1. CASE OpenCode!LookReturns
      BY <1>0, <2>1, <2>3, <3>1, RejectKeeps DEF OpenCode!LookReturns
    <3>2. CASE OpenCode!LookFails
      BY <1>0, <2>1, <3>2 DEF OpenCode!LookFails
    <3> QED
      BY <1>9, <3>1, <3>2
  <2> QED
    BY <2>0, <2>4 DEF OpenCodeInv, AttemptRight, OpenCode!Look
<1>10. CASE OpenCode!ServerNext
  <2>1. UNCHANGED <<att, look, rejected, ignored>>
    BY <1>10 DEF OpenCode!ServerNext, OpenCode!AgentTakes, OpenCode!AgentWrites,
                 OpenCode!AgentFails, OpenCode!SessionFails, OpenCode!AgentIdle
  <2> QED
    BY <1>0, <2>1, AttemptOnly
<1> QED
  BY <1>1, <1>2, <1>3, <1>4, <1>5, <1>6, <1>7, <1>8, <1>9, <1>10
     DEF OpenCode!Next, OpenCode!ClientNext

(* However the events, the looks at the stored messages and the time limit  *)
(* race, a complete answer in the buffer settles its attempt and is never   *)
(* timed out on, and no look settles a retry with a text that was rejected  *)
(* before (opencode/settlement.ts:63, client.ts:489).                       *)
THEOREM OpenCodeAlwaysSettles == Spec => []OpenCodeSettles
<1> DEFINE Inv == backend = "opencode" => OpenCodeInv
<1>1. Init => Inv
  <2> SUFFICES ASSUME Init, backend = "opencode" PROVE OpenCodeInv
    OBVIOUS
  <2>1. OpenCode!Init
    BY DEF Init
  <2>2. AttemptRight(att)
    BY <2>1 DEF OpenCode!Init, AttemptRight, OpenCode!NewAttempt, OpenCode!LooksComplete,
                OpenCode!NoText, OpenCode!Settled, Fields
  <2> QED
    BY <2>1, <2>2 DEF OpenCode!Init, OpenCodeInv, OpenCode!Look
<1>2. Inv /\ [Next]_vars => Inv'
  <2> SUFFICES ASSUME Inv, [Next]_vars, backend' = "opencode" PROVE OpenCodeInv'
    OBVIOUS
  <2>1. CASE RunOpenCode
    BY <2>1, OpenCodeStep DEF RunOpenCode, Only
  <2>2. CASE PrepareServer \/ RunClaude \/ RunCursor
    BY <2>2 DEF PrepareServer, RunClaude, RunCursor, Only
  <2>3. CASE UNCHANGED vars
    BY <2>3 DEF vars, onlyOpenCode, OpenCodeInv, AttemptRight
  <2> QED
    BY <2>1, <2>2, <2>3 DEF Next
<1>3. Inv => OpenCodeSettles
  <2>1. AttemptRight(att) => OpenCode!CompleteSettles /\ OpenCode!LookIsFresh
    BY DEF AttemptRight, OpenCode!CompleteSettles, OpenCode!LookIsFresh, ToSet, OpenCode!ToSet
  <2> QED
    BY <2>1 DEF OpenCodeInv, OpenCodeSettles
<1> QED
  BY <1>1, <1>2, <1>3, PTL DEF Spec
=============================================================================
