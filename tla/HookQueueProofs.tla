-------------------------- MODULE HookQueueProofs --------------------------
(***************************************************************************)
(* No commit is lost from the post-commit review queue, and a worker tries *)
(* all it was started for, for any number of hooks and commits, overlapping*)
(* or not, with kills at any step.  The invariant says where a marker can  *)
(* go: only a worker that read a success unlinks it (SuccessIsReal),       *)
(* success is only written with the commit reviewed, and a hook's own      *)
(* half-written marker is covered as well (CreatedIsKept).  Assigned keeps *)
(* every step on the commit it is about, and OwedIsListed keeps what a     *)
(* worker owes readable and in the snapshot it judges.                     *)
(***************************************************************************)
EXTENDS HookQueue, TLAPS

LEMMA InitIInv == Init => IInv
BY NoneAssumption DEF Init, IInv, TypeOK, Assigned, CreatedIsKept, SuccessIsReal,
  NoCommitLost, OwedIsListed, HookSteps, HookEnds, WorkerSteps, WorkerEnds, Busy

(* A step of a hook-run process. *)
LEMMA HookType ==
  ASSUME IInv, NEW h \in Hooks, StartHook(h) \/ HookNext(h) \/ CrashHook(h)
  PROVE TypeOK'
<1> USE DEF IInv, TypeOK, Assigned, HookSteps, HookEnds, WorkerSteps, WorkerEnds,
      Busy, Pids, files, hookVars, workerVars
<1>1. CASE StartHook(h) BY <1>1 DEF StartHook
<1>2. CASE Enqueue(h) BY <1>2 DEF Enqueue
<1>3. CASE CreateMarker(h) BY <1>3 DEF CreateMarker
<1>4. CASE WriteMarker(h) BY <1>4 DEF WriteMarker
<1>5. CASE OpenLock(h) BY <1>5 DEF OpenLock
<1>6. CASE WriteLockPid(h) BY <1>6 DEF WriteLockPid, HookPid
<1>7. CASE InspectLock(h) BY <1>7 DEF InspectLock
<1>8. CASE BreakLock(h) BY <1>8 DEF BreakLock
<1>9. CASE SpawnWorker(h) BY <1>9 DEF SpawnWorker
<1>10. CASE LoadConfigFails(h) BY <1>10 DEF LoadConfigFails
<1>11. CASE SpawnFails(h) BY <1>11 DEF SpawnFails
<1>12. CASE RecordWorker(h) BY <1>12 DEF RecordWorker, WorkerPid
<1>13. CASE CrashHook(h) BY <1>13 DEF CrashHook, HookAlive
<1> QED BY <1>1, <1>2, <1>3, <1>4, <1>5, <1>6, <1>7, <1>8, <1>9, <1>10, <1>11,
  <1>12, <1>13 DEF HookNext

LEMMA HookKeeps ==
  ASSUME IInv, NEW h \in Hooks, StartHook(h) \/ HookNext(h) \/ CrashHook(h)
  PROVE IInv'
<1> USE NoneAssumption DEF IInv, TypeOK, Assigned, CreatedIsKept, SuccessIsReal,
      NoCommitLost, OwedIsListed, Busy, files, hookVars, workerVars
<1>0. TypeOK' BY HookType
<1>1. CASE StartHook(h) BY <1>0, <1>1 DEF StartHook
<1>2. CASE Enqueue(h) BY <1>0, <1>2 DEF Enqueue
<1>3. CASE CreateMarker(h) BY <1>0, <1>3 DEF CreateMarker
<1>4. CASE WriteMarker(h) BY <1>0, <1>4 DEF WriteMarker
<1>5. CASE OpenLock(h) BY <1>0, <1>5 DEF OpenLock
<1>6. CASE WriteLockPid(h) BY <1>0, <1>6 DEF WriteLockPid
<1>7. CASE InspectLock(h) BY <1>0, <1>7 DEF InspectLock
<1>8. CASE BreakLock(h) BY <1>0, <1>8 DEF BreakLock
<1>9. CASE SpawnWorker(h) BY <1>0, <1>9 DEF SpawnWorker
<1>10. CASE LoadConfigFails(h) BY <1>0, <1>10 DEF LoadConfigFails
<1>11. CASE SpawnFails(h) BY <1>0, <1>11 DEF SpawnFails
<1>12. CASE RecordWorker(h) BY <1>0, <1>12 DEF RecordWorker
<1>13. CASE CrashHook(h) BY <1>0, <1>13 DEF CrashHook, HookAlive, HookSteps
<1> QED BY <1>1, <1>2, <1>3, <1>4, <1>5, <1>6, <1>7, <1>8, <1>9, <1>10, <1>11,
  <1>12, <1>13 DEF HookNext

(* A step of a hook-worker process. *)
LEMMA WorkerType ==
  ASSUME IInv, NEW w \in Hooks, WorkerNext(w) \/ CrashWorker(w)
  PROVE TypeOK'
<1> USE DEF IInv, TypeOK, Assigned, HookSteps, HookEnds, WorkerSteps, WorkerEnds,
      Busy, Pids, files, hookVars, workerVars
<1>1. CASE ListDirectory(w) BY <1>1 DEF ListDirectory, Step
<1>2. CASE ReadMarkers(w)
  <2>1. result' \in [Commits -> {"absent", "started", "ok", "failed", "stop"}]
    BY <1>2 DEF ReadMarkers
  <2>2. names' \in [Hooks -> SUBSET Commits] /\ results' \in [Hooks -> SUBSET Commits]
    BY <1>2 DEF ReadMarkers
  <2>3. /\ wpc' \in [Hooks -> {"idle"} \cup WorkerSteps \cup WorkerEnds]
        /\ cur' \in [Hooks -> Commits \cup {None}] /\ tried' \in [Hooks -> SUBSET Commits]
    <3>1. CASE Untried(w) = {}
      BY <1>2, <3>1 DEF ReadMarkers
    <3>2. CASE Untried(w) # {}
      <4>1. PICK c \in Untried(w) :
              /\ cur' = [cur EXCEPT ![w] = c] /\ tried' = [tried EXCEPT ![w] = @ \cup {c}]
              /\ wpc' = [wpc EXCEPT ![w] = "mark"]
        BY <1>2, <3>2 DEF ReadMarkers
      <4>2. c \in Commits
        BY DEF Untried, Readable
      <4> QED
        BY <4>1, <4>2
    <3> QED
      BY <3>1, <3>2
  <2>4. UNCHANGED <<lock, marker, queuedAt, hookVars, child, clock, reviewed, queued, owed>>
    BY <1>2 DEF ReadMarkers
  <2> QED
    BY <2>1, <2>2, <2>3, <2>4
<1>3. CASE MarkAttempt(w) BY <1>3 DEF MarkAttempt, Step
<1>4. CASE WorkerThrows(w) BY <1>4 DEF WorkerThrows, Step
<1>5. CASE RunChild(w) BY <1>5 DEF RunChild, Step
<1>6. CASE ChildRunFails(w) BY <1>6 DEF ChildRunFails, Step
<1>7. CASE ChildReturned(w) BY <1>7 DEF ChildReturned, Step
<1>8. CASE JudgeResult(w) BY <1>8 DEF JudgeResult, Succeeded, StopsQueue, Swept
<1>9. CASE UnlinkMarker(w) BY <1>9 DEF UnlinkMarker, Step
<1>10. CASE UnlinkMarkerFails(w) BY <1>10 DEF UnlinkMarkerFails, Step
<1>11. CASE UnlinkResult(w) BY <1>11 DEF UnlinkResult, Step
<1>12. CASE PersistWorkerFailure(w) BY <1>12 DEF PersistWorkerFailure, Step, Swept
<1>13. CASE ExitWorker(w) BY <1>13 DEF ExitWorker, Step, ForgetWorker
<1>14. CASE CrashWorker(w) BY <1>14 DEF CrashWorker, WorkerAlive, ForgetWorker
<1> QED BY <1>1, <1>2, <1>3, <1>4, <1>5, <1>6, <1>7, <1>8, <1>9, <1>10, <1>11,
  <1>12, <1>13, <1>14 DEF WorkerNext

LEMMA WorkerKeeps ==
  ASSUME IInv, NEW w \in Hooks, WorkerNext(w) \/ CrashWorker(w)
  PROVE IInv'
<1> USE NoneAssumption DEF IInv, TypeOK, Assigned, CreatedIsKept, SuccessIsReal,
      NoCommitLost, OwedIsListed, Busy, files, hookVars, workerVars
<1>0. TypeOK' BY WorkerType
<1>1. CASE ListDirectory(w) BY <1>0, <1>1 DEF ListDirectory, Step
<1>2. CASE ReadMarkers(w) BY <1>0, <1>2 DEF ReadMarkers, Untried, Readable
<1>3. CASE MarkAttempt(w) BY <1>0, <1>3 DEF MarkAttempt, Step
<1>4. CASE WorkerThrows(w) BY <1>0, <1>4 DEF WorkerThrows, Step
<1>5. CASE RunChild(w) BY <1>0, <1>5 DEF RunChild, Step
<1>6. CASE ChildRunFails(w) BY <1>0, <1>6 DEF ChildRunFails, Step
<1>7. CASE ChildReturned(w) BY <1>0, <1>7 DEF ChildReturned, Step
<1>8. CASE JudgeResult(w) BY <1>0, <1>8 DEF JudgeResult, Succeeded, StopsQueue,
  Swept
<1>9. CASE UnlinkMarker(w) BY <1>0, <1>9 DEF UnlinkMarker, Step
<1>10. CASE UnlinkMarkerFails(w) BY <1>0, <1>10 DEF UnlinkMarkerFails, Step
<1>11. CASE UnlinkResult(w) BY <1>0, <1>11 DEF UnlinkResult, Step
<1>12. CASE PersistWorkerFailure(w) BY <1>0, <1>12 DEF PersistWorkerFailure,
  Step, Swept
<1>13. CASE ExitWorker(w) BY <1>0, <1>13 DEF ExitWorker, Step, ForgetWorker
<1>14. CASE CrashWorker(w) BY <1>0, <1>14 DEF CrashWorker, WorkerAlive,
  ForgetWorker, WorkerSteps
<1> QED BY <1>1, <1>2, <1>3, <1>4, <1>5, <1>6, <1>7, <1>8, <1>9, <1>10, <1>11,
  <1>12, <1>13, <1>14 DEF WorkerNext

(* A step of a review child. *)
LEMMA ReviewType ==
  ASSUME IInv, NEW w \in Hooks, ChildNext(w)
  PROVE TypeOK'
<1> USE DEF IInv, TypeOK, Assigned, HookSteps, HookEnds, WorkerSteps, WorkerEnds,
      Busy, Pids, files, hookVars, workerVars
<1>1. CASE StartReview(w) BY <1>1 DEF StartReview
<1>2. CASE FinishReview(w) BY <1>2 DEF FinishReview
<1>3. CASE KillReview(w) BY <1>3 DEF KillReview
<1> QED BY <1>1, <1>2, <1>3 DEF ChildNext

LEMMA ReviewKeeps ==
  ASSUME IInv, NEW w \in Hooks, ChildNext(w)
  PROVE IInv'
<1> USE NoneAssumption DEF IInv, TypeOK, Assigned, CreatedIsKept, SuccessIsReal,
      NoCommitLost, OwedIsListed, Busy, files, hookVars, workerVars
<1>0. TypeOK' BY ReviewType
<1>1. CASE StartReview(w) BY <1>0, <1>1 DEF StartReview
<1>2. CASE FinishReview(w) BY <1>0, <1>2 DEF FinishReview
<1>3. CASE KillReview(w) BY <1>0, <1>3 DEF KillReview
<1> QED BY <1>1, <1>2, <1>3 DEF ChildNext

LEMMA StutterKeeps == IInv /\ UNCHANGED vars => IInv'
BY DEF IInv, TypeOK, Assigned, CreatedIsKept, SuccessIsReal, NoCommitLost,
     OwedIsListed, vars

(* The invariant holds in every reachable state. *)
THEOREM InvariantHolds == Spec => []IInv
<1>1. IInv /\ [Next]_vars => IInv'
  BY HookKeeps, WorkerKeeps, ReviewKeeps, StutterKeeps DEF Next
<1>2. QED BY InitIInv, <1>1, PTL DEF Spec

(* Every file and process stays within its type. *)
THEOREM TypeCorrect == Spec => []TypeOK
<1>1. IInv => TypeOK BY DEF IInv
<1>2. QED BY InvariantHolds, <1>1, PTL

(* A queued commit keeps its marker until it has been reviewed. *)
THEOREM NothingLost == Spec => []NoCommitLost
<1>1. IInv => NoCommitLost BY DEF IInv
<1>2. QED BY InvariantHolds, <1>1, PTL

(* A result that reads as success belongs to a completed review. *)
THEOREM SuccessCorrect == Spec => []SuccessIsReal
<1>1. IInv => SuccessIsReal BY DEF IInv
<1>2. QED BY InvariantHolds, <1>1, PTL

(* Whichever worker takes its next commit takes it off its own snapshot.    *)
LEMMA NextIsRead ==
  ASSUME IInv, [Next]_vars, NEW w \in Hooks, wpc[w] = "read", wpc'[w] = "mark"
  PROVE  ReadMarkers(w)
<1> USE DEF IInv, TypeOK
<1>1. ASSUME NEW h \in Hooks, StartHook(h) \/ CrashHook(h) \/ ChildNext(h) PROVE FALSE
  BY <1>1 DEF StartHook, CrashHook, ChildNext, StartReview, FinishReview, KillReview,
     workerVars
<1>2. ASSUME NEW h \in Hooks, HookNext(h) PROVE FALSE
  <2>1. CASE SpawnWorker(h)
    BY <2>1 DEF SpawnWorker
  <2>2. CASE ~SpawnWorker(h)
    BY <1>2, <2>2 DEF HookNext, Enqueue, CreateMarker, WriteMarker, OpenLock, WriteLockPid,
       InspectLock, BreakLock, LoadConfigFails, SpawnFails, RecordWorker, workerVars
  <2> QED
    BY <2>1, <2>2
<1>3. ASSUME NEW h \in Hooks, WorkerNext(h), ~ReadMarkers(h) PROVE FALSE
  BY <1>3 DEF WorkerNext, Step, ListDirectory, MarkAttempt, WorkerThrows, RunChild,
     ChildRunFails, ChildReturned, JudgeResult, UnlinkMarker, UnlinkMarkerFails,
     UnlinkResult, PersistWorkerFailure, ExitWorker
<1>4. ASSUME NEW h \in Hooks, CrashWorker(h) PROVE FALSE
  BY <1>4 DEF CrashWorker
<1>5. ASSUME NEW h \in Hooks, ReadMarkers(h) PROVE h = w
  BY <1>5 DEF ReadMarkers
<1>6. ~UNCHANGED vars
  BY DEF vars
<1> QED
  BY <1>1, <1>2, <1>3, <1>4, <1>5, <1>6 DEF Next

(* A first attempt goes before every retry: a commit that keeps failing     *)
(* cannot push itself in front of a new one.                                *)
THEOREM FirstAttemptsFirst == Spec => FreshBeforeRetry
<1>1. ASSUME IInv, [Next]_vars, NEW w \in Hooks, wpc[w] = "read", wpc'[w] = "mark",
             marker[cur'[w]] # "fresh", NEW c \in names[w] \ tried[w]
      PROVE  ~(marker[c] = "fresh" /\ c \notin results[w])
  <2>1. ReadMarkers(w)
    BY <1>1, NextIsRead
  <2>2. PICK d \in Untried(w) :
          (\A e \in Untried(w) : Precedes(w, d, e)) /\ cur' = [cur EXCEPT ![w] = d]
    BY <1>1, <2>1 DEF ReadMarkers, IInv, TypeOK
  <2>3. cur'[w] = d /\ d \in Commits /\ c \in Commits
    BY <1>1, <2>2 DEF IInv, TypeOK, Untried, Readable
  <2>4. IsRetry(w, d)
    BY <1>1, <2>2, <2>3 DEF Untried, Readable, IsRetry
  <2>5. SUFFICES ASSUME marker[c] = "fresh", c \notin results[w] PROVE FALSE
    OBVIOUS
  <2>6. c \in Untried(w) /\ ~IsRetry(w, c)
    BY <1>1, <2>3, <2>5 DEF Untried, Readable, IsRetry
  <2> QED
    BY <2>2, <2>4, <2>6 DEF Precedes
<1>2. ASSUME IInv, [Next]_vars
      PROVE  [\A w \in Hooks : wpc[w] = "read" /\ wpc'[w] = "mark" =>
                \/ marker[cur'[w]] = "fresh"
                \/ \A c \in names[w] \ tried[w] :
                     ~(marker[c] = "fresh" /\ c \notin results[w])]_vars
  BY <1>1, <1>2
<1> QED
  BY InvariantHolds, <1>2, PTL DEF Spec, FreshBeforeRetry

(* A worker that leaves does so after a read that found nothing untried,    *)
(* after a throw, or after a result that stops the queue.                   *)
LEMMA LeavingIsJustified ==
  ASSUME IInv, [Next]_vars, NEW w \in Hooks, wpc[w] # "exit", wpc'[w] = "exit"
  PROVE  \/ owed[w] \subseteq tried[w]
         \/ wpc[w] = "throw"
         \/ wpc[w] = "judge" /\ result[cur[w]] = "stop"
<1> USE DEF IInv, TypeOK
<1>1. ASSUME NEW h \in Hooks, StartHook(h) \/ CrashHook(h) \/ ChildNext(h) PROVE FALSE
  BY <1>1 DEF StartHook, CrashHook, ChildNext, StartReview, FinishReview, KillReview,
     workerVars
<1>2. ASSUME NEW h \in Hooks, HookNext(h) PROVE FALSE
  <2>1. CASE SpawnWorker(h)
    BY <2>1 DEF SpawnWorker
  <2>2. CASE ~SpawnWorker(h)
    BY <1>2, <2>2 DEF HookNext, Enqueue, CreateMarker, WriteMarker, OpenLock, WriteLockPid,
       InspectLock, BreakLock, LoadConfigFails, SpawnFails, RecordWorker, workerVars
  <2> QED
    BY <2>1, <2>2
<1>3. ASSUME NEW h \in Hooks, WorkerNext(h), ~ReadMarkers(h), ~JudgeResult(h),
             ~PersistWorkerFailure(h)
      PROVE FALSE
  BY <1>3 DEF WorkerNext, Step, ListDirectory, MarkAttempt, WorkerThrows, RunChild,
     ChildRunFails, ChildReturned, UnlinkMarker, UnlinkMarkerFails, UnlinkResult,
     ExitWorker
<1>4. ASSUME NEW h \in Hooks, CrashWorker(h) PROVE FALSE
  BY <1>4 DEF CrashWorker
<1>5. ASSUME NEW h \in Hooks, ReadMarkers(h) PROVE owed[w] \subseteq tried[w]
  <2>1. h = w /\ Untried(w) = {} /\ wpc[w] = "read"
    BY <1>5 DEF ReadMarkers
  <2> QED
    BY <2>1 DEF OwedIsListed, Untried, Readable
<1>6. ASSUME NEW h \in Hooks, JudgeResult(h)
      PROVE wpc[w] = "judge" /\ result[cur[w]] = "stop"
  BY <1>6 DEF JudgeResult, StopsQueue
<1>7. ASSUME NEW h \in Hooks, PersistWorkerFailure(h) PROVE wpc[w] = "throw"
  BY <1>7 DEF PersistWorkerFailure, Step
<1>8. ~UNCHANGED vars
  BY DEF vars
<1> QED
  BY <1>1, <1>2, <1>3, <1>4, <1>5, <1>6, <1>7, <1>8 DEF Next

(* A worker that leaves by itself has tried all it was started for, for any *)
(* hooks and commits and wherever the others are.                           *)
THEOREM QueueIsTried == Spec => WorkerTriesQueue
<1>1. ASSUME IInv, [Next]_vars
      PROVE  [\A w \in Hooks : wpc[w] # "exit" /\ wpc'[w] = "exit" =>
                \/ owed[w] \subseteq tried[w]
                \/ wpc[w] = "throw"
                \/ wpc[w] = "judge" /\ result[cur[w]] = "stop"]_vars
  BY <1>1, LeavingIsJustified
<1> QED
  BY InvariantHolds, <1>1, PTL DEF Spec, WorkerTriesQueue
=============================================================================
