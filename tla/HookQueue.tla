----------------------------- MODULE HookQueue -----------------------------
(***************************************************************************)
(* The post-commit review queue of one checkout (src/src/git/hooks.ts and  *)
(* the hook-run, hook-worker and review --hook commands of src/src/cli.ts).*)
(*                                                                         *)
(* Every commit runs a short-lived `hook-run' process (a hook).  It writes *)
(* a pending marker for HEAD, tries to take .diffowl/hook-review.lock and, *)
(* if it gets it, starts a detached `hook-worker' process, the worker.     *)
(* The worker lists the markers and runs one `review --hook' child process *)
(* per commit; the child reports through a result file.  All coordination  *)
(* goes through files, each step below is one access to one of them, and   *)
(* every process can be killed between any two steps.                      *)
(*                                                                         *)
(* Abstractions: process ids are not reused, and a signal probe never      *)
(* answers EPERM; time stamps are a logical clock; a review failure is     *)
(* either one that stops the queue or an ordinary one.  Files the queue    *)
(* only writes for people to read are left out: last-hook-status.json,     *)
(* active-hook-review.json and hook.log.                                   *)
(***************************************************************************)
EXTENDS Naturals, FiniteSets

CONSTANTS Hooks,        \* the hook-run processes; each may start one worker
          Commits,      \* the commits HEAD can name
          SerialHooks,  \* TRUE: no two hook-run processes overlap
          MaxKills,     \* bound on the hooks and workers killed, at any step
          None          \* no commit, no hook, no process id

ASSUME NoneAssumption == None \notin Hooks /\ None \notin Commits
ASSUME ModeAssumption == SerialHooks \in BOOLEAN /\ MaxKills \in Nat

HookPid(h) == <<"hook", h>>
WorkerPid(w) == <<"worker", w>>
Pids == {"hook", "worker"} \X Hooks

VARIABLES
  (* files *)
  lock,      \* hook-review.lock: None, or who created it and the pid in it
  marker,    \* pending-reviews/<sha>: absent, torn (created, not yet written), ...
  queuedAt,  \* the queuedAt stamp in the marker
  result,    \* pending-reviews/<sha>.result.json
  (* processes *)
  hpc, head,              \* a hook's next step and the commit it queues
  wpc, cur, tried,        \* a worker's next step, its commit, the ones it tried
  names, results,         \* a worker's directory snapshot
  child,                  \* the review process a worker started for cur
  clock,                  \* source of time stamps
  (* history *)
  reviewed,  \* commits some child reviewed to the end
  queued,    \* commits enqueuePendingReview has returned for
  owed       \* per worker, the markers it could read when it was started and
             \* that nobody has removed or truncated since

files == <<lock, marker, queuedAt, result>>
hookVars == <<hpc, head>>
workerVars == <<wpc, cur, tried, names, results>>
vars == <<lock, marker, queuedAt, result, hpc, head, wpc, cur, tried, names,
          results, child, clock, reviewed, queued, owed>>

HookEnds == {"launched", "queued", "failed", "crashed"}
HookSteps == {"enqueue", "create", "write", "acquire", "writePid", "inspect",
              "break", "retry", "spawn", "record"}
WorkerEnds == {"exited", "crashed"}
WorkerSteps == {"list", "read", "mark", "run", "wait", "judge", "unlinkMarker",
                "unlinkResult", "throw", "exit"}

HookAlive(h) == hpc[h] \in HookSteps
WorkerAlive(w) == wpc[w] \in WorkerSteps
MayKill == Cardinality({h \in Hooks : hpc[h] = "crashed"})
           + Cardinality({w \in Hooks : wpc[w] = "crashed"}) < MaxKills
LivePids == {HookPid(h) : h \in {x \in Hooks : HookAlive(x)}}
            \cup {WorkerPid(w) : w \in {x \in Hooks : WorkerAlive(x)}}

TypeOK ==
  /\ lock \in {None} \cup [by : Hooks, pid : Pids \cup {None}]
  /\ marker \in [Commits -> {"absent", "torn", "fresh", "attempted"}]
  /\ queuedAt \in [Commits -> Nat]
  /\ result \in [Commits -> {"absent", "started", "ok", "failed", "stop"}]
  /\ hpc \in [Hooks -> {"idle"} \cup HookSteps \cup HookEnds]
  /\ head \in [Hooks -> Commits \cup {None}]
  /\ wpc \in [Hooks -> {"idle"} \cup WorkerSteps \cup WorkerEnds]
  /\ cur \in [Hooks -> Commits \cup {None}]
  /\ tried \in [Hooks -> SUBSET Commits]
  /\ names \in [Hooks -> SUBSET Commits]
  /\ results \in [Hooks -> SUBSET Commits]
  /\ child \in [Hooks -> {"none", "starting", "running", "exited", "killed"}]
  /\ clock \in Nat
  /\ reviewed \in SUBSET Commits
  /\ queued \in SUBSET Commits
  /\ owed \in [Hooks -> SUBSET Commits]

Init ==
  /\ lock = None
  /\ marker = [c \in Commits |-> "absent"]
  /\ queuedAt = [c \in Commits |-> 0]
  /\ result = [c \in Commits |-> "absent"]
  /\ hpc = [h \in Hooks |-> "idle"] /\ head = [h \in Hooks |-> None]
  /\ wpc = [h \in Hooks |-> "idle"] /\ cur = [h \in Hooks |-> None]
  /\ tried = [h \in Hooks |-> {}]
  /\ names = [h \in Hooks |-> {}] /\ results = [h \in Hooks |-> {}]
  /\ child = [h \in Hooks |-> "none"]
  /\ clock = 0
  /\ reviewed = {} /\ queued = {}
  /\ owed = [h \in Hooks |-> {}]

-----------------------------------------------------------------------------
(* hook-run: enqueuePendingReview, acquireHookReviewLock, runHookReview     *)

(* git runs the hook; it reads HEAD, which names some commit by then.       *)
StartHook(h) ==
  /\ hpc[h] = "idle"
  /\ SerialHooks => \A g \in Hooks : ~HookAlive(g)
  /\ \E c \in Commits : head' = [head EXCEPT ![h] = c]
  /\ hpc' = [hpc EXCEPT ![h] = "enqueue"]
  /\ UNCHANGED <<files, workerVars, child, clock, reviewed, queued, owed>>

(* existsSync(marker): an existing marker, even an unreadable one, is kept. *)
Enqueue(h) ==
  /\ hpc[h] = "enqueue"
  /\ IF marker[head[h]] = "absent"
       THEN /\ hpc' = [hpc EXCEPT ![h] = "create"]
            /\ UNCHANGED queued
       ELSE /\ hpc' = [hpc EXCEPT ![h] = "acquire"]
            /\ queued' = queued \cup {head[h]}
  /\ UNCHANGED <<files, head, workerVars, child, clock, reviewed, owed>>

(* writeFile opens with truncation before it writes.                        *)
CreateMarker(h) ==
  /\ hpc[h] = "create"
  /\ marker' = [marker EXCEPT ![head[h]] = "torn"]
  /\ hpc' = [hpc EXCEPT ![h] = "write"]
  /\ owed' = [w \in Hooks |-> owed[w] \ {head[h]}]
  /\ UNCHANGED <<lock, queuedAt, result, head, workerVars,
                 child, clock, reviewed, queued>>

(* The content reaches the file it opened, if a worker has not renamed its  *)
(* own over it or removed it since.                                         *)
WriteMarker(h) ==
  /\ hpc[h] = "write"
  /\ clock' = clock + 1
  /\ IF marker[head[h]] \in {"torn", "fresh"}
       THEN /\ marker' = [marker EXCEPT ![head[h]] = "fresh"]
            /\ queuedAt' = [queuedAt EXCEPT ![head[h]] = clock']
       ELSE UNCHANGED <<marker, queuedAt>>
  /\ queued' = queued \cup {head[h]}
  /\ hpc' = [hpc EXCEPT ![h] = "acquire"]
  /\ UNCHANGED <<lock, result, head, workerVars, child, reviewed, owed>>

(* openSync(lockFile, "wx") and its retry after breaking a stale lock.      *)
OpenLock(h) ==
  /\ hpc[h] \in {"acquire", "retry"}
  /\ IF lock = None
       THEN /\ lock' = [by |-> h, pid |-> None]
            /\ hpc' = [hpc EXCEPT ![h] = "writePid"]
       ELSE /\ hpc' = [hpc EXCEPT ![h] =
                         IF hpc[h] = "acquire" THEN "inspect" ELSE "queued"]
            /\ UNCHANGED lock
  /\ UNCHANGED <<marker, queuedAt, result, head, workerVars,
                 child, clock, reviewed, queued, owed>>

(* writeSync(fd, pid): lost if the file was unlinked in between.            *)
WriteLockPid(h) ==
  /\ hpc[h] = "writePid"
  /\ lock' = IF lock # None /\ lock.by = h
               THEN [lock EXCEPT !.pid = HookPid(h)] ELSE lock
  /\ hpc' = [hpc EXCEPT ![h] = "spawn"]
  /\ UNCHANGED <<marker, queuedAt, result, head, workerVars,
                 child, clock, reviewed, queued, owed>>

LockActive_EmptyCounts == lock # None /\ lock.pid \in LivePids \cup {None}
(* isHookReviewLockActive: a missing or empty lock file is not active.      *)
LockActive == lock # None /\ lock.pid \in LivePids

InspectLock(h) ==
  /\ hpc[h] = "inspect"
  /\ hpc' = [hpc EXCEPT ![h] = IF LockActive THEN "queued" ELSE "break"]
  /\ UNCHANGED <<files, head, workerVars, child, clock, reviewed, queued, owed>>

(* releaseHookReviewLock of a lock judged stale, whoever owns it by now.    *)
BreakLock(h) ==
  /\ hpc[h] = "break"
  /\ lock' = None
  /\ hpc' = [hpc EXCEPT ![h] = "retry"]
  /\ UNCHANGED <<marker, queuedAt, result, head, workerVars,
                 child, clock, reviewed, queued, owed>>

SpawnWorker(h) ==
  /\ hpc[h] = "spawn"
  /\ wpc' = [wpc EXCEPT ![h] = "list"]
  /\ owed' = [owed EXCEPT ![h] = {c \in Commits : marker[c] \in {"fresh", "attempted"}}]
  /\ hpc' = [hpc EXCEPT ![h] = "record"]
  /\ UNCHANGED <<files, head, cur, tried, names, results, child, clock, reviewed,
                 queued>>

(* loadConfig throws before the try block: the lock file stays behind.      *)
LoadConfigFails(h) ==
  /\ hpc[h] = "spawn"
  /\ hpc' = [hpc EXCEPT ![h] = "failed"]
  /\ UNCHANGED <<files, head, workerVars, child, clock, reviewed, queued, owed>>

(* The command cannot be resolved, or the worker not be spawned.            *)
SpawnFails(h) ==
  /\ hpc[h] = "spawn"
  /\ lock' = None
  /\ hpc' = [hpc EXCEPT ![h] = "failed"]
  /\ UNCHANGED <<marker, queuedAt, result, head, workerVars, child, clock,
                 reviewed, queued, owed>>

(* writeFileSync(lockFile, workerPid): whatever the file is by now, and     *)
(* whether or not the worker still runs.                                    *)
RecordWorker(h) ==
  /\ hpc[h] = "record"
  /\ lock' = [by |-> IF lock = None THEN h ELSE lock.by, pid |-> WorkerPid(h)]
  /\ hpc' = [hpc EXCEPT ![h] = "launched"]
  /\ UNCHANGED <<marker, queuedAt, result, head, workerVars,
                 child, clock, reviewed, queued, owed>>

CrashHook(h) ==
  /\ MayKill /\ HookAlive(h)
  /\ hpc' = [hpc EXCEPT ![h] = "crashed"]
  /\ UNCHANGED <<files, head, workerVars, child, clock, reviewed, queued, owed>>

-----------------------------------------------------------------------------
(* hook-worker: listPendingReviews and runPendingHookReviews                *)

Step(w, from, to) == wpc[w] = from /\ wpc' = [wpc EXCEPT ![w] = to]

(* readdir of pending-reviews.                                              *)
ListDirectory(w) ==
  /\ Step(w, "list", "read")
  /\ names' = [names EXCEPT ![w] = {c \in Commits : marker[c] # "absent"}]
  /\ results' = [results EXCEPT ![w] = {c \in Commits : result[c] # "absent"}]
  /\ UNCHANGED <<files, hookVars, cur, tried, child, clock, reviewed, queued, owed>>

(* The markers that parse; attemptedAt is optional in the schema.           *)
Readable(w) == {c \in names[w] : marker[c] \in {"fresh", "attempted"}}
IsRetry(w, c) == marker[c] = "attempted" \/ c \in results[w]

Precedes_ByAge(w, c, d) == queuedAt[c] <= queuedAt[d]
(* The order of listPendingReviews: first attempts, then the oldest.        *)
Precedes(w, c, d) ==
  \/ ~IsRetry(w, c) /\ IsRetry(w, d)
  \/ (IsRetry(w, c) <=> IsRetry(w, d)) /\ queuedAt[c] <= queuedAt[d]

Untried_Everything(w) == Readable(w)
Untried(w) == Readable(w) \ tried[w]

(* Orphan results of the snapshot are unlinked, the markers parsed, and the *)
(* first one this worker has not attempted is next; without one it returns. *)
ReadMarkers(w) ==
  /\ wpc[w] = "read"
  /\ result' = [c \in Commits |->
                  IF c \in results[w] \ names[w] THEN "absent" ELSE result[c]]
  /\ IF Untried(w) = {}
       THEN /\ wpc' = [wpc EXCEPT ![w] = "exit"]
            /\ UNCHANGED <<cur, tried>>
       ELSE \E c \in Untried(w) :
              /\ \A d \in Untried(w) : Precedes(w, c, d)
              /\ cur' = [cur EXCEPT ![w] = c]
              /\ tried' = [tried EXCEPT ![w] = @ \cup {c}]
              /\ wpc' = [wpc EXCEPT ![w] = "mark"]
  /\ names' = [names EXCEPT ![w] = {}]
  /\ results' = [results EXCEPT ![w] = {}]
  /\ UNCHANGED <<lock, marker, queuedAt, hookVars, child, clock,
                 reviewed, queued, owed>>

(* markPendingReviewAttempt renames a new marker into place, even where     *)
(* another worker has removed the old one.                                  *)
MarkAttempt(w) ==
  /\ Step(w, "mark", "run")
  /\ marker' = [marker EXCEPT ![cur[w]] = "attempted"]
  /\ UNCHANGED <<lock, queuedAt, result, hookVars, cur, tried,
                 names, results, child, clock, reviewed, queued, owed>>

(* A write of the marker, or of a file this model leaves out, throws.       *)
WorkerThrows(w) ==
  /\ wpc[w] \in {"mark", "run"}
  /\ wpc' = [wpc EXCEPT ![w] = "throw"]
  /\ UNCHANGED <<files, hookVars, cur, tried, names, results, child, clock,
                 reviewed, queued, owed>>

(* The previous result is unlinked and the child started, without a look at *)
(* any file in between.                                                     *)
RunChild(w) ==
  /\ Step(w, "run", "wait")
  /\ result' = [result EXCEPT ![cur[w]] = "absent"]
  /\ child' = [child EXCEPT ![w] = "starting"]
  /\ UNCHANGED <<lock, marker, queuedAt, hookVars, cur, tried, names, results, clock, reviewed,
                 queued, owed>>

(* reviewProcess.run throws: no child, or one that did not exit cleanly.    *)
ChildRunFails(w) ==
  /\ \/ Step(w, "run", "judge") /\ UNCHANGED child
     \/ /\ Step(w, "wait", "judge") /\ child[w] = "killed"
        /\ child' = [child EXCEPT ![w] = "none"]
  /\ result' = [result EXCEPT ![cur[w]] = "failed"]
  /\ UNCHANGED <<lock, marker, queuedAt, hookVars, cur, tried,
                 names, results, clock, reviewed, queued, owed>>

ChildReturned(w) ==
  /\ Step(w, "wait", "judge")
  /\ child[w] = "exited"
  /\ child' = [child EXCEPT ![w] = "none"]
  /\ UNCHANGED <<files, hookVars, cur, tried, names, results, clock, reviewed,
                 queued, owed>>

Succeeded_Started(r) == r \in {"ok", "started"}
(* Exit code 0 and no message; "Review started." is a message.              *)
Succeeded(r) == r = "ok"

StopsQueue_AnyFailure(r) == r # "ok"
(* isHookQueueStopFailure of the failure message.                           *)
StopsQueue(r) == r = "stop"

(* A later listPendingReviews (its snapshot and unlinks taken together).    *)
Swept == [c \in Commits |-> IF marker[c] = "absent" THEN "absent" ELSE result[c]]

(* readHookResult of the child's result, and what follows from it; stopping *)
(* lists what remains, to log it.                                           *)
JudgeResult(w) ==
  LET r == result[cur[w]] IN
  /\ wpc[w] = "judge"
  /\ wpc' = [wpc EXCEPT ![w] = CASE Succeeded(r) -> "unlinkMarker"
                                 [] ~Succeeded(r) /\ StopsQueue(r) -> "exit"
                                 [] OTHER -> "list"]
  /\ result' = IF StopsQueue(r) THEN Swept ELSE result
  /\ UNCHANGED <<lock, marker, queuedAt, hookVars, cur, tried, names,
                 results, child, clock, reviewed, queued, owed>>

UnlinkMarker(w) ==
  /\ wpc[w] = "unlinkMarker" /\ marker[cur[w]] # "absent"
  /\ Step(w, "unlinkMarker", "unlinkResult")
  /\ marker' = [marker EXCEPT ![cur[w]] = "absent"]
  /\ owed' = [v \in Hooks |-> owed[v] \ {cur[w]}]
  /\ UNCHANGED <<lock, queuedAt, result, hookVars, cur, tried,
                 names, results, child, clock, reviewed, queued>>

(* The unlink fails, for one because another worker got there first.        *)
UnlinkMarkerFails(w) ==
  /\ Step(w, "unlinkMarker", "list")
  /\ UNCHANGED <<files, hookVars, cur, tried, names, results, child, clock,
                 reviewed, queued, owed>>

UnlinkResult(w) ==
  /\ Step(w, "unlinkResult", "list")
  /\ result' = [result EXCEPT ![cur[w]] = "absent"]
  /\ UNCHANGED <<lock, marker, queuedAt, hookVars, cur, tried, names, results,
                 child, clock, reviewed, queued, owed>>

(* persistHookWorkerFailure lists the queue unless a failure is on record.  *)
PersistWorkerFailure(w) ==
  /\ Step(w, "throw", "exit")
  /\ result' \in {result, Swept}
  /\ UNCHANGED <<lock, marker, queuedAt, hookVars, cur, tried, names, results,
                 child, clock, reviewed, queued, owed>>

ForgetWorker(w) ==
  /\ tried' = [tried EXCEPT ![w] = {}]
  /\ names' = [names EXCEPT ![w] = {}]
  /\ results' = [results EXCEPT ![w] = {}]
  /\ owed' = [owed EXCEPT ![w] = {}]

(* process.once("exit") unlinks the lock file, whoever owns it by now.      *)
ExitWorker(w) ==
  /\ Step(w, "exit", "exited")
  /\ lock' = None
  /\ ForgetWorker(w)
  /\ UNCHANGED <<marker, queuedAt, result, hookVars, cur, child, clock, reviewed,
                 queued>>

CrashWorker(w) ==
  /\ MayKill /\ WorkerAlive(w)
  /\ wpc' = [wpc EXCEPT ![w] = "crashed"]
  /\ ForgetWorker(w)
  /\ UNCHANGED <<files, hookVars, cur, child, clock, reviewed, queued>>

-----------------------------------------------------------------------------
(* review --hook --commit cur[w]: the child outlives a crashed worker       *)

StartReview(w) ==
  /\ child[w] = "starting"
  /\ child' = [child EXCEPT ![w] = "running"]
  /\ result' = [result EXCEPT ![cur[w]] = "started"]
  /\ UNCHANGED <<lock, marker, queuedAt, hookVars, workerVars,
                 clock, reviewed, queued, owed>>

(* The review ends and the process exits.  The exit handler of cli.ts       *)
(* unlinks the lock: execa adds the env option to the parent's environment  *)
(* unless told not to, so the child still sees DIFFOWL_HOOK_LOCK.           *)
FinishReview(w) ==
  /\ child[w] = "running"
  /\ child' = [child EXCEPT ![w] = "exited"]
  /\ \/ /\ result' = [result EXCEPT ![cur[w]] = "ok"]
        /\ reviewed' = reviewed \cup {cur[w]}
     \/ /\ \E r \in {"failed", "stop"} : result' = [result EXCEPT ![cur[w]] = r]
        /\ UNCHANGED reviewed
     \/ UNCHANGED <<result, reviewed>>   \* no final status was written
  /\ lock' = None
  /\ UNCHANGED <<marker, queuedAt, hookVars, workerVars, clock,
                 queued, owed>>

(* Killed, before or after the review was saved.                            *)
KillReview(w) ==
  /\ child[w] \in {"starting", "running"}
  /\ child' = [child EXCEPT ![w] = "killed"]
  /\ \/ child[w] = "running" /\ reviewed' = reviewed \cup {cur[w]}
     \/ UNCHANGED reviewed
  /\ UNCHANGED <<files, hookVars, workerVars, clock, queued, owed>>

-----------------------------------------------------------------------------
HookNext(h) ==
  \/ Enqueue(h) \/ CreateMarker(h) \/ WriteMarker(h) \/ OpenLock(h)
  \/ WriteLockPid(h) \/ InspectLock(h) \/ BreakLock(h) \/ SpawnWorker(h)
  \/ LoadConfigFails(h) \/ SpawnFails(h) \/ RecordWorker(h)

WorkerNext(w) ==
  \/ ListDirectory(w) \/ ReadMarkers(w) \/ MarkAttempt(w) \/ WorkerThrows(w)
  \/ RunChild(w) \/ ChildRunFails(w) \/ ChildReturned(w) \/ JudgeResult(w)
  \/ UnlinkMarker(w) \/ UnlinkMarkerFails(w) \/ UnlinkResult(w)
  \/ PersistWorkerFailure(w) \/ ExitWorker(w)

ChildNext(w) == StartReview(w) \/ FinishReview(w) \/ KillReview(w)

Next == \E h \in Hooks :
  StartHook(h) \/ HookNext(h) \/ CrashHook(h) \/ WorkerNext(h)
  \/ CrashWorker(h) \/ ChildNext(h)

Spec == Init /\ [][Next]_vars

(* A process that is not killed keeps running; a review ends, by its own    *)
(* timeout if by nothing else.  Commits and kills are never forced.         *)
Fairness == \A h \in Hooks :
  WF_vars(HookNext(h)) /\ WF_vars(WorkerNext(h)) /\ WF_vars(ChildNext(h))

FairSpec == Spec /\ Fairness

-----------------------------------------------------------------------------
(* Properties                                                               *)

(* No commit is lost: once enqueuePendingReview has returned for a commit,  *)
(* its marker stays until a review of it has run to the end, whatever       *)
(* hooks, workers and orphaned children overlap and wherever one is killed. *)
NoCommitLost == \A c \in queued : marker[c] # "absent" \/ c \in reviewed

(* A result that reads as success was written by a review that completed,   *)
(* so acting on it late, or on another worker's child, is harmless.         *)
SuccessIsReal ==
  /\ \A c \in Commits : result[c] = "ok" => c \in reviewed
  /\ \A w \in Hooks : wpc[w] = "unlinkMarker" => cur[w] \in reviewed

(* A retry never goes ahead of a listed commit that no worker has attempted *)
(* yet: a queue-stopping failure of an old commit cannot starve a new one.  *)
FreshBeforeRetry ==
  [][\A w \in Hooks : wpc[w] = "read" /\ wpc'[w] = "mark" =>
       \/ marker[cur'[w]] = "fresh"
       \/ \A c \in names[w] \ tried[w] :
            ~(marker[c] = "fresh" /\ c \notin results[w])]_vars

(* At most one worker drains the queue at a time.                           *)
AtMostOneWorker ==
  \A v, w \in Hooks : WorkerAlive(v) /\ WorkerAlive(w) => v = w

(* Every worker ends: a review that keeps failing is retried by a later     *)
(* worker, never in a loop of this one.                                     *)
WorkersEnd == \A w \in Hooks : <>[]~WorkerAlive(w)

(* A lock left behind by killed processes, even an empty one, never keeps   *)
(* the queue blocked: a hook that finds no worker alive starts one, or      *)
(* fails or is killed itself.                                               *)
StaleLockRecovered ==
  \A h \in Hooks :
    hpc[h] = "acquire" /\ (\A w \in Hooks : ~WorkerAlive(w))
      ~> hpc[h] \in {"launched", "failed", "crashed"}

(* A worker that leaves by itself has tried every commit whose marker it    *)
(* could read when it was started and that is still listed: an ordinary     *)
(* failure of one of them never keeps it from the next, whatever hooks add  *)
(* and other workers remove meanwhile.  Only a write that throws and a      *)
(* review whose failure stops the queue excuse it.  docs/how-to.md:167: a   *)
(* failed review stays pending and runs again after a later commit.         *)
WorkerTriesQueue ==
  [][\A w \in Hooks : wpc[w] # "exit" /\ wpc'[w] = "exit" =>
       \/ owed[w] \subseteq tried[w]
       \/ wpc[w] = "throw"
       \/ wpc[w] = "judge" /\ result[cur[w]] = "stop"]_vars

-----------------------------------------------------------------------------
(* The inductive strengthening of NoCommitLost                              *)

Busy == {"mark", "run", "wait", "judge", "unlinkMarker", "unlinkResult", "throw"}

(* A process past its first steps has a commit, only a hook that held the   *)
(* lock has a worker, and only a worker that waits, or was killed, a child. *)
Assigned ==
  \A h \in Hooks :
    /\ hpc[h] # "idle" => head[h] \in Commits
    /\ wpc[h] # "idle" => hpc[h] \in {"record", "launched", "crashed"}
    /\ wpc[h] \in Busy => cur[h] \in Commits
    /\ child[h] # "none" => cur[h] \in Commits /\ wpc[h] \in {"wait", "crashed"}

(* A marker a hook has created but not written can only be gone for good.   *)
CreatedIsKept ==
  \A h \in Hooks :
    hpc[h] = "write" => marker[head[h]] # "absent" \/ head[h] \in reviewed

(* What a worker owes is readable, and in the snapshot it is about to read. *)
OwedIsListed ==
  \A w \in Hooks : \A c \in owed[w] :
    marker[c] \in {"fresh", "attempted"} /\ (wpc[w] = "read" => c \in names[w])

IInv == TypeOK /\ Assigned /\ CreatedIsKept /\ SuccessIsReal /\ NoCommitLost
        /\ OwedIsListed
=============================================================================
