-------------------------- MODULE ReviewExecution --------------------------
(***************************************************************************)
(* One review attempt from its start to its published report, against the  *)
(* state database that every diffowl process shares: runReviewPipeline     *)
(* (src/src/review/run.ts), the execution journal, process leases, the     *)
(* reconciliation of stale executions and the retention of failures        *)
(* (src/src/state/).                                                       *)
(*                                                                         *)
(* A run is a process that reviews one target; it owns one operation row   *)
(* and one execution row, named after it.  An opener is any other command  *)
(* that opens the database for writing.  Every such open first looks for   *)
(* executions whose owner is gone, so runs and openers judge each other    *)
(* from what they saw some steps ago.  A database transaction is one step, *)
(* or fails as a whole.                                                    *)
(*                                                                         *)
(* Abstractions: the review itself, its findings and telemetry values; the *)
(* clock only orders failures; a listener that breaks is the same as       *)
(* probes that get no answer in time.                                      *)
(***************************************************************************)
EXTENDS Naturals, FiniteSets

CONSTANTS Runs, Openers,  \* the processes
          FailureLimit,   \* retention.failed_execution_limit, 0: no limit
          AgeRule,        \* TRUE: retention.failed_execution_days is not 0
          ProbeMisses,    \* TRUE: a live lease may fail to answer in time
          Faults,         \* TRUE: a transaction or a file access may fail
          Crashes         \* TRUE: processes may be killed at any step

ASSUME LimitAssumption == FailureLimit \in Nat
ASSUME ProcessAssumption == Runs \cap Openers = {}
ASSUME FlagAssumption ==
  AgeRule \in BOOLEAN /\ ProbeMisses \in BOOLEAN /\ Faults \in BOOLEAN
  /\ Crashes \in BOOLEAN

Procs == Runs \cup Openers

VARIABLES
  (* state.db *)
  operation,  \* review_operations: absent, pending (no context), captured
  exec,       \* review_executions.terminal_outcome; deleted rows are marked
  updatedAt,  \* when the attempt failed
  review,     \* reviews: none, canonical or skipped
  published,  \* reviews with a report_path
  covered,    \* reviews with a row in review_coverage
  (* the processes *)
  pc, opening,  \* next step; progress of an openStateDatabaseForWrite
  found,        \* executions that reconciliation listed, then judged stale
  leases,       \* runs whose lease server listens
  clock,
  reports,      \* runs whose Markdown report is on disk
  (* history *)
  missed        \* runs whose live lease failed to answer some probe

rows == <<operation, exec, updatedAt, clock>>
publication == <<published, covered, reports>>
vars == <<operation, exec, updatedAt, review, published, covered, pc, opening,
          found, leases, clock, reports, missed>>

Failures == {"failed", "cancelled", "timed-out"}
Present == {"running", "completed", "interrupted"} \cup Failures
Ends == {"done", "threw", "crashed"}
(* The steps that begin by opening the database for writing.                *)
DbSteps == {"start", "skip", "persist", "publish", "unpublish", "use"}
(* A failure as a step: finishFailedExecutionJournal with it comes next.    *)
Steps == DbSteps \cup Failures
         \cup {"context", "protocol", "execute", "executed", "finish", "retain",
               "retainFailed", "report", "thrown"}

TypeOK ==
  /\ operation \in [Runs -> {"absent", "pending", "captured"}]
  /\ exec \in [Runs -> Present \cup {"absent", "deleted"}]
  /\ updatedAt \in [Runs -> Nat]
  /\ review \in [Runs -> {"none", "canonical", "skipped"}]
  /\ published \in SUBSET Runs /\ covered \in SUBSET Runs
  /\ pc \in [Procs -> {"idle"} \cup Steps \cup Ends]
  /\ opening \in [Procs -> {"no", "list", "probe", "sweep", "ready"}]
  /\ found \in [Procs -> SUBSET Runs]
  /\ leases \in SUBSET Runs
  /\ clock \in Nat
  /\ reports \in SUBSET Runs
  /\ missed \in SUBSET Runs

Init ==
  /\ operation = [r \in Runs |-> "absent"]
  /\ exec = [r \in Runs |-> "absent"]
  /\ updatedAt = [r \in Runs |-> 0]
  /\ review = [r \in Runs |-> "none"]
  /\ published = {} /\ covered = {}
  /\ pc = [p \in Procs |-> "idle"] /\ opening = [p \in Procs |-> "no"]
  /\ found = [p \in Procs |-> {}]
  /\ leases = {}
  /\ clock = 0
  /\ reports = {}
  /\ missed = {}

(* p moves on to step s, which opens the database if it is a DbStep.        *)
Goto(p, s) ==
  /\ pc' = [pc EXCEPT ![p] = s]
  /\ opening' = [opening EXCEPT ![p] = IF s \in DbSteps THEN "list" ELSE "no"]

-----------------------------------------------------------------------------
(* openStateDatabaseForWrite and reconcileStaleReviewExecutions             *)

ListRunning(p) ==
  /\ opening[p] = "list"
  /\ found' = [found EXCEPT ![p] = {r \in Runs : exec[r] = "running"}]
  /\ opening' = [opening EXCEPT ![p] = "probe"]
  /\ UNCHANGED <<rows, review, publication, pc, leases, missed>>

(* The answers to the probes of all listed leases.                          *)
ProbeLeases(p) ==
  /\ opening[p] = "probe"
  /\ \E silent \in SUBSET (found[p] \cap leases) :
       /\ silent # {} => ProbeMisses
       /\ missed' = missed \cup silent
       /\ found' = [found EXCEPT ![p] = (@ \ leases) \cup silent]
  /\ opening' = [opening EXCEPT ![p] = "sweep"]
  /\ UNCHANGED <<rows, review, publication, pc, leases>>

Stale_AsListed(p) == found[p]
Stale_CapturedOnly(p) ==
  {r \in found[p] : exec[r] = "running" /\ operation[r] = "captured"}
(* Checked again in the transaction: the probes took their time.            *)
Stale(p) == {r \in found[p] : exec[r] = "running"}

SweepStale(p) ==
  /\ opening[p] = "sweep"
  /\ exec' = [r \in Runs |-> IF r \in Stale(p) THEN "interrupted" ELSE exec[r]]
  /\ found' = [found EXCEPT ![p] = {}]
  /\ opening' = [opening EXCEPT ![p] = "ready"]
  /\ UNCHANGED <<operation, updatedAt, clock, review, publication, pc, leases,
                 missed>>

(* The database cannot be opened or reconciled, or the transaction of the   *)
(* step, or the checkout read that precedes it, fails.                      *)
AfterFault(s) == IF s = "persist" THEN "failed"
                 ELSE IF s = "publish" THEN "unpublish" ELSE "threw"

DbStepFails(p) ==
  /\ Faults /\ opening[p] # "no"
  /\ Goto(p, AfterFault(pc[p]))
  /\ found' = [found EXCEPT ![p] = {}]
  /\ UNCHANGED <<rows, review, publication, leases, missed>>

UseDatabase(p) ==
  /\ pc[p] = "use" /\ opening[p] = "ready"
  /\ Goto(p, "done")
  /\ UNCHANGED <<rows, review, publication, found, leases, missed>>

-----------------------------------------------------------------------------
(* startReviewExecutionJournal and the steps of runReviewPipeline           *)

BeginProcess(p) ==
  /\ pc[p] = "idle"
  /\ \E s \in IF p \in Runs THEN {"start", "skip"} ELSE {"use"} : Goto(p, s)
  /\ UNCHANGED <<rows, review, publication, found, leases, missed>>

StartJournal_NoLease(r) ==
  /\ pc[r] = "start" /\ opening[r] = "ready"
  /\ operation' = [operation EXCEPT ![r] = "pending"]
  /\ exec' = [exec EXCEPT ![r] = "running"]
  /\ Goto(r, "context")
  /\ UNCHANGED <<updatedAt, clock, review, publication, found, leases, missed>>
(* The lease listens before the execution is visible.                       *)
StartJournal(r) ==
  /\ pc[r] = "start" /\ opening[r] = "ready"
  /\ leases' = leases \cup {r}
  /\ operation' = [operation EXCEPT ![r] = "pending"]
  /\ exec' = [exec EXCEPT ![r] = "running"]
  /\ Goto(r, "context")
  /\ UNCHANGED <<updatedAt, clock, review, publication, found, missed>>

CaptureContext(r) ==
  /\ pc[r] = "context"
  /\ operation' = [operation EXCEPT ![r] = "captured"]
  /\ Goto(r, "protocol")
  /\ UNCHANGED <<exec, updatedAt, clock, review, publication, found, leases,
                 missed>>

CaptureContextFails(r) ==
  /\ pc[r] = "context"
  /\ Goto(r, "failed")
  /\ UNCHANGED <<rows, review, publication, found, leases, missed>>

(* executionJournal.record of a phase, outside any try block.               *)
RecordPhase(r) ==
  /\ exec[r] = "running"
  /\ \/ pc[r] = "protocol" /\ Goto(r, "execute")
     \/ pc[r] = "executed" /\ Goto(r, "persist")
  /\ UNCHANGED <<rows, review, publication, found, leases, missed>>

(* Interrupted by a sweep, or the update fails: the error leaves the        *)
(* pipeline with the journal open.                                          *)
RecordPhaseThrows(r) ==
  /\ pc[r] \in {"protocol", "executed"}
  /\ exec[r] # "running" \/ Faults
  /\ Goto(r, "thrown")
  /\ UNCHANGED <<rows, review, publication, found, leases, missed>>

ExecuteReview(r) ==
  /\ pc[r] = "execute"
  /\ \E s \in {"executed"} \cup Failures : Goto(r, s)
  /\ UNCHANGED <<rows, review, publication, found, leases, missed>>

PersistReview_AnyState(r) ==
  /\ pc[r] = "persist" /\ opening[r] = "ready"
  /\ operation[r] = "captured"
  /\ exec' = [exec EXCEPT ![r] = IF @ = "running" THEN "completed" ELSE @]
  /\ review' = [review EXCEPT ![r] = "canonical"]
  /\ Goto(r, "finish")
  /\ UNCHANGED <<operation, updatedAt, clock, publication, found, leases, missed>>
(* persistCanonicalReview: the execution is finalized and its review        *)
(* inserted in one transaction.                                             *)
PersistReview(r) ==
  /\ pc[r] = "persist" /\ opening[r] = "ready"
  /\ exec[r] = "running" /\ operation[r] = "captured"
  /\ exec' = [exec EXCEPT ![r] = "completed"]
  /\ review' = [review EXCEPT ![r] = "canonical"]
  /\ Goto(r, "finish")
  /\ UNCHANGED <<operation, updatedAt, clock, publication, found, leases, missed>>

(* finalizeReviewExecution throws on an execution that is already terminal. *)
PersistRejected(r) ==
  /\ pc[r] = "persist" /\ opening[r] = "ready"
  /\ exec[r] # "running"
  /\ Goto(r, "failed")
  /\ UNCHANGED <<rows, review, publication, found, leases, missed>>

(* journal.finish of a completed execution: only telemetry is left to write *)
FinishCompleted(r) ==
  /\ pc[r] = "finish" /\ exec[r] = "completed"
  /\ leases' = leases \ {r}
  /\ Goto(r, "retain")
  /\ UNCHANGED <<rows, review, publication, found, missed>>

FinishCompletedThrows(r) ==
  /\ pc[r] = "finish" /\ Faults
  /\ leases' = leases \ {r}
  /\ Goto(r, "threw")
  /\ UNCHANGED <<rows, review, publication, found, missed>>

(* finishFailedExecutionJournal                                             *)
FinishFailed(r) ==
  /\ pc[r] \in Failures /\ exec[r] = "running"
  /\ exec' = [exec EXCEPT ![r] = pc[r]]
  /\ clock' = clock + 1
  /\ updatedAt' = [updatedAt EXCEPT ![r] = clock']
  /\ leases' = leases \ {r}
  /\ Goto(r, "retainFailed")
  /\ UNCHANGED <<operation, review, publication, found, missed>>

FinishFailedThrows_KeepsLease(r) ==
  /\ pc[r] \in Failures
  /\ exec[r] # "running" \/ Faults
  /\ Goto(r, "threw")
  /\ UNCHANGED <<rows, review, publication, found, leases, missed>>
(* The outcome cannot be persisted; the lease is closed all the same.       *)
FinishFailedThrows(r) ==
  /\ pc[r] \in Failures
  /\ exec[r] # "running" \/ Faults
  /\ leases' = leases \ {r}
  /\ Goto(r, "threw")
  /\ UNCHANGED <<rows, review, publication, found, missed>>

(* The process ends, and its lease server with it.                          *)
ExitThrown(r) ==
  /\ pc[r] = "thrown"
  /\ leases' = leases \ {r}
  /\ Goto(r, "threw")
  /\ UNCHANGED <<rows, review, publication, found, missed>>

-----------------------------------------------------------------------------
(* retainFailedExecutions, in one transaction of its own                    *)

Eligible == {r \in Runs : exec[r] \in Failures /\ review[r] # "canonical"}

BeyondLimit_Oldest(S) ==
  {r \in S : Cardinality({q \in S : updatedAt[q] < updatedAt[r]}) >= FailureLimit}
(* ORDER BY updated_at DESC ... OFFSET limit                                *)
BeyondLimit(S) ==
  {r \in S : Cardinality({q \in S : updatedAt[q] > updatedAt[r]}) >= FailureLimit}

(* What may be deleted; failures count as old up to some time in the past.  *)
Expired(cutoff) ==
  LET old == {r \in Eligible : AgeRule /\ updatedAt[r] < cutoff}
  IN  old \cup IF FailureLimit = 0 THEN {} ELSE BeyondLimit(Eligible \ old)

Retain(r) ==
  /\ pc[r] \in {"retain", "retainFailed"}
  /\ FailureLimit # 0 \/ AgeRule
  /\ \E cutoff \in 0..clock :
       exec' = [q \in Runs |-> IF q \in Expired(cutoff) THEN "deleted" ELSE exec[q]]
  /\ operation' = [q \in Runs |->
       IF exec'[q] \notin Present /\ review[q] = "none" THEN "absent"
       ELSE operation[q]]
  /\ Goto(r, IF pc[r] = "retain" THEN "report" ELSE "threw")
  /\ UNCHANGED <<updatedAt, clock, review, publication, found, leases, missed>>

(* Nothing to retain, or an error, which is not reported to the caller.     *)
RetainNothing(r) ==
  /\ pc[r] \in {"retain", "retainFailed"}
  /\ (FailureLimit = 0 /\ ~AgeRule) \/ Faults
  /\ Goto(r, IF pc[r] = "retain" THEN "report" ELSE "threw")
  /\ UNCHANGED <<rows, review, publication, found, leases, missed>>

-----------------------------------------------------------------------------
(* Skipped reviews, and the report of any review                            *)

(* persistSkippedReview; only a documentation-only change has a report.     *)
PersistSkipped(r) ==
  /\ pc[r] = "skip" /\ opening[r] = "ready"
  /\ operation' = [operation EXCEPT ![r] = "pending"]
  /\ review' = [review EXCEPT ![r] = "skipped"]
  /\ \E s \in {"report", "done"} : Goto(r, s)
  /\ UNCHANGED <<exec, updatedAt, clock, publication, found, leases, missed>>

WriteReport_GoesOn(r) ==
  /\ pc[r] = "report"
  /\ reports' \in {reports, reports \cup {r}}
  /\ Goto(r, "publish")
  /\ UNCHANGED <<rows, review, published, covered, found, leases, missed>>
WriteReport(r) ==
  /\ pc[r] = "report"
  /\ \/ reports' = reports \cup {r} /\ Goto(r, "publish")
     \/ Faults /\ UNCHANGED reports /\ Goto(r, "unpublish")
  /\ UNCHANGED <<rows, review, published, covered, found, leases, missed>>

(* updatePersistedReview; coverage is recorded of a review of a commit.     *)
Publish(r) ==
  /\ pc[r] = "publish" /\ opening[r] = "ready"
  /\ published' = published \cup {r}
  /\ covered' \in {covered} \cup
                  (IF review[r] = "canonical" THEN {covered \cup {r}} ELSE {})
  /\ Goto(r, "done")
  /\ UNCHANGED <<rows, review, reports, found, leases, missed>>

Unpublish(r) ==
  /\ pc[r] = "unpublish" /\ opening[r] = "ready"
  /\ published' = published \ {r}
  /\ Goto(r, "threw")
  /\ UNCHANGED <<rows, review, covered, reports, found, leases, missed>>

Crash(p) ==
  /\ Crashes /\ pc[p] \in Steps
  /\ Goto(p, "crashed")
  /\ leases' = leases \ {p}
  /\ found' = [found EXCEPT ![p] = {}]
  /\ UNCHANGED <<rows, review, publication, missed>>

-----------------------------------------------------------------------------
Reconcile(p) ==
  ListRunning(p) \/ ProbeLeases(p) \/ SweepStale(p) \/ DbStepFails(p)

Pipeline(r) ==
  \/ StartJournal(r) \/ CaptureContext(r) \/ CaptureContextFails(r)
  \/ RecordPhase(r) \/ RecordPhaseThrows(r) \/ ExecuteReview(r)
  \/ PersistReview(r) \/ PersistRejected(r)
  \/ FinishCompleted(r) \/ FinishCompletedThrows(r)
  \/ FinishFailed(r) \/ FinishFailedThrows(r) \/ ExitThrown(r)
  \/ Retain(r) \/ RetainNothing(r)
  \/ PersistSkipped(r) \/ WriteReport(r) \/ Publish(r) \/ Unpublish(r)

Next ==
  \/ \E p \in Procs : BeginProcess(p) \/ Reconcile(p) \/ UseDatabase(p) \/ Crash(p)
  \/ \E r \in Runs : Pipeline(r)

Spec == Init /\ [][Next]_vars

(* A process that has begun goes on until it ends: an open is bounded by    *)
(* the probe timeout and the busy timeout, a review by its own timeout.     *)
Fairness ==
  /\ \A p \in Procs : WF_vars(Reconcile(p) \/ UseDatabase(p))
  /\ \A r \in Runs : WF_vars(Pipeline(r))

FairSpec == Spec /\ Fairness

-----------------------------------------------------------------------------
(* Properties                                                               *)

(* A saved review can be traced: its operation is kept, and a canonical     *)
(* review has an attempt that completed, with its context captured, which   *)
(* neither a sweep that raced it nor retention has touched.                 *)
SourceIsCompleted ==
  \A r \in Runs :
    /\ review[r] = "canonical" <=> exec[r] = "completed"
    /\ review[r] = "canonical" => operation[r] = "captured"
    /\ review[r] # "none" \/ exec[r] \in Present => operation[r] # "absent"

(* An attempt is only called interrupted when its owner is gone, gave up    *)
(* without an outcome on record, or did not answer a probe in time.         *)
InterruptedHasReason ==
  \A r \in Runs : exec[r] = "interrupted" =>
    r \in missed \/ pc[r] \in {"crashed", "threw"}

(* Cleanups of several processes, with failures between them, never delete  *)
(* one of the latest FailureLimit failures unless it is old enough.         *)
LatestFailuresKept ==
  ~AgeRule /\ FailureLimit # 0 => \A r \in Runs : exec[r] = "deleted" =>
    Cardinality({q \in Runs : exec[q] \in Failures \cup {"deleted"}
                             /\ updatedAt[q] > updatedAt[r]}) >= FailureLimit

(* Coverage, which readiness takes as proof of a finished review, is on     *)
(* record only with a report path, and a report path only with a report.    *)
PublicationIsWhole ==
  /\ covered \subseteq published \cap {r \in Runs : review[r] = "canonical"}
  /\ published \subseteq reports

(* The database keeps the promise of ReviewLedger.                          *)
Ledger == INSTANCE ReviewLedger WITH
  outcome <- [r \in Runs |-> IF exec[r] \in Failures THEN "failed"
                             ELSE IF exec[r] = "absent" THEN "none"
                             ELSE IF exec[r] = "deleted" THEN "forgotten"
                             ELSE exec[r]],
  saved <- [r \in Runs |-> review[r] # "none"]

ImplementsLedger == Ledger!LSpec

(* An attempt nobody owns any more does not stay "running": whatever left   *)
(* it behind, any process that opens the database from then on closes it,   *)
(* unless that process is killed or fails itself.                           *)
OwnerlessReclaimed ==
  \A p \in Procs, r \in Runs :
    opening[p] = "list" /\ exec[r] = "running" /\ r \notin leases
      ~> \/ exec[r] # "running"
         \/ pc[p] \in {"threw", "crashed", "failed", "unpublish"}

(* No process keeps its lease for good: a journal is closed on every path,  *)
(* so an attempt without an outcome becomes one that nobody owns.           *)
LeasesEnd == \A r \in Runs : <>[](r \notin leases)

-----------------------------------------------------------------------------
(* The inductive strengthening of the safety properties                     *)

Owned == {"context", "protocol", "execute", "executed", "persist", "thrown"}
         \cup Failures
Gone == {"threw", "crashed"}

(* What a run's next step says about its rows, its lease and its report.    *)
Stage ==
  \A r \in Runs :
    /\ pc[r] \in {"idle", "start", "skip"} =>
         operation[r] = "absent" /\ exec[r] = "absent" /\ review[r] = "none"
    /\ pc[r] \in Owned => exec[r] \in {"running", "interrupted"}
    /\ pc[r] = "finish" => review[r] = "canonical"
    /\ pc[r] = "publish" => r \in reports
    /\ pc[r] \in {"retain", "report", "publish"} => review[r] # "none"
    /\ r \in covered => pc[r] = "done"
    /\ exec[r] = "running" => r \in leases \/ pc[r] \in Gone

Opening == \A p \in Procs : opening[p] # "no" => pc[p] \in DbSteps

(* What a sweep will act on: rows it once saw running, by now without an    *)
(* owner unless a probe was missed.                                         *)
Findings ==
  \A p \in Procs, r \in Runs : r \in found[p] =>
    /\ opening[p] \in {"probe", "sweep"} => exec[r] # "absent"
    /\ opening[p] = "sweep" =>
         exec[r] # "running" \/ r \in missed \/ pc[r] \in Gone

IInv == TypeOK /\ Stage /\ Opening /\ Findings
        /\ SourceIsCompleted /\ InterruptedHasReason /\ PublicationIsWhole
=============================================================================
