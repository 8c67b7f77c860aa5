----------------------- MODULE ReviewExecutionProofs -----------------------
(***************************************************************************)
(* The database keeps the promise of ReviewLedger for any number of runs   *)
(* and openers, with any retention, missed probes, faults and kills.  Stage*)
(* says what rows belong to each step of a run; with it a run only creates *)
(* an execution that is absent and only completes one that is running.     *)
(* Findings carries "nobody owns this" from the probe to the sweep.        *)
(* Retention is a relation of failures to younger ones that no step undoes.*)
(***************************************************************************)
EXTENDS ReviewExecution, FiniteSetTheorems, TLAPS

LEMMA InitIInv == Init => IInv
BY ProcessAssumption DEF Init, IInv, TypeOK, Stage, Opening, Findings,
  SourceIsCompleted, InterruptedHasReason, PublicationIsWhole, Steps, DbSteps,
  Failures, Present, Ends, Owned, Gone, Procs

(* A step of the shared open of the database, or of any process. *)
LEMMA ProcessKeeps ==
  ASSUME IInv, NEW p \in Procs,
         BeginProcess(p) \/ Reconcile(p) \/ UseDatabase(p) \/ Crash(p)
  PROVE IInv'
<1> USE DEF IInv, TypeOK, Stage, Opening, Findings, SourceIsCompleted,
      InterruptedHasReason, PublicationIsWhole, Steps, DbSteps, Failures,
      Present, Ends, Owned, Gone, Procs, rows, publication
<1>1. CASE BeginProcess(p) BY <1>1 DEF BeginProcess, Goto
<1>2. CASE ListRunning(p) BY <1>2 DEF ListRunning
<1>3. CASE ProbeLeases(p) BY <1>3 DEF ProbeLeases
<1>4. CASE SweepStale(p) BY <1>4 DEF SweepStale, Stale
<1>5. CASE DbStepFails(p) BY <1>5 DEF DbStepFails, AfterFault, Goto
<1>6. CASE UseDatabase(p) BY <1>6 DEF UseDatabase, Goto
<1>7. CASE Crash(p) BY <1>7 DEF Crash, Goto
<1> QED BY <1>1, <1>2, <1>3, <1>4, <1>5, <1>6, <1>7 DEF Reconcile

(* Retention, whatever its settings, only touches failures nobody refers to. *)
LEMMA ExpiredAreFailures ==
  \A cutoff : \A q \in Expired(cutoff) :
    q \in Runs /\ exec[q] \in Failures /\ review[q] # "canonical"
BY DEF Expired, Eligible, BeyondLimit

(* A step of a run. *)
LEMMA PipelineKeeps ==
  ASSUME IInv, NEW r \in Runs, Pipeline(r)
  PROVE IInv'
<1> USE DEF IInv, TypeOK, Stage, Opening, Findings, SourceIsCompleted,
      InterruptedHasReason, PublicationIsWhole, Steps, DbSteps, Failures,
      Present, Ends, Owned, Gone, Procs, rows, publication, Goto
<1>1. CASE StartJournal(r) BY <1>1 DEF StartJournal
<1>2. CASE CaptureContext(r) BY <1>2 DEF CaptureContext
<1>3. CASE CaptureContextFails(r) BY <1>3 DEF CaptureContextFails
<1>4. CASE RecordPhase(r) BY <1>4 DEF RecordPhase
<1>5. CASE RecordPhaseThrows(r) BY <1>5 DEF RecordPhaseThrows
<1>6. CASE ExecuteReview(r) BY <1>6 DEF ExecuteReview
<1>7. CASE PersistReview(r) BY <1>7 DEF PersistReview
<1>8. CASE PersistRejected(r) BY <1>8 DEF PersistRejected
<1>9. CASE FinishCompleted(r) BY <1>9 DEF FinishCompleted
<1>10. CASE FinishCompletedThrows(r) BY <1>10 DEF FinishCompletedThrows
<1>11. CASE FinishFailed(r) BY <1>11 DEF FinishFailed
<1>12. CASE FinishFailedThrows(r) BY <1>12 DEF FinishFailedThrows
<1>13. CASE ExitThrown(r) BY <1>13 DEF ExitThrown
<1>14. CASE Retain(r)
  <2>1. PICK cutoff \in 0..clock : exec' =
          [q \in Runs |-> IF q \in Expired(cutoff) THEN "deleted" ELSE exec[q]]
    BY <1>14 DEF Retain
  <2>2. \A q \in Runs :
          \/ exec'[q] = exec[q]
          \/ /\ exec'[q] = "deleted"
             /\ exec[q] \in Failures /\ review[q] # "canonical"
    BY <2>1, ExpiredAreFailures
  <2>3. operation' = [q \in Runs |->
          IF exec'[q] \notin Present /\ review[q] = "none" THEN "absent"
          ELSE operation[q]]
    BY <1>14 DEF Retain
  <2>4. exec' \in [Runs -> Present \cup {"absent", "deleted"}]
    BY <2>1
  <2>5. TypeOK' BY <1>14, <2>3, <2>4 DEF Retain
  <2>6. Stage' BY <1>14, <2>2, <2>3, <2>5 DEF Retain
  <2>7. SourceIsCompleted' BY <1>14, <2>2, <2>3, <2>5 DEF Retain
  <2>8. Opening' /\ Findings' BY <1>14, <2>2 DEF Retain
  <2>9. InterruptedHasReason' /\ PublicationIsWhole' BY <1>14, <2>2 DEF Retain
  <2> QED BY <2>5, <2>6, <2>7, <2>8, <2>9
<1>15. CASE RetainNothing(r) BY <1>15 DEF RetainNothing
<1>16. CASE PersistSkipped(r) BY <1>16 DEF PersistSkipped
<1>17. CASE WriteReport(r) BY <1>17 DEF WriteReport
<1>18. CASE Publish(r) BY <1>18 DEF Publish
<1>19. CASE Unpublish(r) BY <1>19 DEF Unpublish
<1> QED BY <1>1, <1>2, <1>3, <1>4, <1>5, <1>6, <1>7, <1>8, <1>9, <1>10, <1>11,
  <1>12, <1>13, <1>14, <1>15, <1>16, <1>17, <1>18, <1>19 DEF Pipeline

LEMMA StutterKeeps == IInv /\ UNCHANGED vars => IInv'
BY DEF IInv, TypeOK, Stage, Opening, Findings, SourceIsCompleted,
  InterruptedHasReason, PublicationIsWhole, vars

(* The invariant holds in every reachable state. *)
THEOREM InvariantHolds == Spec => []IInv
<1>1. IInv /\ [Next]_vars => IInv'
  BY ProcessKeeps, PipelineKeeps, StutterKeeps DEF Next
<1>2. QED BY InitIInv, <1>1, PTL DEF Spec

(* Every row and process stays within its type. *)
THEOREM TypeCorrect == Spec => []TypeOK
<1>1. IInv => TypeOK BY DEF IInv
<1>2. QED BY InvariantHolds, <1>1, PTL

(* A canonical review always has a completed attempt with its context. *)
THEOREM SourceCorrect == Spec => []SourceIsCompleted
<1>1. IInv => SourceIsCompleted BY DEF IInv
<1>2. QED BY InvariantHolds, <1>1, PTL

(* A live owner that answers every probe is never called interrupted. *)
THEOREM InterruptionCorrect == Spec => []InterruptedHasReason
<1>1. IInv => InterruptedHasReason BY DEF IInv
<1>2. QED BY InvariantHolds, <1>1, PTL

(* Coverage is on record only of a published canonical review. *)
THEOREM PublicationCorrect == Spec => []PublicationIsWhole
<1>1. IInv => PublicationIsWhole BY DEF IInv
<1>2. QED BY InvariantHolds, <1>1, PTL

-----------------------------------------------------------------------------
(* ReviewExecution implements ReviewLedger: a step of the open, of a run    *)
(* and a stutter each map to a step of the ledger or leave it alone.        *)

LEMMA InitMaps == Init => Ledger!LInit
<1> SUFFICES ASSUME Init PROVE Ledger!LInit
  OBVIOUS
<1>1. \A r \in Runs : exec[r] = "absent" /\ (review[r] # "none") = FALSE
  BY DEF Init
<1>2. \A r \in Runs : exec[r] \notin Failures BY <1>1 DEF Failures
<1> QED BY <1>1, <1>2 DEF Ledger!LInit

LEMMA ProcessMaps ==
  ASSUME IInv, NEW p \in Procs,
         BeginProcess(p) \/ Reconcile(p) \/ UseDatabase(p) \/ Crash(p)
  PROVE [Ledger!LNext]_(Ledger!ledger)
<1>1. CASE SweepStale(p)
  <2>1. PICK S \in SUBSET Runs : S = Stale(p) BY DEF Stale, IInv, TypeOK
  <2>2. Ledger!Interrupt(S)
    BY <1>1, <2>1 DEF SweepStale, Stale, Ledger!Interrupt, Failures, IInv, TypeOK
  <2> QED BY <2>1, <2>2 DEF Ledger!LNext
<1>2. CASE ~SweepStale(p)
  <2>1. UNCHANGED <<exec, review>>
    BY <1>2 DEF BeginProcess, Reconcile, UseDatabase, Crash, ListRunning,
      ProbeLeases, DbStepFails, rows
  <2> QED BY <2>1 DEF Ledger!ledger
<1> QED BY <1>1, <1>2

LEMMA PipelineMaps ==
  ASSUME IInv, NEW r \in Runs, Pipeline(r)
  PROVE [Ledger!LNext]_(Ledger!ledger)
<1> USE DEF IInv, TypeOK, Failures, Present
<1>1. CASE StartJournal(r)
  <2>1. Ledger!Begin(r) BY <1>1 DEF StartJournal, Stage, Ledger!Begin
  <2> QED BY <2>1 DEF Ledger!LNext
<1>2. CASE PersistReview(r)
  <2>1. Ledger!Complete(r) BY <1>2 DEF PersistReview, Ledger!Complete
  <2> QED BY <2>1 DEF Ledger!LNext
<1>3. CASE FinishFailed(r)
  <2>1. Ledger!Fail(r) BY <1>3 DEF FinishFailed, Ledger!Fail
  <2> QED BY <2>1 DEF Ledger!LNext
<1>4. CASE PersistSkipped(r)
  <2>1. Ledger!SaveSkipped(r)
    BY <1>4 DEF PersistSkipped, Stage, Ledger!SaveSkipped
  <2> QED BY <2>1 DEF Ledger!LNext
<1>5. CASE Retain(r)
  <2>1. PICK cutoff \in 0..clock : exec' =
          [q \in Runs |-> IF q \in Expired(cutoff) THEN "deleted" ELSE exec[q]]
    BY <1>5 DEF Retain
  <2>2. PICK S \in SUBSET Runs : S = Expired(cutoff) BY ExpiredAreFailures
  <2>3. Ledger!Forget(S)
    BY <1>5, <2>1, <2>2, ExpiredAreFailures DEF Retain, Ledger!Forget
  <2> QED BY <2>2, <2>3 DEF Ledger!LNext
<1>6. CASE UNCHANGED <<exec, review>> BY <1>6 DEF Ledger!ledger
<1> QED BY <1>1, <1>2, <1>3, <1>4, <1>5, <1>6 DEF Pipeline, CaptureContext,
  CaptureContextFails, RecordPhase, RecordPhaseThrows, ExecuteReview,
  PersistRejected, FinishCompleted, FinishCompletedThrows, FinishFailedThrows,
  ExitThrown, RetainNothing, WriteReport, Publish, Unpublish, rows

(* Outcomes are final, and a review appears with its completed attempt. *)
THEOREM LedgerImplemented == Spec => ImplementsLedger
<1>1. IInv /\ [Next]_vars => [Ledger!LNext]_(Ledger!ledger)
  <2> SUFFICES ASSUME IInv, [Next]_vars
               PROVE [Ledger!LNext]_(Ledger!ledger)
    OBVIOUS
  <2>1. CASE UNCHANGED vars BY <2>1 DEF vars, Ledger!ledger
  <2>2. CASE Next BY <2>2, ProcessMaps, PipelineMaps DEF Next
  <2> QED BY <2>1, <2>2
<1>2. QED BY InitMaps, InvariantHolds, <1>1, PTL DEF Spec, ImplementsLedger, Ledger!LSpec
-----------------------------------------------------------------------------
(* Retention.  There is no limit on the runs, but each of them is recorded  *)
(* in a step of its own, so the failures that are counted are finitely many.*)

Recorded == {r \in Runs : exec[r] # "absent"}
(* The failures after that of r, those deleted since among them.            *)
Later(r) == {q \in Runs : exec[q] \in Failures \cup {"deleted"}
                          /\ updatedAt[q] > updatedAt[r]}

(* A step records one attempt at most, takes no failure back and dates none *)
(* anew, and only retention deletes.                                        *)
Accounted ==
  /\ \E r : Recorded' \subseteq Recorded \cup {r}
  /\ \A q \in Runs : exec[q] \in Failures \cup {"deleted"} =>
       exec'[q] \in Failures \cup {"deleted"} /\ updatedAt'[q] = updatedAt[q]
Deletes == \E q \in Runs : exec[q] # "deleted" /\ exec'[q] = "deleted"

LEMMA UnchangedAccounts ==
  ASSUME UNCHANGED <<exec, updatedAt>> PROVE Accounted /\ ~Deletes
BY DEF Accounted, Deletes, Recorded

LEMMA ProcessAccounts ==
  ASSUME IInv, NEW p \in Procs,
         BeginProcess(p) \/ Reconcile(p) \/ UseDatabase(p) \/ Crash(p)
  PROVE Accounted /\ ~Deletes
<1>1. CASE SweepStale(p)
  <2>1. /\ exec' = [r \in Runs |-> IF r \in Stale(p) THEN "interrupted" ELSE exec[r]]
        /\ updatedAt' = updatedAt
    BY <1>1 DEF SweepStale
  <2>2. \A r \in Stale(p) : exec[r] = "running" BY DEF Stale
  <2> QED BY <2>1, <2>2 DEF Accounted, Deletes, Recorded, Failures
<1>2. CASE ~SweepStale(p)
  BY <1>2, UnchangedAccounts DEF BeginProcess, Reconcile, UseDatabase, Crash,
    ListRunning, ProbeLeases, DbStepFails, rows
<1> QED BY <1>1, <1>2

LEMMA PipelineAccounts ==
  ASSUME IInv, NEW r \in Runs, Pipeline(r)
  PROVE Accounted /\ (Deletes => Retain(r))
<1>1. CASE StartJournal(r) \/ PersistReview(r)
  <2>1. /\ exec' = [exec EXCEPT ![r] = IF StartJournal(r) THEN "running" ELSE "completed"]
        /\ updatedAt' = updatedAt /\ exec[r] \in {"absent", "running"}
    BY <1>1 DEF StartJournal, PersistReview, IInv, Stage
  <2> QED BY <2>1 DEF Accounted, Deletes, Recorded, Failures, IInv, TypeOK
<1>2. CASE FinishFailed(r)
  <2>1. /\ exec[r] = "running" /\ pc[r] \in Failures
        /\ exec' = [exec EXCEPT ![r] = pc[r]]
        /\ updatedAt' = [updatedAt EXCEPT ![r] = clock']
    BY <1>2 DEF FinishFailed
  <2> QED BY <2>1 DEF Accounted, Deletes, Recorded, Failures, IInv, TypeOK
<1>3. CASE Retain(r)
  <2>1. PICK cutoff \in 0..clock : exec' =
          [q \in Runs |-> IF q \in Expired(cutoff) THEN "deleted" ELSE exec[q]]
    BY <1>3 DEF Retain
  <2>2. updatedAt' = updatedAt BY <1>3 DEF Retain
  <2>3. Recorded' \subseteq Recorded
    BY <2>1, ExpiredAreFailures DEF Recorded, Failures
  <2> QED BY <1>3, <2>1, <2>2, <2>3 DEF Accounted
<1>4. CASE UNCHANGED <<exec, updatedAt>> BY <1>4, UnchangedAccounts
<1> QED BY <1>1, <1>2, <1>3, <1>4 DEF Pipeline, CaptureContext,
  CaptureContextFails, RecordPhase, RecordPhaseThrows, ExecuteReview,
  PersistRejected, FinishCompleted, FinishCompletedThrows, FinishFailedThrows,
  ExitThrown, RetainNothing, PersistSkipped, WriteReport, Publish, Unpublish, rows

LEMMA StepAccounts ==
  ASSUME IInv, [Next]_vars
  PROVE Accounted /\ (Deletes => \E r \in Runs : Retain(r))
<1>1. CASE UNCHANGED vars BY <1>1, UnchangedAccounts DEF vars
<1>2. CASE Next BY <1>2, ProcessAccounts, PipelineAccounts DEF Next
<1> QED BY <1>1, <1>2

(* A limit leaves FailureLimit failures, on record or deleted before, that  *)
(* are younger than any that retention deletes.                             *)
LEMMA DeletedAreOlder ==
  ASSUME IInv, IsFiniteSet(Recorded), ~AgeRule, FailureLimit # 0,
         NEW r \in Runs, Retain(r),
         NEW q \in Runs, exec[q] # "deleted", exec'[q] = "deleted"
  PROVE Cardinality(Later(q)) >= FailureLimit
<1> DEFINE younger == {o \in Eligible : updatedAt[o] > updatedAt[q]}
<1>1. PICK cutoff \in 0..clock : exec' =
        [o \in Runs |-> IF o \in Expired(cutoff) THEN "deleted" ELSE exec[o]]
  BY DEF Retain
<1>2. q \in Expired(cutoff) BY <1>1
<1>3. {o \in Eligible : AgeRule /\ updatedAt[o] < cutoff} = {} OBVIOUS
<1>4. q \in BeyondLimit(Eligible) BY <1>2, <1>3 DEF Expired
<1>5. Cardinality(younger) >= FailureLimit BY <1>4 DEF BeyondLimit
<1>6. younger \subseteq Later(q) BY DEF Eligible, Later
<1>7. Later(q) \subseteq Recorded BY DEF Later, Recorded, Failures
<1>8. IsFiniteSet(Later(q)) BY <1>7, FS_Subset
<1>9. Cardinality(younger) <= Cardinality(Later(q)) BY <1>6, <1>8, FS_Subset
<1>10. /\ Cardinality(younger) \in Nat /\ Cardinality(Later(q)) \in Nat
  BY <1>6, <1>8, FS_Subset, FS_CardinalityType
<1> QED BY <1>5, <1>9, <1>10, LimitAssumption

(* Runs of any number, cleaning up in any order and failing in between,     *)
(* never delete one of the latest FailureLimit failures.                    *)
THEOREM RetentionCorrect == Spec => []LatestFailuresKept
<1> DEFINE Retained == IsFiniteSet(Recorded) /\ LatestFailuresKept
<1>1. Init => Retained
  <2>1. Init => Recorded = {} BY DEF Init, Recorded
  <2>2. Init => LatestFailuresKept BY DEF Init, LatestFailuresKept
  <2> QED BY <2>1, <2>2, FS_EmptySet
<1>2. IInv /\ Retained /\ [Next]_vars => Retained'
  <2> SUFFICES ASSUME IInv, IsFiniteSet(Recorded), LatestFailuresKept, [Next]_vars
               PROVE IsFiniteSet(Recorded') /\ LatestFailuresKept'
    OBVIOUS
  <2>1. Accounted /\ (Deletes => \E r \in Runs : Retain(r)) BY StepAccounts
  <2>2. IsFiniteSet(Recorded')
    <3>1. PICK r : Recorded' \subseteq Recorded \cup {r} BY <2>1 DEF Accounted
    <3>2. IsFiniteSet(Recorded \cup {r}) BY FS_AddElement
    <3> QED BY <3>1, <3>2, FS_Subset
  <2>3. ASSUME ~AgeRule, FailureLimit # 0, NEW q \in Runs, exec'[q] = "deleted"
        PROVE Cardinality(Later(q)') >= FailureLimit
    <3>1. Cardinality(Later(q)) >= FailureLimit
      <4>1. CASE exec[q] = "deleted" BY <2>3, <4>1 DEF LatestFailuresKept, Later
      <4>2. CASE exec[q] # "deleted"
        BY <2>1, <2>3, <4>2, DeletedAreOlder DEF Deletes
      <4> QED BY <4>1, <4>2
    <3>2. exec[q] \in Failures \cup {"deleted"}
      <4>1. CASE exec[q] = "deleted" BY <4>1
      <4>2. CASE exec[q] # "deleted"
        <5>1. PICK r \in Runs : Retain(r) BY <2>1, <2>3, <4>2 DEF Deletes
        <5>2. PICK cutoff \in 0..clock : exec' =
                [o \in Runs |-> IF o \in Expired(cutoff) THEN "deleted" ELSE exec[o]]
          BY <5>1 DEF Retain
        <5> QED BY <2>3, <4>2, <5>2, ExpiredAreFailures
      <4> QED BY <4>1, <4>2
    <3>3. Later(q) \subseteq Later(q)' BY <2>1, <3>2 DEF Accounted, Later
    <3>4. Later(q)' \subseteq Recorded' BY DEF Later, Recorded, Failures
    <3>5. IsFiniteSet(Later(q)') BY <2>2, <3>4, FS_Subset
    <3>6. Cardinality(Later(q)) <= Cardinality(Later(q)') BY <3>3, <3>5, FS_Subset
    <3>7. /\ Cardinality(Later(q)) \in Nat /\ Cardinality(Later(q)') \in Nat
      BY <3>3, <3>5, FS_Subset, FS_CardinalityType
    <3> QED BY <3>1, <3>6, <3>7, LimitAssumption
  <2>4. LatestFailuresKept' BY <2>3 DEF LatestFailuresKept, Later
  <2> QED BY <2>2, <2>4
<1>3. QED BY <1>1, <1>2, InvariantHolds, PTL DEF Spec
=============================================================================
