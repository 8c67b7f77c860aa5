---------------------------- MODULE ReviewFindings ----------------------------
(***************************************************************************)
(* From the findings of an accepted document to the report (src/review/    *)
(* document.ts, filters.ts, run.ts, src/state/persist.ts, reconcile.ts),   *)
(* and the checker that may refute some of them (src/review/               *)
(* verification.ts), which no command calls yet.                           *)
(***************************************************************************)
EXTENDS Naturals, Sequences, FiniteSets

CONSTANTS
  Anchors,     \* fingerprints of quoted code
  Found,       \* what a document may hold: records of its words (severity,
               \* file, line, title), its anchor or "none", and whether it is
               \* sure and about a changed file
  MaxFound,    \* bound on the findings of one document
  Claims,      \* the findings a checker is asked about
  MaxOutcomes, \* bound on the outcomes of one checker document
  MaxAttempts  \* SCHEMA_VALIDATION_MAX_ATTEMPTS

VARIABLES document, \* the findings of the document, in order
          status,   \* anchor -> its status in the state database, or "none"
          report,   \* the published findings, those suppressed, and the counts
          attempt,  \* the checker: documents read so far
          policy,   \* its publication policy
          answer,   \* the document that settled it
          ledger    \* what became of it

findingsVars == <<document, status, report, attempt, policy, answer, ledger>>

Elements(s) == {s[i] : i \in 1..Len(s)}

(* The elements of s at the places of a set, and those that are of a set.   *)
Place(at, n) == CHOOSE i \in at : Cardinality({j \in at : j <= i}) = n
Kept(s, at) == [n \in 1..Cardinality(at) |-> s[Place(at, n)]]
Picked(s, S) == Kept(s, {i \in 1..Len(s) : s[i] \in S})
(* The places of the values that are the first of their kind.               *)
FirstOf(values) == {i \in DOMAIN values : ~\E j \in 1 .. i - 1 : values[j] = values[i]}

-----------------------------------------------------------------------------
(* The report                                                               *)

(* validateReviewDocument *)
Distinct(s) == Kept(s, FirstOf([i \in 1..Len(s) |-> s[i].words]))
(* filterFindingsByConfidence, filterFindingsByChangedFiles *)
Sure(s) == Picked(s, {f \in Found : f.sure})
InDiff(s) == Picked(s, {f \in Found : f.inDiff})

Untracked(s) == Picked(s, {f \in Found : f.anchor = "none"})
Identifiable(s) == Picked(s, {f \in Found : f.anchor # "none"})
(* deduplicateReviewFindings                                                *)
Deduplicated(s) == Kept(s, FirstOf([i \in 1..Len(s) |-> s[i].anchor]))

Merged_OfAll(s) ==
  LET one == Deduplicated(s)
  IN Identifiable(one) \o Untracked(one)
(* Those that quote code once for each, then the others.                    *)
Merged(s) == Deduplicated(Identifiable(s)) \o Untracked(s)

(* reconcileReviewFindings: a dismissed or deferred finding is seen again,  *)
(* a fixed one has regressed.                                               *)
Suppressed(f, st) == f.anchor # "none" /\ st[f.anchor] \in {"dismissed", "deferred"}
Reconciled(s, st) ==
  [a \in Anchors |->
     IF \E i \in 1..Len(s) : s[i].anchor = a
     THEN IF st[a] = "none" THEN "open" ELSE IF st[a] = "fixed" THEN "regressed" ELSE st[a]
     ELSE st[a]]

(* runReviewPipeline and persistReviewOutput; splitFindings-                *)
(* ByLifecycleSuppression parts what persistReviewOutput has merged.        *)
Publish ==
  /\ report = <<"none">>
  /\ LET distinct == Distinct(document)
         reviewed == InDiff(Sure(distinct))
         merged == Merged(reviewed)
     IN /\ report' = <<Picked(merged, {f \in Found : ~Suppressed(f, status)}),
                       Picked(merged, {f \in Found : Suppressed(f, status)}),
                       Len(distinct) - Len(reviewed),
                       Len(Identifiable(reviewed)) - Len(Identifiable(merged)),
                       Len(Untracked(merged))>>
        /\ status' = Reconciled(merged, status)
  /\ UNCHANGED <<document, attempt, policy, answer, ledger>>

-----------------------------------------------------------------------------
(* The checker                                                              *)

Outcomes == [finding : Claims \cup {"unknown"}, verdict : {"confirmed", "refuted", "uncertain"}]

(* inspectCheckerDocument: every claim once, and nothing else.              *)
Valid(doc) ==
  /\ {doc[i].finding : i \in 1..Len(doc)} = Claims
  /\ Len(doc) = Cardinality(Claims)

Settled_ByPolicy(doc) == [kind |-> "uncertain", published |-> IF policy = "observe" THEN Claims ELSE {}]
(* The checker has no attempt left: every claim is uncertain, and the       *)
(* policy falls back to "observe".                                          *)
Settled(doc) == [kind |-> "uncertain", published |-> Claims]

Accepted(doc) ==
  [kind |-> "validated",
   published |-> {doc[i].finding : i \in {j \in 1..Len(doc) : policy = "observe" \/ doc[j].verdict = "confirmed"}}]

(* decideCheckerAttempt and selectPublishedFindingIds.                      *)
CheckerAnswers(doc) ==
  /\ ledger.kind = "none" /\ attempt < MaxAttempts
  /\ attempt' = attempt + 1
  /\ IF ~Valid(doc) /\ attempt' < MaxAttempts
     THEN UNCHANGED <<answer, ledger>>
     ELSE answer' = doc /\ ledger' = IF Valid(doc) THEN Accepted(doc) ELSE Settled(doc)
  /\ UNCHANGED <<document, status, report, policy>>

-----------------------------------------------------------------------------
CheckerDocuments == UNION {[1..n -> Outcomes] : n \in 0..MaxOutcomes}

FindingsInit ==
  /\ attempt = 0 /\ answer = <<>> /\ ledger = [kind |-> "none", published |-> {}]
  /\ \/ /\ document \in UNION {[1..n -> Found] : n \in 0..MaxFound}
        /\ status \in [Anchors -> {"none", "open", "fixed", "dismissed"}]
        /\ report = <<"none">> /\ policy = "observe"
     \/ /\ document = <<>> /\ status = [a \in Anchors |-> "none"]
        /\ report = <<"published">> /\ policy \in {"observe", "confirmed-only"}

FindingsNext == Publish \/ (report = <<"published">> /\ \E doc \in CheckerDocuments : CheckerAnswers(doc))

(* Every finding of a document is accounted for: it is in the report or     *)
(* among the suppressed ones, or it is one of those that the report counts  *)
(* as excluded, or merged with one that quotes the same code, or its words  *)
(* repeat an earlier one.  Findings that quote no code are never merged,    *)
(* and nothing is shown to the user that was dismissed or deferred.         *)
EachFindingAccounted ==
  Len(report) = 5 =>
    LET shown == report[1] \o report[2]
        distinct == {f.words : f \in Elements(document)}
    IN /\ Cardinality(distinct) = Len(shown) + report[3] + report[4]
       /\ Cardinality({f.words : f \in Elements(shown)}) = Len(shown)
       /\ \A f \in Elements(Distinct(document)) :
            \/ ~f.sure \/ ~f.inDiff \/ f \in Elements(shown)
            \/ f.anchor # "none" /\ \E g \in Elements(shown) : g.anchor = f.anchor
       /\ \A f \in Elements(report[1]) : f.anchor # "none" => status[f.anchor] \in {"open", "regressed"}
       /\ \A f \in Elements(report[2]) : status[f.anchor] \in {"dismissed", "deferred"}

(* A finding is withheld by the checker only on a valid document that says  *)
(* of this finding, once, that it is not confirmed.                         *)
WithheldOnEvidence ==
  ledger.kind # "none" =>
    /\ ledger.published \subseteq Claims
    /\ \A f \in Claims \ ledger.published :
         /\ policy = "confirmed-only"
         /\ Cardinality({i \in 1..Len(answer) : answer[i].finding = f}) = 1
         /\ \A i \in 1..Len(answer) : answer[i].finding = f => answer[i].verdict # "confirmed"

FindingsAreKept == EachFindingAccounted /\ WithheldOnEvidence

(* What the proofs need                                                     *)
Statuses == {"none", "open", "regressed", "fixed", "dismissed", "deferred"}
FindingsFit ==
  /\ document \in Seq(Found) /\ status \in [Anchors -> Statuses]
  /\ policy \in {"observe", "confirmed-only"}
  /\ FindingsAreKept

FindingsSpec == FindingsInit /\ [][FindingsNext]_findingsVars
===============================================================================
