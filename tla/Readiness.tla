----------------------------- MODULE Readiness -----------------------------
(***************************************************************************)
(* The decision of diffowl readiness (getReadiness and selectCoverage of   *)
(* src/src/review/readiness.ts): was every commit of the branch reviewed   *)
(* under the current policy, with nothing failed, pending or unhandled?    *)
(* Its input is a record r of what the query has read: checkout, refs,     *)
(* policy, hook queue, the rows of the database and the leases that        *)
(* answered.  ReadinessQuery is the process that reads them.               *)
(*                                                                         *)
(* Abstractions: time stamps are those of a logical clock; a review raises *)
(* one actionable finding or none, open or regressed, deferred, or without *)
(* an identity (untracked), which is none once it is fixed or dismissed    *)
(* (informational ones, staged and skipped reviews are left out); the      *)
(* degradations that make an input unverified are one flag.                *)
(***************************************************************************)
EXTENDS Naturals, Sequences, FiniteSets

CONSTANTS Commits, Parents,  \* the commits, and the parents of each in order
          Policies           \* the review policies, by their hash

ASSUME GraphAssumption == Parents \in [Commits -> Seq(Commits)] /\ IsFiniteSet(Commits)
(* A commit is made after its parents: every set of commits has a first one.*)
ASSUME AcyclicAssumption ==
  \A S \in SUBSET Commits : S # {} =>
    \E c \in S : \A i \in DOMAIN Parents[c] : Parents[c][i] \notin S

(* running: in progress; dead: its process was killed; saved: its review is *)
(* in the database; unpublished: its report could not be written.           *)
States == {"running", "dead", "failed", "saved", "unpublished", "published"}
Attempts == [kind : {"base", "commit"}, commit : Commits, base : Commits,
             merge : Commits, policy : Policies, state : States,
             started : Nat, ended : Nat, verified : BOOLEAN,
             finding : {"none", "open", "deferred", "untracked"}]
(* due: a commit whose hook has not queued it yet.                          *)
Marker == [state : {"none", "due", "pending", "failed"}, at : Nat]
NoMarker == [state |-> "none", at |-> 0]

Derived == {"ready", "missing-review", "incomplete-coverage", "incompatible-lineage",
            "incompatible-policy", "stale-coverage", "review-pending",
            "review-failed", "dirty-worktree", "finding-blocked"}
Reasons == Derived \cup {"operational-error"}

(* The commits reached from a commit, and its first-parent line.            *)
Ancestors[c \in Commits] ==
  {c} \cup UNION {Ancestors[Parents[c][i]] : i \in DOMAIN Parents[c]}
FirstLine[c \in Commits] ==
  {c} \cup IF Parents[c] = <<>> THEN {} ELSE FirstLine[Parents[c][1]]

(* git merge-base                                                           *)
MergeBase(b, h) ==
  LET common == Ancestors[b] \cap Ancestors[h]
  IN  CHOOSE m \in common : \A c \in common : m \in Ancestors[c] => c = m

-----------------------------------------------------------------------------
(* The decision, from what a query has read                                 *)

Merge(r) == MergeBase(r.base, r.target)
(* git rev-list merge-base..head, and the commits whose evidence counts.    *)
History(r) == Ancestors[r.target] \ Ancestors[Merge(r)]
Relevant(r) == History(r) \cup {r.target}
(* The first-parent chain that coverage repairs have to follow.             *)
Chain(r) == History(r) \cap FirstLine[r.target]

Valid_AnyPolicy(r) ==
  {i \in DOMAIN r.rows : r.rows[i].state = "published" /\ r.rows[i].verified}
(* Reviews with complete coverage under the policy of the query.            *)
Valid(r) ==
  {i \in DOMAIN r.rows : /\ r.rows[i].state = "published" /\ r.rows[i].verified
                         /\ r.rows[i].policy = r.policy}

(* A branch review of this base and merge base.                             *)
Exact(r, i) ==
  LET a == r.rows[i] IN
  /\ a.kind = "base" /\ a.base = r.base /\ a.merge = Merge(r)
  /\ a.commit \in Chain(r) \cup {r.target}

Repaired(r, c) ==
  \E i \in Valid(r) : /\ r.rows[i].kind = "commit" /\ r.rows[i].commit = c
                      /\ r.rows[i].base = Parents[c][1]

(* The commits of the chain after a checkpoint that no review repaired.     *)
Uncovered(r, i) ==
  {c \in Chain(r) : /\ r.rows[i].commit \in FirstLine[c] \ {c}
                    /\ ~Repaired(r, c)}

Checkpoints(r) == {i \in Valid(r) : Exact(r, i)}
(* The commits left uncovered after the best checkpoint.                    *)
Gap(r) ==
  LET best == CHOOSE i \in Checkpoints(r) : \A j \in Checkpoints(r) :
                Cardinality(Uncovered(r, i)) <= Cardinality(Uncovered(r, j))
  IN  Uncovered(r, best)

(* Published under this policy, but of an input that was not verified.      *)
Incomplete(r, i) ==
  /\ r.rows[i].state = "published" /\ ~r.rows[i].verified
  /\ r.rows[i].policy = r.policy

Reviews(r) == {i \in DOMAIN r.rows : r.rows[i].state \in {"saved", "unpublished", "published"}}

(* selectCoverage                                                           *)
CoverageReason(r) ==
  LET branch == {i \in Reviews(r) : r.rows[i].kind = "base"}
      exact == {i \in branch : Exact(r, i)}
  IN  IF Checkpoints(r) # {} THEN IF Gap(r) = {} THEN "ready" ELSE "stale-coverage"
      ELSE IF Reviews(r) = {} THEN "missing-review"
      ELSE IF branch = {} \/ \E i \in exact : Incomplete(r, i) THEN "incomplete-coverage"
      ELSE IF exact = {} THEN "incompatible-lineage"
      ELSE "incompatible-policy"

Compatible(r, i) ==
  LET a == r.rows[i] IN
  IF a.kind = "base" THEN a.base = r.base /\ a.merge = Merge(r)
  ELSE a.commit \in History(r) /\ a.base = Parents[a.commit][1]

(* containsCommit: reached through the history of the branch.               *)
Contains(r, h, c) == c = h \/ (h \in History(r) /\ c \in Ancestors[h])

Superseded_AnyTime(r, c, time, branchReview) ==
  \E i \in Valid(r) :
    /\ Compatible(r, i)
    /\ IF r.rows[i].kind = "base" THEN Contains(r, r.rows[i].commit, c)
       ELSE ~branchReview /\ r.rows[i].commit = c
Superseded_Never(r, c, time, branchReview) == FALSE
(* A compatible review of the same input, saved later.                      *)
Superseded(r, c, time, branchReview) ==
  \E i \in Valid(r) :
    /\ Compatible(r, i) /\ r.rows[i].ended >= time
    /\ IF r.rows[i].kind = "base" THEN Contains(r, r.rows[i].commit, c)
       ELSE ~branchReview /\ r.rows[i].commit = c

(* The executions that count, without the ended ones that were replaced.    *)
Counted(r) ==
  {i \in DOMAIN r.rows : LET a == r.rows[i] IN
     /\ a.commit \in Relevant(r) /\ (a.kind = "base" => a.base = r.base)
     /\ \/ a.state \in {"running", "dead"}
        \/ ~Superseded(r, a.commit, a.started, a.kind = "base")}
Running(r) == {i \in Counted(r) : r.rows[i].state \in {"running", "dead"}}

(* A review without a report counts as failed, even one that is about to    *)
(* be published; so does a running one whose lease no longer answers.       *)
FailedAttempts(r) ==
  (Running(r) \ r.alive)
  \cup {i \in Counted(r) : r.rows[i].state \in {"failed", "saved", "unpublished"}}

QueueIn(r, state) == {c \in Relevant(r) : r.queue[c].state = state}
QueueReplaced(r) ==
  {c \in QueueIn(r, "failed") : Superseded(r, c, r.queue[c].at, FALSE)}

PublicationReason(r) ==
  LET published == {i \in Counted(r) : r.rows[i].state = "published"}
  IN  IF \E i \in published : Incomplete(r, i) THEN "incomplete-coverage"
      ELSE IF /\ CoverageReason(r) # "incomplete-coverage"
              /\ \E i \in published : r.rows[i].policy # r.policy
        THEN "incompatible-policy"
      ELSE CoverageReason(r)

Blocked_ChainOnly(r) ==
  \E i \in Reviews(r) : r.rows[i].finding # "none" /\ r.rows[i].commit \in Chain(r)
(* Open, deferred and untracked findings count alike.                       *)
Blocked(r) ==
  \E i \in Reviews(r) : r.rows[i].finding # "none" /\ r.rows[i].commit \in Relevant(r)

Pending_RunningOnly(r) == Running(r) \cap r.alive # {}
Pending_QueueOnly(r) == QueueReplaced(r) # {} \/ QueueIn(r, "pending") # {}
Pending(r) ==
  Running(r) \cap r.alive # {} \/ QueueReplaced(r) # {} \/ QueueIn(r, "pending") # {}

(* getReadiness, the reason of the highest precedence                       *)
Reason(r) ==
  IF Pending(r) THEN "review-pending"
  ELSE IF FailedAttempts(r) # {} \/ QueueIn(r, "failed") # QueueReplaced(r)
    THEN "review-failed"
  ELSE IF r.dirty THEN "dirty-worktree"
  ELSE IF Blocked(r) THEN "finding-blocked"
  ELSE PublicationReason(r)
=============================================================================
