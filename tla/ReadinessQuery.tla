--------------------------- MODULE ReadinessQuery ---------------------------
(***************************************************************************)
(* The readiness query as a process: it reads the checkout, the hook       *)
(* queue, the refs, the policy and a snapshot of the database one after    *)
(* the other, probes the leases of running reviews and reads most of it    *)
(* again before it answers, while commits, reviews and hooks go on.        *)
(* Nothing is locked.  An agent may follow the next action of the answer   *)
(* and ask again, the loop of docs/agent-handoff.md.                       *)
(*                                                                         *)
(* Abstractions, beyond those of Readiness: history only moves forward; a  *)
(* hook review is seen through its marker and its attempt only.            *)
(***************************************************************************)
EXTENDS Readiness

CONSTANTS MainLine,       \* the commits the base ref may name
          BranchHeads,    \* the commits HEAD may name
          FirstHead, FirstBase,
          Askers,         \* who asks: an agent that acts on the answers, people
                          \* with the hook installed, or people without it
          MaxChanges,     \* bound on commits, moved bases, edits, new policies
          MaxFaults,      \* bound on all that goes wrong, findings included
          MaxReviews, MaxOthers  \* bounds on the reviews, and on other people's

(* No base is without a merge base: git would fail, and so would the query. *)
ASSUME HeadAssumption ==
  /\ FirstBase \in MainLine /\ FirstHead \in BranchHeads
  /\ MainLine \cup BranchHeads \subseteq Commits
  /\ \A b \in MainLine, h \in BranchHeads : Ancestors[b] \cap Ancestors[h] # {}
ASSUME PolicyAssumption == Policies # {}
ASSUME AskerAssumption == Askers # {} /\ Askers \subseteq {"asks", "hooked", "by hand"}
ASSUME BoundAssumption == MaxChanges \in Nat /\ MaxFaults \in Nat
                          /\ MaxReviews \in Nat /\ MaxOthers \in Nat

VARIABLES
  head, base, dirty, policy,  \* the checkout, the base ref, the configuration
  attempts,  \* review executions with their reviews, in the order they started
  marker,    \* the hook queue, by commit
  clock, changes, faults,
  at, seen,  \* the query: its next step and what it has read
  answer,    \* its reason, once it has one
  agent,     \* what the agent does, or the people who ask instead
  begun      \* history: the time when the query began

world == <<head, base, dirty, policy, attempts, marker, clock, changes, faults>>
query == <<at, seen, answer, begun>>
vars == <<world, query, agent>>

QuerySteps == {"checkout", "queue", "base", "head", "config", "snapshot", "probe",
               "requeue", "recheck", "rebase", "reconfig"}
Nothing == [head |-> FirstHead, dirty |-> FALSE, queue |-> <<>>, base |-> FirstBase,
            target |-> FirstHead, policy |-> CHOOSE p \in Policies : TRUE,
            rows |-> <<>>, alive |-> {}, at |-> <<>>]

TypeOK ==
  /\ head \in Commits /\ base \in Commits /\ dirty \in BOOLEAN /\ policy \in Policies
  /\ attempts \in Seq(Attempts) /\ marker \in [Commits -> Marker]
  /\ clock \in Nat /\ changes \in Nat /\ faults \in Nat /\ begun \in Nat
  /\ at \in QuerySteps \cup {"idle"}
  /\ answer \in Reasons \cup {"none"}
  /\ seen.head \in Commits /\ seen.target \in Commits /\ seen.base \in Commits
  /\ seen.policy \in Policies /\ seen.rows \in Seq(Attempts)
  /\ seen.queue \in [Commits -> Marker] \cup {<<>>}
  /\ seen.alive \in SUBSET (DOMAIN seen.rows)
  /\ seen.at \in (Commits \X Commits) \cup {<<>>}   \* history: HEAD and base then
  /\ agent \in Askers \cup {"acts", "waits", "hands off", "reports"}

(* Where the hook is installed it has queued the branch's first commit.     *)
Init ==
  /\ head = FirstHead /\ base = FirstBase /\ dirty = FALSE
  /\ policy = CHOOSE p \in Policies : TRUE
  /\ agent \in Askers
  /\ attempts = <<>> /\ clock = 0 /\ changes = 0 /\ faults = 0
  /\ marker = [c \in Commits |-> IF agent = "hooked" /\ c = FirstHead /\ c # FirstBase
                                   THEN [state |-> "pending", at |-> 0] ELSE NoMarker]
  /\ at = "idle" /\ seen = Nothing /\ answer = "none" /\ begun = 0

-----------------------------------------------------------------------------
(* The developer and the hook                                               *)

Change == changes < MaxChanges /\ changes' = changes + 1
Fault == faults < MaxFaults /\ faults' = faults + 1

(* A commit, or a merge, on top of HEAD; the hook queues it a moment later. *)
Commit ==
  /\ Change
  /\ \E c \in BranchHeads :
       /\ Parents[c] # <<>> /\ Parents[c][1] = head
       /\ head' = c
       /\ marker' = IF agent = "hooked"
                      THEN [marker EXCEPT ![c] = [state |-> "due", at |-> 0]] ELSE marker
  /\ dirty' \in {dirty, FALSE}
  /\ UNCHANGED <<base, policy, attempts, clock, faults, query, agent>>

MoveBase ==
  /\ Change
  /\ \E b \in MainLine \ {base} : base \in Ancestors[b] /\ base' = b
  /\ UNCHANGED <<head, dirty, policy, attempts, marker, clock, faults, query, agent>>

Edit ==
  /\ Change
  /\ dirty' = ~dirty
  /\ UNCHANGED <<head, base, policy, attempts, marker, clock, faults, query, agent>>

Configure ==
  /\ Change
  /\ \E p \in Policies \ {policy} : policy' = p
  /\ UNCHANGED <<head, base, dirty, attempts, marker, clock, faults, query, agent>>

Queue(c) ==
  /\ marker[c].state = "due"
  /\ clock' = clock + 1
  /\ marker' = [marker EXCEPT ![c] = [state |-> "pending", at |-> clock']]
  /\ UNCHANGED <<head, base, dirty, policy, attempts, changes, faults, query, agent>>

(* The worker's review of c failed; a worker that a later commit started    *)
(* retries it; once one succeeded the marker is removed.                    *)
HookFails(c) ==
  /\ marker[c].state = "pending" /\ Fault
  /\ clock' = clock + 1
  /\ marker' = [marker EXCEPT ![c] = [state |-> "failed", at |-> clock']]
  /\ UNCHANGED <<head, base, dirty, policy, attempts, changes, query, agent>>

HookRetries(c) ==
  /\ marker[c].state = "failed" /\ \E d \in Commits : marker[d].state = "pending"
  /\ marker' = [marker EXCEPT ![c].state = "pending"]
  /\ UNCHANGED <<head, base, dirty, policy, attempts, clock, changes, faults,
                 query, agent>>

HookDone(c) ==
  /\ marker[c].state = "pending"
  /\ \E i \in DOMAIN attempts : /\ attempts[i].state = "published"
                                /\ attempts[i].kind = "commit" /\ attempts[i].commit = c
                                /\ attempts[i].ended >= marker[c].at
  /\ marker' = [marker EXCEPT ![c] = NoMarker]
  /\ UNCHANGED <<head, base, dirty, policy, attempts, clock, changes, faults,
                 query, agent>>

-----------------------------------------------------------------------------
(* Reviews, in any checkout that shares the database (see ReviewExecution)  *)

Swept(rows) == [i \in DOMAIN rows |->
  IF rows[i].state = "dead" THEN [rows[i] EXCEPT !.state = "failed"] ELSE rows[i]]

(* A review of one commit, or of a branch that has a diff with its base.    *)
NewAttempt(kind, c) ==
  [kind |-> kind, commit |-> c,
   base |-> IF kind = "base" THEN base ELSE Parents[c][1],
   merge |-> IF kind = "base" THEN MergeBase(base, c) ELSE c,
   policy |-> policy, state |-> "running", started |-> clock + 1, ended |-> 0,
   verified |-> FALSE, finding |-> "none"]

StartReview(kind, c) ==
  /\ Len(attempts) < MaxReviews
  /\ IF kind = "base" THEN c \notin Ancestors[base] ELSE Parents[c] # <<>>
  /\ clock' = clock + 1
  /\ attempts' = Append(Swept(attempts), NewAttempt(kind, c))
  /\ UNCHANGED <<head, base, dirty, policy, marker, changes, faults>>

(* Anybody, a hook for one, reviews the branch or any commit of it.         *)
OthersReview ==
  /\ Len(attempts) < MaxOthers
  /\ StartReview("base", head) \/ \E c \in Ancestors[head] : StartReview("commit", c)
  /\ UNCHANGED <<query, agent>>

(* persistCanonicalReview, with a finding, one without an identity, or none.*)
SaveReview(i) ==
  /\ attempts[i].state = "running"
  /\ clock' = clock + 1
  /\ \E found \in {"none", "open", "untracked"} :
       /\ IF found # "none" THEN Fault ELSE UNCHANGED faults
       /\ attempts' = [Swept(attempts) EXCEPT ![i].state = "saved",
                          ![i].ended = clock', ![i].finding = found]
  /\ UNCHANGED <<head, base, dirty, policy, marker, changes, query, agent>>

(* updatePersistedReview with the report path and the coverage evidence.    *)
PublishReview(i) ==
  /\ attempts[i].state = "saved"
  /\ \E verified \in BOOLEAN :
       /\ IF verified THEN UNCHANGED faults ELSE Fault
       /\ attempts' = [Swept(attempts) EXCEPT ![i].state = "published",
                                              ![i].verified = verified]
  /\ UNCHANGED <<head, base, dirty, policy, marker, clock, changes, query, agent>>

(* The review fails or its process is killed, or its report is not written. *)
(* A sweep that misses the lease of a live review fails it like this.       *)
ReviewFails(i) ==
  /\ Fault
  /\ clock' = clock + 1
  /\ \/ /\ attempts[i].state = "running"
        /\ \E s \in {"failed", "dead"} :
             attempts' = [attempts EXCEPT ![i].state = s, ![i].ended = clock']
     \/ /\ attempts[i].state = "saved"
        /\ attempts' = [attempts EXCEPT ![i].state = "unpublished"]
  /\ UNCHANGED <<head, base, dirty, policy, marker, changes, query, agent>>

(* The finding of a review is fixed, dismissed or deferred.  No command     *)
(* takes a deferred or untracked one away.                                  *)
Dispose(i) ==
  /\ attempts[i].finding = "open"
  /\ \E after \in {"none", "deferred"} :
       attempts' = [attempts EXCEPT ![i].finding = after]
  /\ UNCHANGED <<head, base, dirty, policy, marker, clock, changes, faults>>

-----------------------------------------------------------------------------
(* getReadiness                                                             *)

Ask ==
  /\ at = "idle" /\ agent \in Askers
  /\ at' = "checkout" /\ answer' = "none" /\ seen' = Nothing
  /\ begun' = clock
  /\ UNCHANGED <<world, agent>>

Read(from, to, value) ==
  /\ at = from /\ at' = to
  /\ seen' = value
  /\ UNCHANGED <<world, answer, begun, agent>>

ReadCheckout == Read("checkout", "queue", [seen EXCEPT !.head = head, !.dirty = dirty])

(* A marker that is not written yet is not there.                           *)
Visible == [c \in Commits |-> IF marker[c].state = "due" THEN NoMarker ELSE marker[c]]
ReadQueue == Read("queue", "base", [seen EXCEPT !.queue = Visible])

ResolveBase == Read("base", "head", [seen EXCEPT !.base = base])
ResolveHead == Read("head", "config", [seen EXCEPT !.target = head])
LoadConfig == Read("config", "snapshot", [seen EXCEPT !.policy = policy])
ReadSnapshot ==
  Read("snapshot", "probe", [seen EXCEPT !.rows = attempts, !.at = <<head, base>>])

(* A lease is closed between saving and publishing, and that of a review    *)
(* that runs may miss its probe: the answer takes more than a second, or    *)
(* the listener has failed.                                                 *)
ProbeLeases ==
  \E alive \in SUBSET {i \in DOMAIN seen.rows : attempts[i].state \in {"running", "saved"}} :
    /\ at = "probe" /\ at' = "requeue"
    /\ seen' = [seen EXCEPT !.alive = alive]
    /\ IF \E i \in DOMAIN seen.rows \ alive : attempts[i].state = "running"
         THEN Fault ELSE UNCHANGED faults
    /\ UNCHANGED <<head, base, dirty, policy, attempts, marker, clock, changes,
                   answer, begun, agent>>

Settle(reason, evidence) ==
  /\ at' = "idle" /\ answer' = reason /\ seen' = evidence
  /\ agent' = IF agent = "asks" THEN "acts" ELSE agent
  /\ UNCHANGED begun

Unchanged_Unchecked(same) == TRUE
(* The inputs are read again, and any that changed makes it an error.       *)
Unchanged(same) == same

Reread(from, to, same) ==
  /\ at = from
  /\ IF Unchanged(same) THEN /\ at' = to
                             /\ UNCHANGED <<world, seen, answer, begun, agent>>
     ELSE Settle("operational-error", Nothing) /\ UNCHANGED world

RereadQueue == Reread("requeue", "recheck", seen.queue = Visible)
RereadCheckout ==
  Reread("recheck", "rebase", seen.head = head /\ seen.dirty = dirty /\ seen.head = seen.target)
RereadBase == Reread("rebase", "reconfig", seen.base = base)

Answer ==
  /\ at = "reconfig"
  /\ IF Unchanged(seen.policy = policy) THEN Settle(Reason(seen), seen)
     ELSE Settle("operational-error", Nothing)
  /\ UNCHANGED world

(* git, the configuration, the database or a file cannot be read.           *)
QueryFails ==
  /\ at \in QuerySteps /\ Fault
  /\ Settle("operational-error", Nothing)
  /\ UNCHANGED <<head, base, dirty, policy, attempts, marker, clock, changes>>

Query ==
  \/ Ask \/ ReadCheckout \/ ReadQueue \/ ResolveBase \/ ResolveHead \/ LoadConfig
  \/ ReadSnapshot \/ ProbeLeases \/ RereadQueue \/ RereadCheckout \/ RereadBase
  \/ Answer

-----------------------------------------------------------------------------
(* The agent, which acts on what the query has seen                         *)

AgentAsks ==
  /\ agent' = "asks"
  /\ UNCHANGED <<world, query>>

HandOff ==
  /\ agent = "acts" /\ answer = "ready"
  /\ agent' = "hands off"
  /\ UNCHANGED <<world, query>>

(* wait, and repair-dependency of a failure that goes away                  *)
Wait ==
  /\ agent = "acts" /\ answer \in {"review-pending", "operational-error"}
  /\ AgentAsks

AgentReviews(kind, c) ==
  /\ StartReview(kind, c)
  /\ agent' = "waits"
  /\ UNCHANGED query

(* review-branch, if the checkout still is what the query saw               *)
ReviewBranch ==
  /\ agent = "acts"
  /\ answer \in {"missing-review", "incomplete-coverage", "incompatible-lineage",
                 "incompatible-policy"}
  /\ IF head = seen.target /\ base = seen.base /\ ~dirty /\ head \notin Ancestors[base]
       THEN AgentReviews("base", head) ELSE AgentAsks

(* review-uncovered-change: the oldest one, then ask again                  *)
ReviewUncovered ==
  /\ agent = "acts" /\ answer = "stale-coverage"
  /\ \E c \in Gap(seen) :
       /\ Gap(seen) \cap FirstLine[c] = {c}
       /\ AgentReviews("commit", c)

(* The findings of the branch that still block in one of these ways.        *)
Blocking(status) ==
  {i \in Reviews(seen) : /\ attempts[i].commit \in Relevant(seen)
                         /\ attempts[i].finding \in status}

(* disposition-findings: the open ones, one by one.                         *)
DisposeFindings ==
  /\ agent = "acts" /\ answer = "finding-blocked"
  /\ \/ \E i \in Blocking({"open"}) : Dispose(i) /\ agent' = "asks" /\ UNCHANGED query
     \/ Blocking({"open", "deferred", "untracked"}) = {} /\ AgentAsks

(* What is left cannot be cleared: that is reported instead of a handoff.   *)
ReportBlocker ==
  /\ agent = "acts" /\ answer = "finding-blocked"
  /\ Blocking({"open"}) = {} /\ Blocking({"deferred", "untracked"}) # {}
  /\ agent' = "reports"
  /\ UNCHANGED <<world, query>>

CommitOrRestore ==
  /\ agent = "acts" /\ answer = "dirty-worktree"
  /\ dirty' = FALSE /\ agent' = "asks"
  /\ UNCHANGED <<head, base, policy, attempts, marker, clock, changes, faults, query>>

Broken(i) == attempts[i].state \in {"failed", "dead", "unpublished"}
(* A row that still says running and whose lease was silent looks the same  *)
(* whether its review died or goes on.                                      *)
LooksBroken(i) == Broken(i) \/ attempts[i].state = "running"
(* inspect-failure: what failed, as far as one can tell, is reviewed again  *)
RetryFailed ==
  /\ agent = "acts" /\ answer = "review-failed"
  /\ IF \E i \in FailedAttempts(seen) : LooksBroken(i)
       THEN \E i \in FailedAttempts(seen) :
              /\ LooksBroken(i)
              /\ IF attempts[i].kind = "commit" THEN AgentReviews("commit", attempts[i].commit)
                 ELSE IF head \notin Ancestors[base] THEN AgentReviews("base", head)
                 ELSE AgentAsks
       ELSE AgentAsks

(* Its review has ended, one way or the other.                              *)
AgentSettled ==
  /\ agent = "waits"
  /\ \A i \in DOMAIN attempts : attempts[i].state \notin {"running", "saved"}
  /\ AgentAsks

AgentNext ==
  \/ HandOff \/ Wait \/ ReviewBranch \/ ReviewUncovered \/ DisposeFindings
  \/ ReportBlocker \/ CommitOrRestore \/ RetryFailed \/ AgentSettled

(* Without an agent, people dispose of findings when they like.             *)
UserDisposes(i) == agent \in {"hooked", "by hand"} /\ Dispose(i) /\ UNCHANGED <<query, agent>>

ReviewEnds(i) == SaveReview(i) \/ PublishReview(i) \/ ReviewFails(i)

Next ==
  \/ Commit \/ MoveBase \/ Edit \/ Configure \/ OthersReview
  \/ \E c \in Commits : Queue(c) \/ HookFails(c) \/ HookRetries(c) \/ HookDone(c)
  \/ \E i \in DOMAIN attempts : ReviewEnds(i) \/ UserDisposes(i)
  \/ Query \/ QueryFails \/ AgentNext

Spec == Init /\ [][Next]_vars

(* Queries end, agents act and reviews end, by their time limit at the      *)
(* latest.  Nothing makes anybody commit, edit or start a review.           *)
FairSpec ==
  /\ Spec
  /\ WF_vars(Query) /\ WF_vars(AgentNext)
  /\ \A i \in 1 .. MaxReviews : WF_vars(i \in DOMAIN attempts /\ ReviewEnds(i))

-----------------------------------------------------------------------------
(* Properties                                                               *)

(* What a review has looked at: the diff it was given.                      *)
Covers(a) == Ancestors[a.commit] \
             Ancestors[IF a.kind = "base" THEN a.merge ELSE Parents[a.commit][1]]

(* Ready means reviewed: every commit between the merge base and HEAD, also *)
(* on merged side branches, is in the diff of some published review with    *)
(* verified input under the current policy.                                 *)
ReadyIsCovered ==
  answer = "ready" =>
    History(seen) \subseteq
      UNION {Covers(attempts[i]) : i \in {j \in DOMAIN attempts :
               attempts[j].state = "published" /\ attempts[j].verified
               /\ attempts[j].policy = seen.policy}}

(* Ready means handled: every finding that a review of the branch had       *)
(* recorded when the query began was fixed or dismissed; none is open,      *)
(* deferred or without an identity.                                         *)
ReadyHandlesFindings ==
  answer = "ready" => \A i \in DOMAIN attempts :
    attempts[i].ended <= begun /\ attempts[i].commit \in Relevant(seen)
      => attempts[i].finding = "none"

(* Ready means quiet: no review of the branch that had begun before the     *)
(* query still runs, or was left running by a process that died, and no     *)
(* commit of the branch queued before the query still waits for its hook.   *)
ReadyNothingRuns ==
  answer = "ready" =>
    /\ \A i \in DOMAIN attempts :
         /\ attempts[i].started <= begun /\ attempts[i].commit \in Relevant(seen)
         /\ (attempts[i].kind = "base" => attempts[i].base = seen.base)
         => attempts[i].state \notin {"running", "dead"}
    /\ \A c \in Relevant(seen) :
         Visible[c].state = "none" \/ marker[c].at > begun

(* Ready means settled (docs/readiness-contract.md:57): what was found by   *)
(* the time the query began was decided on, and what ran or waited then has *)
(* come to its end.                                                         *)
ReadyIsSettled == ReadyHandlesFindings /\ ReadyNothingRuns

(* The evidence of an answer was taken while its target was current: HEAD   *)
(* and base were, at that moment, the ones the answer names.                *)
TargetWasCurrent ==
  answer \in Derived => seen.at = <<seen.target, seen.base>>

(* docs/readiness-contract.md:103, review-failed: some review did fail.     *)
FailureIsReal ==
  answer = "review-failed" =>
    \/ \E i \in DOMAIN attempts : Broken(i)
    \/ \E c \in Commits : seen.queue[c].state = "failed"

(* docs/readiness-contract.md: an unresolved newer failure must not be      *)
(* hidden behind an older successful proof.  A failure is newer than a      *)
(* proof if it both started and ended later.                                *)
NewerFailureNotHidden ==
  answer = "ready" => \A i \in DOMAIN seen.rows :
    LET a == seen.rows[i] IN
    a.state = "failed" /\ a.commit \in Relevant(seen) /\ a.base = seen.base
      => \E j \in Valid(seen) : seen.rows[j].started > a.started
                              \/ seen.rows[j].ended > a.ended

(* The reviews of the branch that ran before the query began and still run. *)
StillRunning ==
  {i \in DOMAIN attempts : /\ attempts[i].started <= begun
                           /\ attempts[i].state = "running"
                           /\ attempts[i].commit \in Relevant(seen)
                           /\ (attempts[i].kind = "base" => attempts[i].base = seen.base)}

(* An agent starts a review beside one of the same branch that ran before   *)
(* it asked and whose row still says running only where it was told of a    *)
(* failure and the lease of that very review missed the probe of this query *)
(* (process-lease.ts:28, 64).  No other answer and no other order of events *)
(* leads to a duplicate; one that a sweep misjudged (ReviewFails) is over   *)
(* by its row, and is not asked about here.                                 *)
NoDuplicateReview ==
  [][agent = "acts" /\ agent' = "waits" =>
       \A i \in StillRunning : answer = "review-failed" /\ i \notin seen.alive]_vars

(* Following the next action of every answer leads to a handoff, however    *)
(* often reviews fail, go unverified or find something that is then fixed   *)
(* or dismissed, and however probes miss, or to the report of a finding     *)
(* that was deferred or has no identity, which nothing can clear; unless    *)
(* the branch has nothing to review or no agent asks.                       *)
HandoffReached ==
  <>[](\/ agent \in {"hands off", "hooked", "by hand"}
       \/ agent = "reports" /\ Blocking({"deferred", "untracked"}) # {}
       \/ head \in Ancestors[base])
=============================================================================
