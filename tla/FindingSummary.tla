----------------------------- MODULE FindingSummary -----------------------------
(***************************************************************************)
(* What a session is told at its start (getFindingSummary of               *)
(* src/state/findings-summary.ts): how many unresolved findings concern    *)
(* the worktree it starts in.  All worktrees of a repository share one     *)
(* state database, so that a finding counts when a review observed it at a *)
(* commit that the worktree's HEAD reaches (src/git/reachability.ts) or in *)
(* staged changes that the worktree still has staged (git diff --staged    *)
(* of src/git/diff.ts, under a time limit).  Reviews, dispositions, the    *)
(* checkout and the index go on meanwhile.                                 *)
(***************************************************************************)
EXTENDS Naturals, Sequences

CONSTANTS
  Findings,    \* ids of findings
  Commits,     \* the commits of the repository
  Ancestors,   \* commit -> the commits it reaches, itself included
  Contents,    \* hashes of staged changes
  Severities,  \* numbers, by rank
  MaxRows,     \* bound on the observations
  MaxChanges   \* bound on what happens while the summary is made

VARIABLES rows,    \* the observations by id, with their review's operation
          status,  \* finding -> findings.status
          head,    \* the worktree's HEAD
          index,   \* the hash of what is staged in it
          changes, \* changes so far
          q        \* the summary

summaryVars == <<rows, status, head, index, changes, q>>

Places == [commit : Commits, hash : {"none"}] \cup [commit : {"none"}, hash : Contents]
Empty == [told |-> {}, top |-> 0]
Unresolved == {"open", "regressed"}

SummaryInit ==
  /\ rows = <<>> /\ status = [f \in Findings |-> "none"]
  /\ head \in Commits /\ index \in Contents \cup {"none"}
  /\ changes = 0
  /\ q = [pc |-> "away", all |-> FALSE, rows |-> {}, asked |-> {}, kept |-> {},
          open |-> {}, near |-> {}, always |-> {}, gaveUp |-> {},
          git |-> "none", hash |-> "none", driver |-> FALSE, clock |-> 0,
          logged |-> {}, answer |-> Empty]

-----------------------------------------------------------------------------
(* The rest of the repository                                               *)

Committed(id) == rows[id].commit # "none"
(* The gates of the two kinds of observations.                              *)
Reaches(id) == Committed(id) /\ rows[id].commit \in Ancestors[head]
Staged(id) == ~Committed(id) /\ rows[id].hash = index
Live == {id \in 1..Len(rows) : status[rows[id].finding] \in Unresolved}
Near == {id \in 1..Len(rows) : Reaches(id) \/ Staged(id)}

(* Three sets follow the query: the observations that were unresolved at    *)
(* some moment of it, those that concerned the worktree at some moment, and *)
(* those that were and did at every moment.                                 *)
Watched ==
  q' = IF q.pc \in {"away", "done"} THEN q
       ELSE [q EXCEPT !.open = @ \cup Live', !.near = @ \cup Near', !.always = @ \cap Live' \cap Near']

Busy == changes < MaxChanges \/ q.pc = "away"
Counted == changes' = IF q.pc = "away" THEN changes ELSE changes + 1

(* A review of this or another worktree observes a finding.                 *)
Observe(f, place, severity) ==
  /\ Busy /\ Counted /\ Len(rows) < MaxRows /\ q.pc # "done"
  /\ rows' = Append(rows, [finding |-> f, commit |-> place.commit, hash |-> place.hash, severity |-> severity])
  /\ status' = [status EXCEPT ![f] = IF @ = "none" THEN "open" ELSE IF @ = "fixed" THEN "regressed" ELSE @]
  /\ UNCHANGED <<head, index>>
  /\ Watched

(* mutateFinding: dismissed or fixed in one transaction.                    *)
Mutate(f, to) ==
  /\ Busy /\ Counted /\ q.pc # "done"
  /\ status[f] \in Unresolved
  /\ status' = [status EXCEPT ![f] = to]
  /\ UNCHANGED <<rows, head, index>>
  /\ Watched

(* A commit or a checkout, git add or git reset.                            *)
MoveTree ==
  /\ Busy /\ Counted /\ q.pc \notin {"away", "done"}
  /\ \/ head' \in Commits \ {head} /\ UNCHANGED index
     \/ index' \in (Contents \cup {"none"}) \ {index} /\ UNCHANGED head
  /\ UNCHANGED <<rows, status>>
  /\ Watched

-----------------------------------------------------------------------------
(* The summary                                                              *)

World == <<rows, status, head, index, changes>>

(* Without a database there is nothing to say.                              *)
Start ==
  /\ q.pc = "away" /\ rows # <<>>
  /\ \E all \in BOOLEAN :
       q' = [q EXCEPT !.pc = "read", !.all = all, !.open = Live, !.near = Near, !.always = Live \cap Near]
  /\ UNCHANGED World

Degraded(reason) == q' = [q EXCEPT !.pc = "done", !.logged = @ \cup {reason}, !.answer = Empty]

Joined_LastReview == {id \in Live : \A later \in id + 1 .. Len(rows) : rows[later].finding # rows[id].finding}
(* queryUnresolvedObservationRows joins the review of every observation,    *)
(* never findings.last_review_id.                                           *)
Joined == Live

(* One statement reads the rows; the commits to ask about are those of the  *)
(* rows, unless all are wanted (--all).                                     *)
ReadRows ==
  /\ q.pc = "read"
  /\ \/ Degraded("unreadable")
     \/ /\ Joined = {} /\ q' = [q EXCEPT !.pc = "done"]
     \/ LET commits == {id \in Joined : Committed(id)} IN
        /\ Joined # {}
        /\ q' = [q EXCEPT !.pc = "ask", !.rows = Joined,
                          !.asked = IF q.all THEN {} ELSE {rows[id].commit : id \in commits},
                          !.kept = IF q.all THEN commits ELSE {}]
  /\ UNCHANGED World

(* git merge-base --is-ancestor, one process for every commit, all at once: *)
(* each sees the HEAD of its own moment.  Exit code 128 is "not reachable". *)
AskReachable(c) ==
  /\ q.pc = "ask" /\ c \in q.asked
  /\ \/ q' = [q EXCEPT !.asked = @ \ {c},
                       !.kept = @ \cup {id \in q.rows : rows[id].commit = c /\ Reaches(id)}]
     \/ q' = [q EXCEPT !.asked = @ \ {c}, !.gaveUp = @ \cup {c}]
  /\ UNCHANGED World

(* git could not be run, or broke its contract.                             *)
ReachabilityFails ==
  /\ q.pc = "ask" /\ q.asked # {}
  /\ Degraded("reachability")
  /\ UNCHANGED World

StagedRows == {id \in q.rows : ~Committed(id)}

(* The rows of the commits are known; git diff --staged is started for the  *)
(* staged ones, in a process group of its own.  It reads the index, and a   *)
(* diff driver that it runs may hold its pipes.                             *)
SpawnStagedDiff ==
  /\ q.pc = "ask" /\ q.asked = {} /\ StagedRows # {}
  /\ \E driver \in BOOLEAN :
       q' = [q EXCEPT !.pc = "diff", !.git = "runs", !.driver = driver, !.hash = index]
  /\ UNCHANGED World

GitEnds ==
  /\ q.pc = "diff" /\ q.git = "runs"
  /\ \E end \in {"printed", "failed"} : q' = [q EXCEPT !.git = end]
  /\ UNCHANGED World

DriverEnds ==
  /\ q.pc = "diff" /\ q.driver
  /\ q' = [q EXCEPT !.driver = FALSE]
  /\ UNCHANGED World

(* execa's time limit signals git, and the call will reject.                *)
TimeIsUp ==
  /\ q.pc = "diff" /\ q.clock = 0 /\ (q.git = "runs" \/ q.driver)
  /\ q' = [q EXCEPT !.clock = 1, !.git = "killed"]
  /\ UNCHANGED World

KillTree_GitOnly(summary) == [summary EXCEPT !.git = "killed"]
(* planProcessTreeKill: the whole group, 250 ms later.                      *)
KillTree(summary) == [summary EXCEPT !.git = "killed", !.driver = FALSE]
Backstop ==
  /\ q.pc = "diff" /\ q.clock = 1 /\ q.driver
  /\ q' = [KillTree(q) EXCEPT !.clock = 2]
  /\ UNCHANGED World

(* The pipes are closed and git is gone: computeStagedDiffHash returns, and *)
(* admitStagedRows keeps the rows of the same hash, or none.                *)
StagedDiffSettles ==
  /\ q.pc = "diff" /\ q.git # "runs" /\ ~q.driver
  /\ IF q.git = "printed"
     THEN q' = [q EXCEPT !.pc = "sum", !.kept = @ \cup {id \in StagedRows : rows[id].hash = q.hash}]
     ELSE q' = [q EXCEPT !.pc = "sum", !.logged = @ \cup {"staged"}]
  /\ UNCHANGED World

(* summarizeRows: a finding counts once, with its latest observation; what  *)
(* is counted is kept here as a set.                                        *)
Ids(S) == {rows[id].finding : id \in S}
Latest(S) == {id \in S : \A other \in S : rows[other].finding = rows[id].finding => other <= id}
Highest(S) == CHOOSE s \in {rows[id].severity : id \in S} : \A id \in S : rows[id].severity <= s
Summarize ==
  /\ \/ q.pc = "sum"
     \/ q.pc = "ask" /\ q.asked = {} /\ StagedRows = {}
  /\ q' = [q EXCEPT !.pc = "done",
                    !.answer = IF q.kept = {} THEN Empty
                               ELSE [told |-> Ids(q.kept), top |-> Highest(Latest(q.kept))]]
  /\ UNCHANGED World

SummaryNext ==
  \/ \E f \in Findings, place \in Places, severity \in Severities : Observe(f, place, severity)
  \/ \E f \in Findings, to \in {"dismissed", "fixed"} : Mutate(f, to)
  \/ MoveTree
  \/ Start \/ ReadRows \/ ReachabilityFails \/ SpawnStagedDiff \/ GitEnds \/ DriverEnds
  \/ \E c \in Commits : AskReachable(c)
  \/ TimeIsUp \/ Backstop \/ StagedDiffSettles \/ Summarize

-----------------------------------------------------------------------------
(* What was there all the time and no named failure explains the loss of.   *)
Owed == {id \in q.always : IF Committed(id) THEN rows[id].commit \notin q.gaveUp ELSE "staged" \notin q.logged}
(* What may be told: what was unresolved at some moment of the query and    *)
(* concerned the worktree at some moment, or belongs to any commit (--all). *)
Candidates == {id \in q.open : id \in q.near \/ (q.all /\ Committed(id))}

(* The session is told of every unresolved finding that concerned its       *)
(* worktree all the while, whatever reviews of other branches observed      *)
(* since, and of none that never was unresolved or never concerned it; a    *)
(* read that fails tells of nothing rather than of a part; the severity is  *)
(* one of a finding it may count; and once the backstop has fired nothing   *)
(* holds up the session.                                                    *)
SummaryIsHonest ==
  /\ q.pc = "done" =>
       IF q.logged \cap {"unreadable", "reachability"} # {} THEN q.answer = Empty
       ELSE /\ Ids(Owed) \subseteq q.answer.told /\ q.answer.told \subseteq Ids(Candidates)
            /\ q.answer.top \in {0} \cup {rows[id].severity : id \in Candidates}
            /\ q.answer.top = 0 <=> q.answer.told = {}
  /\ q.clock = 2 => q.git # "runs" /\ ~q.driver

SummarySpec == SummaryInit /\ [][SummaryNext]_summaryVars

-----------------------------------------------------------------------------
(* What the proofs need                                                     *)

Fields == {"pc", "all", "rows", "asked", "kept", "open", "near", "always", "gaveUp", "git", "hash",
           "driver", "clock", "logged", "answer"}
Observations == [finding : Findings, commit : Commits \cup {"none"}, hash : Contents \cup {"none"},
                 severity : Severities]
SummaryTypes ==
  /\ rows \in Seq(Observations)
  /\ DOMAIN q = Fields /\ q.pc \in {"away", "read", "ask", "diff", "sum", "done"}
  /\ q.all \in BOOLEAN

(* While the summary is made, the three sets are what they are named for.   *)
WatchFits ==
  q.pc \notin {"away", "done"} =>
    /\ Live \subseteq q.open /\ Near \subseteq q.near /\ q.always \subseteq Live \cap Near
    /\ q.logged \cap {"unreadable", "reachability"} = {}
FreshFits ==
  q.pc \in {"away", "read"} => q.answer = Empty /\ q.kept = {} /\ q.clock = 0 /\ q.logged = {}
(* What was there all the time is among the rows, and kept unless it is     *)
(* still asked about or was given up; what is kept is a candidate.          *)
KeptFits ==
  q.pc \in {"ask", "diff", "sum"} =>
    /\ q.always \subseteq q.rows /\ q.rows \subseteq q.open /\ q.rows \subseteq 1..Len(rows)
    /\ q.kept \subseteq {id \in q.rows : id \in q.near \/ (q.all /\ Committed(id))}
    /\ \A id \in q.always : Committed(id) =>
         \/ id \in q.kept \/ rows[id].commit \in q.gaveUp
         \/ q.pc = "ask" /\ rows[id].commit \in q.asked
(* The hash is that of the index at one moment of the query.                *)
StagedFits ==
  /\ q.pc = "ask" => q.clock = 0 /\ q.logged = {}
  /\ q.pc = "diff" =>
       \A id \in q.rows : ~Committed(id) =>
         (id \in q.always => rows[id].hash = q.hash) /\ (rows[id].hash = q.hash => id \in q.near)
  /\ q.pc = "sum" =>
       \A id \in q.always : ~Committed(id) => id \in q.kept \/ "staged" \in q.logged
SummaryFits ==
  SummaryTypes /\ WatchFits /\ FreshFits /\ KeptFits /\ StagedFits /\ SummaryIsHonest
===============================================================================
