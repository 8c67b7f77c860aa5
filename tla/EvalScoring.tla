----------------------------- MODULE EvalScoring -----------------------------
(***************************************************************************)
(* How the evaluation harness judges the findings of one trial             *)
(* (src/eval/score.ts) and whether two expected findings, the anchors, were*)
(* kept apart (scoreKeepDistinct of identity-score.ts).  Both pair expected*)
(* with reported findings, each greedily and each in its own order.        *)
(*                                                                         *)
(* A finding in another file is one at a distant line.  The fingerprint of *)
(* a report is abstract; a report that quotes no code has none, and is not *)
(* tracked.  The durable identity of a finding is that of its fingerprint. *)
(* Optional findings of the higher rank are left out of the cases.         *)
(***************************************************************************)
EXTENDS Integers, Sequences, FiniteSets

CONSTANTS Lines, MaxExpected, MaxReported, MinDistinct

VARIABLES question,   \* "score" or "identity"
          expected,   \* expected findings of the case
          reported,   \* what the reviewer reported, before deduplication
          suppressed, \* fingerprints whose findings are dismissed or deferred
          verdict     \* the answer, once given

scoringVars == <<question, expected, reported, suppressed, verdict>>

Tolerance == 1
Untracked == "none"
Lists(S, n) == UNION {[1..k -> S] : k \in 0..n}
Expectations(rank, must) == [line : Lines, rank : rank, must : must]
Reports(rank, print) == [line : Lines, rank : rank, print : print]

ScoringInit ==
  /\ verdict = <<>>
  /\ \/ /\ question = "score" /\ suppressed = {}
        /\ expected \in Lists(Expectations({1}, BOOLEAN) \cup Expectations({2}, {TRUE}), MaxExpected)
        /\ reported \in Lists(Reports({1, 2}, {Untracked}), MaxReported)
     \/ /\ question = "identity" /\ suppressed \in SUBSET {"p"}
        /\ expected \in Lists(Expectations({1}, {TRUE}), MaxExpected)
        /\ reported \in Lists(Reports({1}, {"p", "q", Untracked}), MaxReported)

-----------------------------------------------------------------------------
Distance(e, r) == IF e.line > r.line THEN e.line - r.line ELSE r.line - e.line

(* findingMatchesExpected                                                   *)
Matches(e, r) == Distance(e, r) <= Tolerance /\ r.rank >= e.rank

(* assignTruePositives: candidates by distance, then severity, then (the    *)
(* sort is stable) in the order they were built; one whose two findings are *)
(* free is a hit.                                                           *)
Candidates(wanted, reports) ==
  {c \in (DOMAIN wanted) \X (DOMAIN reports) : Matches(wanted[c[1]], reports[c[2]])}
Near(wanted, reports, c) == Distance(wanted[c[1]], reports[c[2]])
Rank(reports, c) == reports[c[2]].rank
Before(wanted, reports, c, d) ==
  \/ Near(wanted, reports, c) < Near(wanted, reports, d)
  \/ /\ Near(wanted, reports, c) = Near(wanted, reports, d)
     /\ \/ Rank(reports, c) > Rank(reports, d)
        \/ /\ Rank(reports, c) = Rank(reports, d)
           /\ c[1] < d[1] \/ (c[1] = d[1] /\ c[2] < d[2])
First(wanted, reports, free) ==
  CHOOSE c \in free : \A d \in free : d = c \/ Before(wanted, reports, c, d)

TruePositives_ReportReused(wanted, reports) ==
  LET free(used) == {c \in Candidates(wanted, reports) : \A u \in used : u[1] # c[1]}
      used[n \in 0..Len(wanted)] ==
        IF n = 0 THEN {}
        ELSE IF free(used[n - 1]) = {} THEN used[n - 1]
        ELSE used[n - 1] \cup {First(wanted, reports, free(used[n - 1]))}
  IN used[Len(wanted)]
Free(wanted, reports, used) ==
  {c \in Candidates(wanted, reports) : \A u \in used : u[1] # c[1] /\ u[2] # c[2]}
Hit(wanted, reports, used) ==
  LET free == Free(wanted, reports, used)
  IN IF free = {} THEN used ELSE used \cup {First(wanted, reports, free)}
TruePositives(wanted, reports) ==
  LET used[n \in 0..Len(wanted)] == IF n = 0 THEN {} ELSE Hit(wanted, reports, used[n - 1])
  IN used[Len(wanted)]

Found(pairs) == {p[1] : p \in pairs}
Taken(pairs) == {p[2] : p \in pairs}

(* scoreEvalTrial: an unmatched report repeats a finding that was found, or *)
(* matches nothing expected; strict mode also counts optional findings.     *)
ScoredWith(wanted, reports, tp, strict) ==
  LET left == DOMAIN reports \ Taken(tp) IN
  [tp |-> tp,
   redundant |-> {i \in left : \E e \in Found(tp) : Matches(wanted[e], reports[i])},
   fp |-> {i \in left : \A e \in DOMAIN wanted : ~Matches(wanted[e], reports[i])},
   fn |-> {e \in DOMAIN wanted \ Found(tp) : strict \/ wanted[e].must}]
Scored(wanted, reports, strict) ==
  <<ScoredWith(wanted, reports, TruePositives(wanted, reports), strict), strict>>

ScoreTrial ==
  /\ question = "score" /\ verdict = <<>>
  /\ \E strict \in BOOLEAN : verdict' = Scored(expected, reported, strict)
  /\ UNCHANGED <<question, expected, reported, suppressed>>

-----------------------------------------------------------------------------
(* deduplicateReviewFindings keeps the first report of a fingerprint; the   *)
(* run reports the tracked findings that are not suppressed and after them  *)
(* the untracked ones (persistReview).                                      *)
Tracked(r) == r.print # Untracked
Kept(reports) ==
  {i \in DOMAIN reports :
     Tracked(reports[i]) => \A j \in 1..(i - 1) : reports[j].print # reports[i].print}
Actionable(reports, hidden) == {i \in Kept(reports) : reports[i].print \notin hidden}
Ahead(reports, i, j, actionable) ==
  IF actionable /\ Tracked(reports[i]) # Tracked(reports[j]) THEN Tracked(reports[i]) ELSE i <= j

(* firstMatch, anchor after anchor; of what the run reports an untracked    *)
(* match (observationAt is undefined) is a miss, and stays available.       *)
FirstOf(reports, free, actionable) ==
  CHOOSE i \in free : \A j \in free : Ahead(reports, i, j, actionable)
Matched(wanted, reports, S, actionable, e, used) ==
  LET free == {i \in S \ Taken(used) : Matches(wanted[e], reports[i])}
      first == FirstOf(reports, free, actionable)
  IN IF free = {} \/ (actionable /\ ~Tracked(reports[first])) THEN used ELSE used \cup {<<e, first>>}
FirstMatches(wanted, reports, S, actionable) ==
  LET used[e \in 0..Len(wanted)] ==
        IF e = 0 THEN {} ELSE Matched(wanted, reports, S, actionable, e, used[e - 1])
  IN used[Len(wanted)]

(* scoreKeepDistinct on too few hits: fewer anchors reported is a miss,     *)
(* enough after deduplication is suppression or a missing quote, and only   *)
(* what deduplication lost is a failure.                                    *)
KeepDistinct_AnyShortfall(wanted, reports, hidden) ==
  LET hits == FirstMatches(wanted, reports, Actionable(reports, hidden), TRUE) IN
  IF wanted = <<>> THEN <<"na", {}>>
  ELSE IF Cardinality(hits) >= MinDistinct THEN <<"pass", {}>>
  ELSE <<"fail", DOMAIN wanted \ Found(hits)>>
KeepDistinct(wanted, reports, hidden) ==
  LET hits == FirstMatches(wanted, reports, Actionable(reports, hidden), TRUE)
      prints == {reports[h[2]].print : h \in hits}
      before == Found(FirstMatches(wanted, reports, DOMAIN reports, FALSE))
      after == Found(FirstMatches(wanted, reports, Kept(reports), FALSE))
      victims == (before \ after) \ Found(hits)
  IN IF wanted = <<>> THEN <<"na", {}>>
     ELSE IF Cardinality(hits) >= MinDistinct
       THEN IF Cardinality(prints) < Cardinality(hits) THEN <<"fail", Found(hits)>> ELSE <<"pass", {}>>
     ELSE IF Cardinality(before) < MinDistinct \/ Cardinality(after) >= MinDistinct THEN <<"na", {}>>
     ELSE IF victims # {} THEN <<"fail", victims>>
     ELSE IF hits = {} THEN <<"na", {}>> ELSE <<"pass", {}>>

ScoreIdentity ==
  /\ question = "identity" /\ verdict = <<>> /\ verdict' = KeepDistinct(expected, reported, suppressed)
  /\ UNCHANGED <<question, expected, reported, suppressed>>

ScoringNext == ScoreTrial \/ ScoreIdentity
ScoringSpec == ScoringInit /\ [][ScoringNext]_scoringVars

-----------------------------------------------------------------------------
(* Every report counts exactly once, as a hit, a repetition or a false      *)
(* positive; nothing found is counted as missed; a missed finding is one    *)
(* that no spare report matches; and one more report never loses a finding  *)
(* that was found without it, although it may take its place.               *)
ScoreCountsOnce ==
  question = "score" /\ verdict # <<>> =>
    LET s == verdict[1] IN
    /\ Cardinality(s.tp) = Cardinality(Found(s.tp)) /\ Cardinality(s.tp) = Cardinality(Taken(s.tp))
    /\ Cardinality(s.tp) + Cardinality(s.redundant) + Cardinality(s.fp) = Len(reported)
    /\ s.fn \cap Found(s.tp) = {}
    /\ \A e \in DOMAIN expected \ Found(s.tp), i \in DOMAIN reported \ Taken(s.tp) :
         ~Matches(expected[e], reported[i])
    /\ verdict[2] => \A r \in Reports({1, 2}, {Untracked}) :
         Found(s.tp) \subseteq Found(TruePositives(expected, Append(reported, r)))

(* A detection miss, a suppression or a missing quote is never an identity  *)
(* failure: an anchor fails if a report matched it, and something was lost  *)
(* to a merge, a report that stood for an anchor was the second of its      *)
(* fingerprint (of that anchor, or of one that then took its report).       *)
FailureIsCollapse ==
  question = "identity" /\ verdict # <<>> /\ verdict[1] = "fail" =>
    LET before == FirstMatches(expected, reported, DOMAIN reported, FALSE) IN
    /\ verdict[2] # {} /\ verdict[2] \subseteq Found(before)
    /\ \E m \in before :
         /\ Tracked(reported[m[2]])
         /\ \E i \in 1..(m[2] - 1) : reported[i].print = reported[m[2]].print

(* A verdict is what the case and the reports give.                         *)
ScoringFits ==
  /\ expected \in Seq(Expectations({1, 2}, BOOLEAN))
  /\ reported \in Seq(Reports({1, 2}, {"p", "q", Untracked}))
  /\ verdict # <<>> =>
       IF question = "score"
       THEN \E strict \in BOOLEAN : verdict = Scored(expected, reported, strict)
       ELSE verdict = KeepDistinct(expected, reported, suppressed)
=============================================================================
