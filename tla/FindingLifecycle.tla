-------------------------- MODULE FindingLifecycle --------------------------
(***************************************************************************)
(* Findings and their dispositions across reviews (src/src/state/          *)
(* reconcile.ts, lifecycle.ts, possible-duplicates.ts and the repositories *)
(* below them).  A finding is identified by its fingerprint.  Every review *)
(* that reports it again meets whatever users and agents have decided in   *)
(* the meantime, and a new finding that looks like one already dismissed   *)
(* or deferred gets a link to it, which may later be confirmed or rejected.*)
(*                                                                         *)
(* Every command is one transaction, and the commands come in any order,   *)
(* from people who look at older output.  A command that is refused leaves *)
(* no trace.  Left out: which texts are similar (any pair may be), actors  *)
(* and reasons, and the `observed' events, one for each observation.       *)
(***************************************************************************)
EXTENDS Naturals, Sequences, FiniteSets

CONSTANTS Findings,      \* fingerprints a review may report
          None,          \* no match
          MaxReviews,    \* bound on the reviews persisted
          MaxEvents      \* bound on the decisions and regressions of a finding

ASSUME FindingAssumption == None \notin Findings
ASSUME BoundAssumption == MaxReviews \in Nat /\ MaxEvents \in Nat

VARIABLES reviews,      \* number of reviews persisted
          status,       \* findings.status
          first, last,  \* first_review_id and last_review_id, 0: no row
          events,       \* finding_events without the observations, oldest first
          links         \* finding_possible_duplicates

vars == <<reviews, status, first, last, events, links>>

Actionable == {"open", "regressed"}
Suppressed == {"dismissed", "deferred"}
Statuses == Actionable \cup Suppressed \cup {"fixed"}
EventTypes == Suppressed \cup {"fixed", "reopened", "regressed"}

Links == [candidate : Findings, matched : Findings, source : Nat, kind : Suppressed,
          state : {"suggested", "confirmed", "rejected", "expired"}, inherited : Nat]

TypeOK ==
  /\ reviews \in Nat
  /\ status \in [Findings -> Statuses \cup {"none"}]
  /\ first \in [Findings -> Nat] /\ last \in [Findings -> Nat]
  /\ events \in [Findings -> Seq(EventTypes)]
  /\ links \in SUBSET Links

Init ==
  /\ reviews = 0
  /\ status = [f \in Findings |-> "none"]
  /\ first = [f \in Findings |-> 0] /\ last = [f \in Findings |-> 0]
  /\ events = [f \in Findings |-> <<>>]
  /\ links = {}

-----------------------------------------------------------------------------
(* reconcileReviewFindings                                                  *)

Reconciled_Reopens(s) == IF s \in {"none", "dismissed"} THEN "open"
                         ELSE IF s = "fixed" THEN "regressed" ELSE s
(* The status of a finding, s before it was observed.                       *)
Reconciled(s) == IF s = "none" THEN "open"
                 ELSE IF s = "fixed" THEN "regressed" ELSE s

FirstReview_Observed(s, old) == reviews + 1
(* first_review_id: written once, with the row.                             *)
FirstReview(s, old) == IF s = "none" THEN reviews + 1 ELSE old

(* getLatestDispositionEvent: the id of the latest event of that type.      *)
LatestEvent(e, type) ==
  CHOOSE i \in DOMAIN e : e[i] = type /\ \A j \in DOMAIN e : e[j] = type => j <= i

(* listPossibleDuplicateMatches: dismissed or deferred findings that do not *)
(* have a link with f yet.                                                  *)
Matches(f) ==
  {m \in Findings \ {f} :
     /\ status[m] \in Suppressed
     /\ ~ \E l \in links : l.candidate = f /\ l.matched = m}

HasSuggestion(f) == \E l \in links : l.candidate = f /\ l.state = "suggested"

(* insertPossibleDuplicate                                                  *)
Suggestion(f, m) ==
  [candidate |-> f, matched |-> m, source |-> LatestEvent(events[m], status[m]),
   kind |-> status[m], state |-> "suggested", inherited |-> 0]

(* suggestPossibleDuplicates looks at new findings only; its best match is  *)
(* any match, or none, as when the scan fails and is rolled back alone.     *)
PersistReview ==
  /\ reviews < MaxReviews
  /\ reviews' = reviews + 1
  /\ \E observed \in SUBSET Findings :
       /\ \A f \in observed : status[f] = "fixed" => Len(events[f]) < MaxEvents
       /\ status' = [f \in Findings |->
            IF f \in observed THEN Reconciled(status[f]) ELSE status[f]]
       /\ first' = [f \in Findings |->
            IF f \in observed THEN FirstReview(status[f], first[f]) ELSE first[f]]
       /\ last' = [f \in Findings |-> IF f \in observed THEN reviews' ELSE last[f]]
       /\ events' = [f \in Findings |->
            IF f \in observed /\ status[f] = "fixed" THEN Append(events[f], "regressed")
            ELSE events[f]]
       /\ \E best \in [Findings -> Findings \cup {None}] :
            /\ \A f \in Findings : best[f] # None =>
                 /\ f \in observed /\ status[f] = "none"
                 /\ best[f] \in Matches(f) /\ ~HasSuggestion(f)
            /\ links' = links \cup
                 {Suggestion(f, best[f]) : f \in {g \in Findings : best[g] # None}}

-----------------------------------------------------------------------------
(* dismissFinding, deferFinding, fixFinding, reopenFinding                  *)

ExpireSuggested_None(f) == links
(* expireSuggestedPossibleDuplicatesForCandidate                            *)
ExpireSuggested(f) ==
  {IF l.candidate = f /\ l.state = "suggested"
     THEN [l EXCEPT !.state = "expired"] ELSE l : l \in links}

Record(f, type) ==
  /\ Len(events[f]) < MaxEvents
  /\ events' = [events EXCEPT ![f] = Append(@, type)]

Decide_Always(f, to) ==
  /\ status[f] \in Statuses
  /\ status' = [status EXCEPT ![f] = to]
  /\ Record(f, to)
  /\ links' = ExpireSuggested(f)
  /\ UNCHANGED <<reviews, first, last>>
Decide(f, to) ==
  /\ status[f] \in Actionable
  /\ status' = [status EXCEPT ![f] = to]
  /\ Record(f, to)
  /\ links' = ExpireSuggested(f)
  /\ UNCHANGED <<reviews, first, last>>

Reopen_NoEvent(f) ==
  /\ status[f] = "fixed"
  /\ status' = [status EXCEPT ![f] = "open"]
  /\ UNCHANGED <<reviews, first, last, events, links>>
Reopen(f) ==
  /\ status[f] = "fixed"
  /\ status' = [status EXCEPT ![f] = "open"]
  /\ Record(f, "reopened")
  /\ UNCHANGED <<reviews, first, last, links>>

-----------------------------------------------------------------------------
(* confirmPossibleDuplicate, rejectPossibleDuplicate                        *)

Replace(l, k) == (links \ {l}) \cup {k}

(* What confirmPossibleDuplicate requires of the link's source disposition. *)
SourceCurrent(l) ==
  /\ status[l.matched] = l.kind
  /\ LatestEvent(events[l.matched], l.kind) = l.source

(* The candidate takes over the disposition; its links are not expired.     *)
Confirm(l) ==
  LET f == l.candidate IN
  /\ l.state = "suggested"
  /\ status[f] \in Actionable /\ SourceCurrent(l)
  /\ status' = [status EXCEPT ![f] = l.kind]
  /\ Record(f, l.kind)
  /\ links' = Replace(l, [l EXCEPT !.state = "confirmed",
                                   !.inherited = Len(events[f]) + 1])
  /\ UNCHANGED <<reviews, first, last>>

Reject(l) ==
  /\ l.state = "suggested"
  /\ links' = Replace(l, [l EXCEPT !.state = "rejected"])
  /\ UNCHANGED <<reviews, status, first, last, events>>

Next ==
  \/ PersistReview
  \/ \E f \in Findings : Reopen(f) \/ \E to \in Suppressed \cup {"fixed"} : Decide(f, to)
  \/ \E l \in links : Confirm(l) \/ Reject(l)

Spec == Init /\ [][Next]_vars

-----------------------------------------------------------------------------
(* Properties                                                               *)

StatusAfter(type) == IF type = "reopened" THEN "open" ELSE type

(* A fixed finding is reopened or regresses, and no other one does.         *)
Lawful(e) == \A i \in 1 .. Len(e) :
  e[i] \in {"reopened", "regressed"} <=> i > 1 /\ e[i - 1] = "fixed"

(* The event trail explains every status: it is a history the lifecycle     *)
(* allows, and its last event is what the finding is now.                   *)
HistoryExplains ==
  \A f \in Findings : LET e == events[f] IN
    /\ status[f] = (IF e # <<>> THEN StatusAfter(e[Len(e)])
                    ELSE IF first[f] = 0 THEN "none" ELSE "open")
    /\ Lawful(e)

(* A link that waits for a decision can be decided: its candidate is still  *)
(* actionable, it is the only one of it, and its source disposition is      *)
(* current, so confirming is never refused as stale.                        *)
SuggestedIsDecidable ==
  \A l \in links : l.state = "suggested" =>
    /\ status[l.candidate] \in Actionable /\ SourceCurrent(l)
    /\ \A k \in links : k.candidate = l.candidate => k = l

(* A confirmed duplicate keeps the disposition it inherited, which is still *)
(* that of its source, with the event that recorded it.                     *)
ConfirmedAgrees ==
  \A l \in links : l.state = "confirmed" =>
    /\ status[l.candidate] = l.kind /\ status[l.matched] = l.kind
    /\ l.inherited \in DOMAIN events[l.candidate]
    /\ events[l.candidate][l.inherited] = l.kind

(* Links only lead to findings first seen in an earlier review, so no chain *)
(* of inherited dispositions runs in a circle.                              *)
MatchedIsOlder == \A l \in links : first[l.matched] < first[l.candidate]

(* Links between findings stay consistent through reviews, decisions and    *)
(* expiry in any order (src/state/lifecycle.ts, src/state/reconcile.ts).    *)
LinksAgree == SuggestedIsDecidable /\ ConfirmedAgrees /\ MatchedIsOlder

(* What a user dismissed or deferred no later review or command brings back *)
(* and a review never leaves what it observed fixed.                        *)
DispositionsStand ==
  [][\A f \in Findings :
       /\ status[f] \in Suppressed => status'[f] = status[f]
       /\ last'[f] # last[f] => status'[f] # "fixed"]_vars

(* The inductive invariant: a finding exists once it was observed, and has  *)
(* one link at most, made with its row; what a link leads to stays as it is.*)
Rows ==
  \A f \in Findings :
    /\ first[f] <= reviews
    /\ first[f] = 0 <=> status[f] = "none"
    /\ first[f] = 0 => events[f] = <<>>
LinkStands(l) ==
  /\ SourceCurrent(l) /\ first[l.matched] < first[l.candidate]
  /\ l.state = "suggested" => status[l.candidate] \in Actionable
  /\ l.state = "confirmed" =>
       /\ status[l.candidate] = l.kind
       /\ l.inherited \in DOMAIN events[l.candidate]
       /\ events[l.candidate][l.inherited] = l.kind
OnePerCandidate == \A k, l \in links : k.candidate = l.candidate => k = l
IInv ==
  /\ TypeOK /\ HistoryExplains /\ Rows
  /\ OnePerCandidate /\ \A l \in links : LinkStands(l)
=============================================================================
