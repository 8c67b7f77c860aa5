---------------------- MODULE FindingLifecycleProofs ----------------------
(***************************************************************************)
(* The dispositions and the links between findings, for any number of      *)
(* findings, reviews and events.  A finding is kept, inserted or moved by  *)
(* one event; dismissed and deferred ones are only ever kept, so what a    *)
(* link was made from still holds when somebody decides it.                *)
(***************************************************************************)
EXTENDS FindingLifecycle, TLAPS

Kept(f) ==
  status'[f] = status[f] /\ events'[f] = events[f] /\ first'[f] = first[f]
Inserted(f) ==
  /\ status[f] = "none" /\ status'[f] = "open" /\ events'[f] = events[f]
  /\ first'[f] = reviews + 1 /\ reviews' = reviews + 1
Moved(f, t) ==
  /\ status[f] \in Actionable \cup {"fixed"} /\ first'[f] = first[f]
  /\ events'[f] = Append(events[f], t) /\ status'[f] = StatusAfter(t)
  /\ t \in {"reopened", "regressed"} <=> status[f] = "fixed"
FindingSteps ==
  /\ reviews' \in Nat /\ reviews <= reviews'
  /\ status' \in [Findings -> Statuses \cup {"none"}]
  /\ first' \in [Findings -> Nat] /\ last' \in [Findings -> Nat]
  /\ events' \in [Findings -> Seq(EventTypes)]
  /\ \A f \in Findings : Kept(f) \/ Inserted(f) \/ \E t \in EventTypes : Moved(f, t)

LEMMA DecideSteps ==
  ASSUME IInv, NEW f \in Findings, NEW t \in EventTypes \ {"regressed"},
         status[f] \in Actionable \cup {"fixed"},
         t = "reopened" <=> status[f] = "fixed",
         status' = [status EXCEPT ![f] = StatusAfter(t)], Record(f, t),
         UNCHANGED <<reviews, first, last>>
  PROVE FindingSteps
<1> USE DEF IInv, TypeOK, EventTypes, Statuses, Actionable, Suppressed, StatusAfter
<1>1. events' \in [Findings -> Seq(EventTypes)] BY DEF Record
<1>2. Moved(f, t) BY DEF Moved, Record
<1>3. \A g \in Findings : g # f => Kept(g) BY DEF Kept, Record
<1>4. status' \in [Findings -> Statuses \cup {"none"}] OBVIOUS
<1>5. reviews' \in Nat /\ reviews <= reviews' OBVIOUS
<1>6. first' \in [Findings -> Nat] /\ last' \in [Findings -> Nat] OBVIOUS
<1>7. \A g \in Findings : Kept(g) \/ \E u \in EventTypes : Moved(g, u)
  BY <1>2, <1>3
<1> QED BY <1>1, <1>4, <1>5, <1>6, <1>7 DEF FindingSteps

LEMMA PersistSteps ==
  ASSUME IInv, PersistReview
  PROVE FindingSteps
<1> USE DEF IInv, TypeOK, EventTypes, Statuses, Actionable, Suppressed, StatusAfter,
      Reconciled, FirstReview
<1>1. PICK observed \in SUBSET Findings :
        /\ status' = [f \in Findings |->
             IF f \in observed THEN Reconciled(status[f]) ELSE status[f]]
        /\ first' = [f \in Findings |->
             IF f \in observed THEN FirstReview(status[f], first[f]) ELSE first[f]]
        /\ last' = [f \in Findings |-> IF f \in observed THEN reviews' ELSE last[f]]
        /\ events' = [f \in Findings |->
             IF f \in observed /\ status[f] = "fixed" THEN Append(events[f], "regressed")
             ELSE events[f]]
  BY DEF PersistReview
<1>2. reviews' = reviews + 1 BY DEF PersistReview
<1>3. ASSUME NEW f \in Findings
      PROVE Kept(f) \/ Inserted(f) \/ Moved(f, "regressed")
  BY <1>1, <1>2 DEF Kept, Inserted, Moved
<1>4. status' \in [Findings -> Statuses \cup {"none"}] /\ first' \in [Findings -> Nat]
      /\ last' \in [Findings -> Nat]
  BY <1>1, <1>2
<1>5. events' \in [Findings -> Seq(EventTypes)] BY <1>1
<1> QED BY <1>2, <1>3, <1>4, <1>5 DEF FindingSteps

LEMMA StepsOfFindings ==
  ASSUME IInv, [Next]_vars
  PROVE FindingSteps
<1>1. CASE PersistReview BY <1>1, PersistSteps
<1>2. ASSUME NEW f \in Findings, Reopen(f) PROVE FindingSteps
  BY <1>2, DecideSteps DEF Reopen, StatusAfter, EventTypes
<1>3. ASSUME NEW f \in Findings, NEW to \in Suppressed \cup {"fixed"}, Decide(f, to)
      PROVE FindingSteps
  BY <1>3, DecideSteps DEF Decide, StatusAfter, EventTypes, Suppressed, Actionable
<1>4. ASSUME NEW l \in links, Confirm(l) PROVE FindingSteps
  <2>1. l.candidate \in Findings /\ l.kind \in Suppressed BY DEF IInv, TypeOK, Links
  <2> QED BY <1>4, <2>1, DecideSteps
        DEF Confirm, StatusAfter, EventTypes, Suppressed, Actionable
<1>5. ASSUME UNCHANGED <<reviews, status, first, last, events>> PROVE FindingSteps
  BY <1>5 DEF FindingSteps, Kept, IInv, TypeOK
<1> QED BY <1>1, <1>2, <1>3, <1>4, <1>5 DEF Next, Reject, vars

-----------------------------------------------------------------------------
(* Histories                                                                *)

LEMMA LawfulAppend ==
  ASSUME NEW e \in Seq(EventTypes), NEW t \in EventTypes, Lawful(e),
         t \in {"reopened", "regressed"} <=> e # <<>> /\ e[Len(e)] = "fixed"
  PROVE /\ Lawful(Append(e, t)) /\ Append(e, t) # <<>>
        /\ Append(e, t)[Len(Append(e, t))] = t
<1> DEFINE a == Append(e, t)
<1>1. Len(a) = Len(e) + 1 /\ a[Len(e) + 1] = t /\ Len(e) \in Nat
      /\ \A i \in 1 .. Len(e) : a[i] = e[i]
  OBVIOUS
<1>2. e # <<>> <=> Len(e) > 0 OBVIOUS
<1>3. ASSUME NEW i \in 1 .. Len(a)
      PROVE a[i] \in {"reopened", "regressed"} <=> i > 1 /\ a[i - 1] = "fixed"
  <2> HIDE DEF a
  <2>1. CASE i = Len(e) + 1 BY <1>1, <1>2, <2>1
  <2>2. CASE i \in 1 .. Len(e) BY <1>1, <2>2 DEF Lawful
  <2> QED BY <1>1, <2>1, <2>2
<1> QED BY <1>1, <1>3 DEF Lawful

LEMMA HistoryKeeps ==
  ASSUME IInv, FindingSteps
  PROVE HistoryExplains' /\ Rows'
<1> USE DEF IInv, FindingSteps
<1>1. ASSUME NEW f \in Findings
      PROVE /\ status'[f] = (IF events'[f] # <<>>
                               THEN StatusAfter(events'[f][Len(events'[f])])
                               ELSE IF first'[f] = 0 THEN "none" ELSE "open")
            /\ Lawful(events'[f])
            /\ first'[f] <= reviews'
            /\ first'[f] = 0 <=> status'[f] = "none"
            /\ first'[f] = 0 => events'[f] = <<>>
  <2>1. CASE Kept(f) BY <2>1 DEF Kept, HistoryExplains, Rows, TypeOK
  <2>2. CASE Inserted(f) BY <2>2 DEF Inserted, HistoryExplains, Rows, TypeOK
  <2>3. ASSUME NEW t \in EventTypes, Moved(f, t)
        PROVE /\ status'[f] = StatusAfter(events'[f][Len(events'[f])])
              /\ events'[f] # <<>> /\ Lawful(events'[f])
              /\ first'[f] = first[f] /\ first[f] # 0
    <3>1. events[f] \in Seq(EventTypes) BY DEF TypeOK
    <3>2. status[f] = "fixed" <=> events[f] # <<>> /\ events[f][Len(events[f])] = "fixed"
      BY <3>1 DEF HistoryExplains, StatusAfter
    <3> QED BY <2>3, <3>1, <3>2, LawfulAppend
          DEF Moved, HistoryExplains, Rows, Actionable
  <2>4. \A t \in EventTypes : StatusAfter(t) # "none"
    BY DEF StatusAfter, EventTypes, Suppressed
  <2>5. ASSUME NEW t \in EventTypes, Moved(f, t) PROVE status'[f] # "none"
    BY <2>4, <2>5 DEF Moved
  <2> QED BY <2>1, <2>2, <2>3, <2>5 DEF Rows, TypeOK
<1> QED BY <1>1 DEF HistoryExplains, Rows

-----------------------------------------------------------------------------
(* Links                                                                    *)

Linked == links \in SUBSET Links /\ OnePerCandidate /\ \A l \in links : LinkStands(l)

LEMMA LatestExists ==
  ASSUME IInv, NEW m \in Findings, status[m] \in Suppressed
  PROVE LatestEvent(events[m], status[m]) \in Nat
<1> DEFINE e == events[m]
<1>1. e \in Seq(EventTypes) /\ e # <<>> /\ e[Len(e)] = status[m]
  BY DEF IInv, TypeOK, HistoryExplains, StatusAfter, Suppressed
<1>2. Len(e) \in DOMAIN e /\ \A j \in DOMAIN e : j \in Nat /\ j <= Len(e)
  BY <1>1
<1> HIDE DEF e
<1>3. \E i \in DOMAIN e : e[i] = status[m] /\ \A j \in DOMAIN e : e[j] = status[m] => j <= i
  BY <1>1, <1>2
<1> QED BY <1>2, <1>3 DEF LatestEvent, e

(* What a link leads to, and what a confirmed one inherited, stays. *)
LEMMA LinkKeeps ==
  ASSUME IInv, FindingSteps, NEW l \in links
  PROVE /\ SourceCurrent(l)' /\ first'[l.matched] < first'[l.candidate]
        /\ first[l.candidate] # 0
        /\ l.state = "confirmed" =>
             /\ status'[l.candidate] = l.kind
             /\ l.inherited \in DOMAIN events'[l.candidate]
             /\ events'[l.candidate][l.inherited] = l.kind
<1> DEFINE c == l.candidate
           m == l.matched
<1>1. /\ c \in Findings /\ m \in Findings /\ l.kind \in Suppressed
      /\ first[c] \in Nat /\ first[m] \in Nat
  BY DEF IInv, TypeOK, Links
<1>2. SourceCurrent(l) /\ first[m] < first[c] /\ LinkStands(l)
  BY DEF IInv, LinkStands
<1>3. \A f \in Findings : status[f] \in Suppressed => Kept(f)
  BY DEF FindingSteps, Inserted, Moved, Suppressed, Actionable
<1>4. Kept(m) BY <1>1, <1>2, <1>3 DEF SourceCurrent
<1>5. SourceCurrent(l)' BY <1>2, <1>4 DEF SourceCurrent, Kept
<1>6. first[c] # 0 BY <1>1, <1>2
<1>7. first'[c] = first[c]
  BY <1>1, <1>6 DEF FindingSteps, Kept, Inserted, Moved, IInv, Rows
<1>8. l.state = "confirmed" => Kept(c) BY <1>1, <1>2, <1>3 DEF LinkStands
<1> QED BY <1>2, <1>4, <1>5, <1>6, <1>7, <1>8 DEF Kept, LinkStands

(* No candidate of a suggested link leaves the actionable statuses. *)
LEMMA SameLinks ==
  ASSUME IInv, FindingSteps, links' = links,
         \A l \in links : l.state = "suggested" => status'[l.candidate] \in Actionable
  PROVE Linked'
<1>1. \A l \in links : LinkStands(l)' BY LinkKeeps DEF LinkStands
<1> QED BY <1>1 DEF Linked, OnePerCandidate, IInv, TypeOK

(* One decision on the links of candidate f, or on one of them. *)
LEMMA DecidedLinks ==
  ASSUME IInv, FindingSteps, NEW f \in Findings,
         \A g \in Findings : g # f => status'[g] = status[g],
         NEW D \in [links -> Links], links' = {D[l] : l \in links},
         \A l \in links :
           /\ D[l].candidate = l.candidate /\ D[l].matched = l.matched
           /\ D[l].source = l.source /\ D[l].kind = l.kind
           /\ D[l].state = "suggested" => l.state = "suggested" /\ l.candidate # f
           /\ D[l].state = "confirmed" =>
                \/ l.state = "confirmed" /\ D[l].inherited = l.inherited
                \/ /\ status'[l.candidate] = l.kind
                   /\ D[l].inherited \in DOMAIN events'[l.candidate]
                   /\ events'[l.candidate][D[l].inherited] = l.kind
  PROVE Linked'
<1>1. links' \in SUBSET Links OBVIOUS
<1>2. OnePerCandidate'
  <2> SUFFICES ASSUME NEW k \in links', NEW l \in links', k.candidate = l.candidate
               PROVE k = l
    BY DEF OnePerCandidate
  <2>1. PICK a \in links, b \in links : k = D[a] /\ l = D[b] OBVIOUS
  <2>2. a.candidate = b.candidate BY <2>1
  <2> QED BY <2>1, <2>2 DEF IInv, OnePerCandidate
<1>3. ASSUME NEW l \in links PROVE LinkStands(D[l])'
  <2>1. LinkStands(l) /\ l.candidate \in Findings BY DEF IInv, TypeOK, Links
  <2>2. SourceCurrent(D[l])' /\ first'[D[l].matched] < first'[D[l].candidate]
    BY LinkKeeps DEF SourceCurrent
  <2>3. D[l].state = "suggested" => status'[l.candidate] \in Actionable
    BY <2>1 DEF LinkStands
  <2>4. D[l].state = "confirmed" =>
          /\ status'[l.candidate] = l.kind
          /\ D[l].inherited \in DOMAIN events'[l.candidate]
          /\ events'[l.candidate][D[l].inherited] = l.kind
    BY LinkKeeps
  <2> QED BY <2>2, <2>3, <2>4 DEF LinkStands
<1> QED BY <1>1, <1>2, <1>3 DEF Linked

LEMMA DecideKeepsLinks ==
  ASSUME IInv, FindingSteps, NEW f \in Findings, NEW to \in Suppressed \cup {"fixed"},
         Decide(f, to)
  PROVE Linked'
<1> DEFINE D == [l \in links |-> IF l.candidate = f /\ l.state = "suggested"
                                  THEN [l EXCEPT !.state = "expired"] ELSE l]
<1>1. links' = {D[l] : l \in links} BY DEF Decide, ExpireSuggested
<1>2. \A l \in links :
        /\ D[l] \in Links
        /\ D[l].candidate = l.candidate /\ D[l].matched = l.matched
        /\ D[l].source = l.source /\ D[l].kind = l.kind
        /\ D[l].inherited = l.inherited
        /\ D[l].state = "suggested" => l.state = "suggested" /\ l.candidate # f
        /\ D[l].state = "confirmed" => l.state = "confirmed"
  BY DEF Links, IInv, TypeOK
<1>3. \A g \in Findings : g # f => status'[g] = status[g]
  BY DEF Decide, IInv, TypeOK
<1> HIDE DEF D
<1>4. D \in [links -> Links] BY <1>2 DEF D
<1> QED BY <1>1, <1>2, <1>3, <1>4, DecidedLinks

LEMMA ConfirmKeepsLinks ==
  ASSUME IInv, FindingSteps, NEW k \in links, Confirm(k)
  PROVE Linked'
<1> DEFINE f == k.candidate
           D == [l \in links |-> IF l = k THEN [k EXCEPT !.state = "confirmed",
                                      !.inherited = Len(events[f]) + 1] ELSE l]
<1>0. f \in Findings /\ k \in Links /\ k.kind \in Suppressed
      /\ events[f] \in Seq(EventTypes)
  BY DEF IInv, TypeOK, Links
<1>1. links' = {D[l] : l \in links}
  <2>1. links' = (links \ {k}) \cup
          {[k EXCEPT !.state = "confirmed", !.inherited = Len(events[f]) + 1]}
    BY DEF Confirm, Replace
  <2>2. D[k] = [k EXCEPT !.state = "confirmed", !.inherited = Len(events[f]) + 1]
        /\ \A l \in links \ {k} : D[l] = l
    OBVIOUS
  <2> HIDE DEF D, f
  <2> QED BY <2>1, <2>2
<1>2. \A l \in links : D[l] \in Links
  <2>1. Len(events[f]) + 1 \in Nat /\ links \in SUBSET Links
    BY <1>0 DEF IInv, TypeOK
  <2>2. [k EXCEPT !.state = "confirmed", !.inherited = Len(events[f]) + 1] \in Links
    BY <1>0, <2>1 DEF Links
  <2> QED BY <2>1, <2>2
<1>3. /\ status'[f] = k.kind
      /\ Len(events[f]) + 1 \in DOMAIN events'[f]
      /\ events'[f][Len(events[f]) + 1] = k.kind
  <2>1. events'[f] = Append(events[f], k.kind)
    BY <1>0 DEF Confirm, Record, IInv, TypeOK
  <2> QED BY <1>0, <2>1 DEF Confirm, IInv, TypeOK
<1>4. \A l \in links : l.candidate = f => l = k BY DEF IInv, OnePerCandidate
<1>5. \A l \in links :
        /\ D[l].candidate = l.candidate /\ D[l].matched = l.matched
        /\ D[l].source = l.source /\ D[l].kind = l.kind
        /\ D[l].state = "suggested" => l.state = "suggested" /\ l.candidate # f
        /\ D[l].state = "confirmed" =>
             \/ l.state = "confirmed" /\ D[l].inherited = l.inherited
             \/ /\ status'[l.candidate] = l.kind
                /\ D[l].inherited \in DOMAIN events'[l.candidate]
                /\ events'[l.candidate][D[l].inherited] = l.kind
  BY <1>0, <1>3, <1>4 DEF Links, IInv, TypeOK
<1>6. \A g \in Findings : g # f => status'[g] = status[g]
  BY DEF Confirm, IInv, TypeOK
<1> HIDE DEF D, f
<1>7. D \in [links -> Links] BY <1>2 DEF D
<1> QED BY <1>0, <1>1, <1>5, <1>6, <1>7, DecidedLinks

LEMMA RejectKeepsLinks ==
  ASSUME IInv, FindingSteps, NEW k \in links, Reject(k)
  PROVE Linked'
<1> DEFINE D == [l \in links |->
                   IF l = k THEN [k EXCEPT !.state = "rejected"] ELSE l]
<1>1. links' = {D[l] : l \in links}
  <2>1. links' = (links \ {k}) \cup {[k EXCEPT !.state = "rejected"]}
    BY DEF Reject, Replace
  <2>2. D[k] = [k EXCEPT !.state = "rejected"] /\ \A l \in links \ {k} : D[l] = l
    OBVIOUS
  <2> HIDE DEF D
  <2> QED BY <2>1, <2>2
<1>2. k \in Links /\ k.candidate \in Findings BY DEF IInv, TypeOK, Links
<1>3. \A l \in links : l.candidate = k.candidate => l = k BY DEF IInv, OnePerCandidate
<1>4. \A l \in links :
        /\ D[l] \in Links
        /\ D[l].candidate = l.candidate /\ D[l].matched = l.matched
        /\ D[l].source = l.source /\ D[l].kind = l.kind
        /\ D[l].inherited = l.inherited
        /\ D[l].state = "suggested" => l.state = "suggested" /\ l.candidate # k.candidate
        /\ D[l].state = "confirmed" => l.state = "confirmed"
  BY <1>2, <1>3 DEF Links, IInv, TypeOK
<1>5. \A g \in Findings : status'[g] = status[g] BY DEF Reject
<1> HIDE DEF D
<1>6. D \in [links -> Links] BY <1>4 DEF D
<1> QED BY <1>1, <1>2, <1>4, <1>5, <1>6, DecidedLinks

LEMMA PersistKeepsLinks ==
  ASSUME IInv, FindingSteps, PersistReview
  PROVE Linked'
<1>1. PICK best \in [Findings -> Findings \cup {None}] :
        /\ \A f \in Findings : best[f] # None =>
             status[f] = "none" /\ best[f] \in Matches(f)
             /\ status'[f] = "open" /\ first'[f] = reviews + 1
        /\ links' = links \cup
             {Suggestion(f, best[f]) : f \in {g \in Findings : best[g] # None}}
  <2>1. PICK observed \in SUBSET Findings :
          /\ status' = [f \in Findings |->
               IF f \in observed THEN Reconciled(status[f]) ELSE status[f]]
          /\ first' = [f \in Findings |->
               IF f \in observed THEN FirstReview(status[f], first[f]) ELSE first[f]]
          /\ \E best \in [Findings -> Findings \cup {None}] :
               /\ \A f \in Findings : best[f] # None =>
                    /\ f \in observed /\ status[f] = "none"
                    /\ best[f] \in Matches(f) /\ ~HasSuggestion(f)
               /\ links' = links \cup
                    {Suggestion(f, best[f]) : f \in {g \in Findings : best[g] # None}}
    BY DEF PersistReview
  <2>0. PICK best \in [Findings -> Findings \cup {None}] :
          /\ \A f \in Findings : best[f] # None =>
               f \in observed /\ status[f] = "none" /\ best[f] \in Matches(f)
          /\ links' = links \cup
               {Suggestion(f, best[f]) : f \in {g \in Findings : best[g] # None}}
    BY <2>1
  <2>2. \A f \in Findings : best[f] # None =>
          status'[f] = "open" /\ first'[f] = reviews + 1
    BY <2>0, <2>1 DEF Reconciled, FirstReview
  <2> QED BY <2>0, <2>2
<1> DEFINE New == {g \in Findings : best[g] # None}
<1>2. ASSUME NEW f \in New, NEW s, s = Suggestion(f, best[f])
      PROVE /\ s \in Links /\ LinkStands(s)' /\ s.candidate = f
            /\ \A l \in links : l.candidate # f
  <2> DEFINE m == best[f]
  <2>1. f \in Findings /\ m \in Findings /\ status[m] \in Suppressed /\ status[f] = "none"
    BY <1>1 DEF Matches
  <2>2. LatestEvent(events[m], status[m]) \in Nat BY <2>1, LatestExists
  <2>3. /\ s \in Links /\ s.candidate = f /\ s.matched = m /\ s.state = "suggested"
        /\ s.kind = status[m] /\ s.source = LatestEvent(events[m], status[m])
    BY <1>2, <2>1, <2>2 DEF Suggestion, Links
  <2>4. Kept(m) BY <2>1 DEF FindingSteps, Inserted, Moved, Suppressed, Actionable
  <2>5. SourceCurrent(s)' BY <2>3, <2>4 DEF SourceCurrent, Kept
  <2>6. first'[m] < first'[f]
    BY <1>1, <2>1, <2>4 DEF Kept, IInv, Rows, TypeOK
  <2>7. status'[f] \in Actionable BY <1>1, <2>1 DEF Actionable
  <2>8. LinkStands(s)' BY <2>3, <2>5, <2>6, <2>7 DEF LinkStands
  <2>9. first[f] = 0 BY <2>1 DEF IInv, Rows
  <2> QED BY <2>3, <2>8, <2>9, LinkKeeps
<1>3. links' \in SUBSET Links BY <1>1, <1>2 DEF IInv, TypeOK
<1>4. OnePerCandidate'
  <2>1. \A l \in links' : l \in links \/ \E f \in New : l = Suggestion(f, best[f])
    BY <1>1
  <2>2. \A f \in New : /\ Suggestion(f, best[f]).candidate = f
                       /\ \A l \in links : l.candidate # f
    BY <1>2
  <2> HIDE DEF New
  <2> SUFFICES ASSUME NEW k \in links', NEW l \in links', k.candidate = l.candidate
               PROVE k = l
    BY DEF OnePerCandidate
  <2>3. CASE k \in links /\ l \in links BY <2>3 DEF IInv, OnePerCandidate
  <2>4. CASE \E f \in New : k = Suggestion(f, best[f])
    BY <2>1, <2>2, <2>4
  <2>5. CASE \E f \in New : l = Suggestion(f, best[f])
    BY <2>1, <2>2, <2>5
  <2> QED BY <2>1, <2>3, <2>4, <2>5
<1>5. ASSUME NEW l \in links PROVE LinkStands(l)'
  <2>1. l.candidate \in Findings /\ LinkStands(l) BY DEF IInv, TypeOK, Links
  <2>2. status[l.candidate] \in Actionable => status'[l.candidate] \in Actionable
    <3>1. PICK observed \in SUBSET Findings : status' = [f \in Findings |->
            IF f \in observed THEN Reconciled(status[f]) ELSE status[f]]
      BY DEF PersistReview
    <3> QED BY <2>1, <3>1 DEF Reconciled, Actionable
  <2>3. l.state = "suggested" => status'[l.candidate] \in Actionable
    BY <2>1, <2>2 DEF LinkStands
  <2> QED BY <2>3, LinkKeeps DEF LinkStands
<1>6. ASSUME NEW l \in links' PROVE LinkStands(l)'
  <2>1. l \in links \/ \E f \in New : l = Suggestion(f, best[f]) BY <1>1
  <2> HIDE DEF New
  <2> QED BY <1>2, <1>5, <2>1
<1> QED BY <1>3, <1>4, <1>6 DEF Linked

-----------------------------------------------------------------------------
(* Theorems                                                                 *)

LEMMA InitIInv == Init => IInv
BY DEF Init, IInv, TypeOK, HistoryExplains, Rows, Lawful, OnePerCandidate,
  Actionable, Suppressed, Statuses

LEMMA StepKeeps == IInv /\ [Next]_vars => IInv'
<1> SUFFICES ASSUME IInv, [Next]_vars PROVE IInv'
  OBVIOUS
<1>1. FindingSteps BY StepsOfFindings
<1>2. HistoryExplains' /\ Rows' BY <1>1, HistoryKeeps
<1>3. Linked'
  <2>1. CASE PersistReview BY <1>1, <2>1, PersistKeepsLinks
  <2>2. ASSUME NEW f \in Findings, Reopen(f) PROVE Linked'
    <3>1. \A l \in links : l.state = "suggested" =>
            l.candidate # f /\ status[l.candidate] \in Actionable
      BY <2>2 DEF Reopen, IInv, LinkStands, Actionable
    <3>2. \A g \in Findings \ {f} : status'[g] = status[g]
      BY <2>2 DEF Reopen, IInv, TypeOK
    <3>3. \A l \in links : l.candidate \in Findings BY DEF IInv, TypeOK, Links
    <3>4. links' = links BY <2>2 DEF Reopen
    <3> QED BY <1>1, <3>1, <3>2, <3>3, <3>4, SameLinks
  <2>3. ASSUME NEW f \in Findings, NEW to \in Suppressed \cup {"fixed"}, Decide(f, to)
        PROVE Linked'
    BY <1>1, <2>3, DecideKeepsLinks
  <2>4. ASSUME NEW l \in links, Confirm(l) PROVE Linked'
    BY <1>1, <2>4, ConfirmKeepsLinks
  <2>5. ASSUME NEW l \in links, Reject(l) PROVE Linked'
    BY <1>1, <2>5, RejectKeepsLinks
  <2>6. CASE UNCHANGED vars
    <3>1. links' = links /\ status' = status BY <2>6 DEF vars
    <3>2. \A l \in links : l.state = "suggested" => status[l.candidate] \in Actionable
      BY DEF IInv, LinkStands
    <3> QED BY <1>1, <3>1, <3>2, SameLinks
  <2> QED BY <2>1, <2>2, <2>3, <2>4, <2>5, <2>6 DEF Next
<1> QED BY <1>1, <1>2, <1>3 DEF IInv, TypeOK, FindingSteps, Linked

(* The invariant holds in every reachable state. *)
THEOREM InvariantHolds == Spec => []IInv
BY InitIInv, StepKeeps, PTL DEF Spec

(* Statuses, events and links stay within the values the schema allows; a  *)
(* link never carries the disposition `fixed'.                             *)
THEOREM TypeCorrect == Spec => []TypeOK
<1>1. IInv => TypeOK BY DEF IInv
<1>2. QED BY InvariantHolds, <1>1, PTL

(* The trail of every finding is a lawful history that ends in its status. *)
THEOREM HistoryCorrect == Spec => []HistoryExplains
<1>1. IInv => HistoryExplains BY DEF IInv
<1>2. QED BY InvariantHolds, <1>1, PTL

(* A suggested duplicate can always be confirmed. *)
THEOREM SuggestedCorrect == Spec => []SuggestedIsDecidable
<1>1. IInv => SuggestedIsDecidable
  BY DEF IInv, SuggestedIsDecidable, LinkStands, OnePerCandidate
<1>2. QED BY InvariantHolds, <1>1, PTL

(* Duplicates and their source never disagree once confirmed. *)
THEOREM ConfirmedCorrect == Spec => []ConfirmedAgrees
<1>1. IInv => ConfirmedAgrees
  BY DEF IInv, ConfirmedAgrees, LinkStands, SourceCurrent
<1>2. QED BY InvariantHolds, <1>1, PTL

(* Links lead to findings of earlier reviews. *)
THEOREM MatchedCorrect == Spec => []MatchedIsOlder
<1>1. IInv => MatchedIsOlder BY DEF IInv, MatchedIsOlder, LinkStands
<1>2. QED BY InvariantHolds, <1>1, PTL

(* Links stay consistent: the three theorems above together. *)
THEOREM LinksCorrect == Spec => []LinksAgree
<1>1. SuggestedIsDecidable /\ ConfirmedAgrees /\ MatchedIsOlder => LinksAgree
  BY DEF LinksAgree
<1>2. QED BY SuggestedCorrect, ConfirmedCorrect, MatchedCorrect, <1>1, PTL

(* No later review or command brings back what was dismissed or deferred,  *)
(* and no review leaves a finding it observed fixed.                       *)
THEOREM DispositionsCorrect == Spec => DispositionsStand
<1> DEFINE Stands == \A f \in Findings :
      /\ status[f] \in Suppressed => status'[f] = status[f]
      /\ last'[f] # last[f] => status'[f] # "fixed"
<1>1. ASSUME IInv, [Next]_vars PROVE [Stands]_vars
  <2>1. \A f \in Findings : status[f] \in Suppressed => status'[f] = status[f]
    <3>1. FindingSteps BY <1>1, StepsOfFindings
    <3> QED BY <3>1 DEF FindingSteps, Kept, Inserted, Moved, Suppressed, Actionable
  <2>2. ASSUME NEW f \in Findings, last'[f] # last[f] PROVE status'[f] # "fixed"
    <3>1. PICK observed \in SUBSET Findings :
            /\ status' = [g \in Findings |->
                 IF g \in observed THEN Reconciled(status[g]) ELSE status[g]]
            /\ last' = [g \in Findings |-> IF g \in observed THEN reviews' ELSE last[g]]
      BY <1>1, <2>2
        DEF Next, PersistReview, Reopen, Decide, Confirm, Reject, vars
    <3> QED BY <2>2, <3>1 DEF Reconciled
  <2> QED BY <2>1, <2>2
<1>2. QED BY InvariantHolds, <1>1, PTL DEF Spec, DispositionsStand
=============================================================================
