------------------------ MODULE ReadinessQueryProofs ------------------------
(***************************************************************************)
(* Proofs for ReadinessQuery: what an answer of the readiness query means  *)
(* for every history, every number of reviews and commits and every        *)
(* interleaving of the query with the work it looks at.                    *)
(*                                                                         *)
(* The invariant follows the query through its steps.  What it has read is *)
(* tied to what is there now: the base and HEAD it read are behind the     *)
(* present ones (Targeted), a row of its snapshot has only moved on        *)
(* (Following), and a marker it did not see is of a commit queued later     *)
(* (QueueFollowing).                                                       *)
(* The steps of everybody else are summed up in WorldMoves.                *)
(***************************************************************************)
EXTENDS Integers, ReadinessQuery, FiniteSetTheorems, WellFoundedInduction, TLAPS

-----------------------------------------------------------------------------
(* Graphs without cycles                                                    *)

(* What is reached from a commit over the edges of Up.                      *)
Closure(Up, f) == f = [c \in Commits |-> {c} \cup UNION {f[p] : p \in Up[c]}]

LEMMA ClosureExists ==
  ASSUME NEW Up \in [Commits -> SUBSET Commits]
  PROVE  \E f : Closure(Up, f)
<1> DEFINE Closed(S) == \A c \in S : Up[c] \subseteq S
           Reached(c) == {d \in Commits : \A S \in SUBSET Commits :
                            Closed(S) /\ c \in S => d \in S}
           f == [c \in Commits |-> Reached(c)]
<1>1. ASSUME NEW c \in Commits
      PROVE  Reached(c) = {c} \cup UNION {Reached(p) : p \in Up[c]}
  <2> DEFINE next == {c} \cup UNION {Reached(p) : p \in Up[c]}
  <2>1. ASSUME NEW d \in next PROVE d \in Reached(c)
    BY <2>1
  <2>2. next \in SUBSET Commits /\ c \in next
    OBVIOUS
  <2>3. Closed(next)
    <3>1. ASSUME NEW d \in next, NEW e \in Up[d] PROVE e \in next
      <4>1. CASE d = c
        <5>1. e \in Reached(e)
          BY <2>2, <3>1
        <5> QED
          BY <3>1, <4>1, <5>1
      <4>2. ASSUME NEW p \in Up[c], d \in Reached(p) PROVE e \in Reached(p)
        BY <2>2, <3>1, <4>2
      <4> QED
        BY <4>1, <4>2
    <3> QED
      BY <3>1
  <2>4. ASSUME NEW d \in Reached(c) PROVE d \in next
    <3> HIDE DEF next
    <3> QED
      BY <2>2, <2>3
  <2> QED
    BY <2>1, <2>4
<1>2. \A c \in Commits : f[c] = {c} \cup UNION {f[p] : p \in Up[c]}
  <2> HIDE DEF Reached
  <2>1. ASSUME NEW c \in Commits PROVE f[c] = {c} \cup UNION {f[p] : p \in Up[c]}
    <3>1. f[c] = Reached(c) /\ \A p \in Up[c] : f[p] = Reached(p)
      OBVIOUS
    <3>2. UNION {f[p] : p \in Up[c]} = UNION {Reached(p) : p \in Up[c]}
      BY <3>1
    <3> HIDE DEF f
    <3> QED
      BY <1>1, <3>1, <3>2
  <2> QED
    BY <2>1
<1>3. Closure(Up, f)
  <2> DEFINE g == f
  <2>1. g = [c \in Commits |-> g[c]]
    OBVIOUS
  <2>2. \A c \in Commits : g[c] = {c} \cup UNION {g[p] : p \in Up[c]}
    BY <1>2
  <2> HIDE DEF g
  <2>3. Closure(Up, g)
    BY <2>1, <2>2 DEF Closure
  <2> QED
    BY <2>3 DEF g
<1> QED
  BY <1>3

(* Every set of commits has one whose neighbours are all outside.           *)
Founded(Up) ==
  \A S \in SUBSET Commits : S # {} => \E c \in S : Up[c] \cap S = {}

LEMMA ClosureOrders ==
  ASSUME NEW Up \in [Commits -> SUBSET Commits], NEW f, Closure(Up, f), Founded(Up)
  PROVE  /\ f \in [Commits -> SUBSET Commits]
         /\ \A c \in Commits : c \in f[c] /\ \A p \in Up[c] : p \in f[c]
         /\ \A c \in Commits : \A d \in f[c] : d = c \/ \E p \in Up[c] : d \in f[p]
         /\ \A c \in Commits : \A d \in f[c] : f[d] \subseteq f[c]
         /\ \A c \in Commits : \A d \in f[c] : c \in f[d] => c = d
<1>1. \A c \in Commits : f[c] = {c} \cup UNION {f[p] : p \in Up[c]}
  BY DEF Closure
<1>2. \A c \in Commits : f[c] \subseteq Commits
  <2> DEFINE bad == {c \in Commits : ~(f[c] \subseteq Commits)}
  <2>1. bad = {}
    <3>1. SUFFICES ASSUME bad # {} PROVE FALSE
      OBVIOUS
    <3>2. PICK c \in bad : Up[c] \cap bad = {}
      BY <3>1 DEF Founded
    <3>3. \A p \in Up[c] : f[p] \subseteq Commits
      BY <3>2
    <3>4. f[c] \subseteq Commits
      BY <1>1, <3>3
    <3> QED
      BY <3>4
  <2> QED
    BY <2>1
<1>3. \A c \in Commits : c \in f[c] /\ \A p \in Up[c] : p \in f[c]
  <2>1. \A c \in Commits : c \in f[c]
    BY <1>1
  <2> QED
    BY <1>1, <2>1
<1>4. \A c \in Commits : \A d \in f[c] : d = c \/ \E p \in Up[c] : d \in f[p]
  BY <1>1
<1>5. \A c \in Commits : \A d \in f[c] : f[d] \subseteq f[c]
  <2> DEFINE bad == {c \in Commits : ~\A d \in f[c] : f[d] \subseteq f[c]}
  <2>1. bad = {}
    <3>1. SUFFICES ASSUME bad # {} PROVE FALSE
      OBVIOUS
    <3>2. PICK c \in bad : Up[c] \cap bad = {}
      BY <3>1 DEF Founded
    <3>3. ASSUME NEW d \in f[c] PROVE f[d] \subseteq f[c]
      <4>1. CASE d = c
        BY <4>1
      <4>2. ASSUME NEW p \in Up[c], d \in f[p] PROVE f[d] \subseteq f[c]
        <5>1. p \in Commits /\ p \notin bad
          BY <3>2
        <5>2. f[d] \subseteq f[p]
          BY <4>2, <5>1
        <5>3. f[p] \subseteq f[c]
          BY <1>1
        <5> QED
          BY <5>2, <5>3
      <4> QED
        BY <1>4, <4>1, <4>2
    <3> QED
      BY <3>3
  <2> QED
    BY <2>1
<1>6. \A c \in Commits : \A p \in Up[c] : c \notin f[p]
  <2> DEFINE bad == {c \in Commits : \E p \in Up[c] : c \in f[p]}
  <2>1. bad = {}
    <3>1. SUFFICES ASSUME bad # {} PROVE FALSE
      OBVIOUS
    <3>2. PICK c \in bad : Up[c] \cap bad = {}
      BY <3>1 DEF Founded
    <3>3. PICK p \in Up[c] : c \in f[p]
      OBVIOUS
    <3>4. p \in Commits /\ p \notin bad
      BY <3>2
    <3>5. p # c
      BY <3>4
    <3>6. PICK q \in Up[p] : c \in f[q]
      BY <1>4, <3>3, <3>4, <3>5
    <3>7. q \in Commits /\ p \in f[c]
      BY <1>3, <3>4
    <3>8. p \in f[q]
      BY <1>5, <3>6, <3>7
    <3> QED
      BY <3>4, <3>8
  <2> QED
    BY <2>1
<1>7. ASSUME NEW c \in Commits, NEW d \in f[c], c \in f[d] PROVE c = d
  <2>1. SUFFICES ASSUME c # d PROVE FALSE
    OBVIOUS
  <2>2. PICK p \in Up[c] : d \in f[p]
    BY <1>4, <2>1
  <2>3. c \in f[p]
    BY <1>5, <1>7, <2>2
  <2> QED
    BY <1>6, <2>3
<1>8. f = [c \in Commits |-> f[c]]
  BY DEF Closure
<1>9. f \in [Commits -> SUBSET Commits]
  BY <1>2, <1>8
<1> QED
  BY <1>3, <1>4, <1>5, <1>7, <1>9

-----------------------------------------------------------------------------
(* The history                                                              *)

AllParents == [c \in Commits |-> {Parents[c][i] : i \in DOMAIN Parents[c]}]
FirstParent ==
  [c \in Commits |-> IF Parents[c] = <<>> THEN {} ELSE {Parents[c][1]}]

LEMMA ParentTypes ==
  /\ AllParents \in [Commits -> SUBSET Commits] /\ Founded(AllParents)
  /\ FirstParent \in [Commits -> SUBSET Commits] /\ Founded(FirstParent)
<1>1. ASSUME NEW c \in Commits
      PROVE  /\ Parents[c] \in Seq(Commits)
             /\ \A i \in DOMAIN Parents[c] : Parents[c][i] \in Commits
             /\ Parents[c] # <<>> => 1 \in DOMAIN Parents[c]
  <2>1. Parents[c] \in Seq(Commits)
    BY GraphAssumption
  <2> QED
    BY <2>1
<1>2. /\ AllParents \in [Commits -> SUBSET Commits]
      /\ FirstParent \in [Commits -> SUBSET Commits]
      /\ \A c \in Commits : FirstParent[c] \subseteq AllParents[c]
  BY <1>1 DEF AllParents, FirstParent
<1>3. Founded(AllParents)
  <2>1. ASSUME NEW S \in SUBSET Commits, S # {}
        PROVE  \E c \in S : AllParents[c] \cap S = {}
    <3>1. PICK c \in S : \A i \in DOMAIN Parents[c] : Parents[c][i] \notin S
      BY <2>1, AcyclicAssumption
    <3> QED
      BY <3>1 DEF AllParents
  <2> QED
    BY <2>1 DEF Founded
<1>4. Founded(FirstParent)
  BY <1>2, <1>3 DEF Founded
<1> QED
  BY <1>2, <1>3, <1>4

LEMMA AncestorsClose == Closure(AllParents, Ancestors)
<1> DEFINE over(f) == [c \in Commits |->
                         {c} \cup UNION {f[Parents[c][i]] : i \in DOMAIN Parents[c]}]
<1>1. ASSUME NEW f PROVE over(f) = [c \in Commits |-> {c} \cup UNION {f[p] : p \in AllParents[c]}]
  <2>1. ASSUME NEW c \in Commits
        PROVE  {f[Parents[c][i]] : i \in DOMAIN Parents[c]} = {f[p] : p \in AllParents[c]}
    <3>1. AllParents[c] = {Parents[c][i] : i \in DOMAIN Parents[c]}
      BY DEF AllParents
    <3> QED
      BY <3>1
  <2> QED
    BY <2>1, Zenon
<1>2. PICK f : Closure(AllParents, f)
  BY ClosureExists, ParentTypes
<1>3. f = over(f)
  <2>1. f = [c \in Commits |-> {c} \cup UNION {f[p] : p \in AllParents[c]}]
    BY <1>2 DEF Closure
  <2>2. over(f) = [c \in Commits |-> {c} \cup UNION {f[p] : p \in AllParents[c]}]
    BY <1>1
  <2> QED
    BY <2>1, <2>2, Zenon
<1>4. Ancestors = over(Ancestors)
  BY <1>3 DEF Ancestors
<1>5. over(Ancestors) =
        [c \in Commits |-> {c} \cup UNION {Ancestors[p] : p \in AllParents[c]}]
  <2> HIDE DEF over
  <2> QED
    BY <1>1, Zenon
<1> QED
  BY <1>4, <1>5, Zenon DEF Closure

LEMMA FirstLineCloses == Closure(FirstParent, FirstLine)
<1> DEFINE over(f) == [c \in Commits |->
                         {c} \cup IF Parents[c] = <<>> THEN {} ELSE f[Parents[c][1]]]
<1>1. ASSUME NEW f PROVE over(f) = [c \in Commits |-> {c} \cup UNION {f[p] : p \in FirstParent[c]}]
  <2>1. ASSUME NEW c \in Commits
        PROVE  (IF Parents[c] = <<>> THEN {} ELSE f[Parents[c][1]])
                 = UNION {f[p] : p \in FirstParent[c]}
    <3>1. FirstParent[c] = IF Parents[c] = <<>> THEN {} ELSE {Parents[c][1]}
      BY DEF FirstParent
    <3> QED
      BY <3>1
  <2> QED
    BY <2>1, Zenon
<1>2. PICK f : Closure(FirstParent, f)
  BY ClosureExists, ParentTypes
<1>3. f = over(f)
  BY <1>1, <1>2 DEF Closure
<1>4. FirstLine = over(FirstLine)
  BY <1>3 DEF FirstLine
<1> QED
  BY <1>1, <1>4 DEF Closure

(* Being reached from is an order on the commits.                           *)
LEMMA AncestorsOrder ==
  /\ Ancestors \in [Commits -> SUBSET Commits]
  /\ \A c \in Commits : c \in Ancestors[c]
  /\ \A c \in Commits : \A d \in Ancestors[c] : Ancestors[d] \subseteq Ancestors[c]
  /\ \A c \in Commits : \A d \in Ancestors[c] : c \in Ancestors[d] => c = d
  /\ \A c \in Commits : Parents[c] # <<>> =>
       Parents[c][1] \in Commits /\ Parents[c][1] \in Ancestors[c]
<1>1. \A c \in Commits : Parents[c] # <<>> =>
        Parents[c][1] \in AllParents[c] /\ Parents[c][1] \in Commits
  <2>1. ASSUME NEW c \in Commits, Parents[c] # <<>>
        PROVE  Parents[c][1] \in AllParents[c] /\ Parents[c][1] \in Commits
    <3>1. Parents[c] \in Seq(Commits)
      BY GraphAssumption
    <3>2. 1 \in DOMAIN Parents[c]
      BY <2>1, <3>1
    <3> QED
      BY <3>1, <3>2 DEF AllParents
  <2> QED
    BY <2>1
<1> QED
  BY <1>1, ClosureOrders, ParentTypes, AncestorsClose

(* The first-parent line of a commit goes on with that of its first parent. *)
LEMMA LineOrder ==
  /\ FirstLine \in [Commits -> SUBSET Commits]
  /\ \A c \in Commits : c \in FirstLine[c]
  /\ \A c \in Commits : \A d \in FirstLine[c] : FirstLine[d] \subseteq FirstLine[c]
  /\ \A c \in Commits : \A d \in FirstLine[c] : d # c =>
       Parents[c] # <<>> /\ d \in FirstLine[Parents[c][1]]
  /\ \A c \in Commits : Parents[c] # <<>> => Parents[c][1] \in FirstLine[c]
<1>1. \A c \in Commits : FirstParent[c] = IF Parents[c] = <<>> THEN {} ELSE {Parents[c][1]}
  BY DEF FirstParent
<1> QED
  BY <1>1, ClosureOrders, ParentTypes, FirstLineCloses

(* A first-parent line is part of the history.                              *)
LEMMA LineIsHistory ==
  ASSUME NEW c \in Commits, NEW d \in FirstLine[c]
  PROVE  d \in Ancestors[c]
<1> DEFINE bad == {e \in Commits : ~(FirstLine[e] \subseteq Ancestors[e])}
<1>1. bad = {}
  <2>1. SUFFICES ASSUME bad # {} PROVE FALSE
    OBVIOUS
  <2>2. PICK e \in bad : FirstParent[e] \cap bad = {}
    <3> HIDE DEF bad
    <3>1. bad \in SUBSET Commits
      BY DEF bad
    <3> QED
      BY <2>1, <3>1, ParentTypes DEF Founded
  <2>3. PICK x \in FirstLine[e] : x \notin Ancestors[e]
    OBVIOUS
  <2>4. x # e
    BY <2>3, AncestorsOrder
  <2>5. Parents[e] # <<>> /\ x \in FirstLine[Parents[e][1]]
    BY <2>3, <2>4, LineOrder
  <2>6. Parents[e][1] \in FirstParent[e]
    BY <2>5 DEF FirstParent
  <2>7. Parents[e][1] \in Commits /\ Parents[e][1] \in Ancestors[e]
    BY <2>5, AncestorsOrder
  <2>8. x \in Ancestors[Parents[e][1]]
    BY <2>2, <2>5, <2>6, <2>7
  <2>9. Ancestors[Parents[e][1]] \subseteq Ancestors[e]
    BY <2>7, AncestorsOrder
  <2> QED
    BY <2>3, <2>8, <2>9
<1> QED
  BY <1>1

(* git merge-base of two commits with a common history is one of both.      *)
LEMMA MergeBaseIsCommon ==
  ASSUME NEW b \in Commits, NEW h \in Commits, Ancestors[b] \cap Ancestors[h] # {}
  PROVE  MergeBase(b, h) \in Ancestors[b] \cap Ancestors[h] /\ MergeBase(b, h) \in Commits
<1> DEFINE common == Ancestors[b] \cap Ancestors[h]
           rest == {Commits \ Ancestors[c] : c \in common}
<1>1. common \subseteq Commits
  BY AncestorsOrder
<1>2. IsWellFoundedOn(StrictSubsetOrdering(Commits), SUBSET Commits)
  BY FS_StrictSubsetOrderingWellFounded, FS_FiniteSubsetsOfFinite, GraphAssumption
<1>3. rest \subseteq SUBSET Commits /\ rest # {}
  OBVIOUS
<1>4. PICK x \in rest : \A y \in rest : <<y, x>> \notin StrictSubsetOrdering(Commits)
  <2> HIDE DEF rest
  <2> QED
    BY <1>2, <1>3, WFMin
<1>5. PICK m \in common : x = Commits \ Ancestors[m]
  OBVIOUS
<1>6. ASSUME NEW c \in common, m \in Ancestors[c] PROVE c = m
  <2>1. c \in Commits /\ m \in Commits /\ Ancestors[m] \subseteq Ancestors[c]
    BY <1>1, <1>6, AncestorsOrder
  <2>2. <<Commits \ Ancestors[c], x>> \notin StrictSubsetOrdering(Commits)
    BY <1>4
  <2>3. Commits \ Ancestors[c] = Commits \ Ancestors[m]
    BY <1>5, <2>1, <2>2 DEF StrictSubsetOrdering
  <2>4. c \in Ancestors[m]
    BY <2>1, <2>3, AncestorsOrder
  <2> QED
    BY <1>6, <2>1, <2>4, AncestorsOrder
<1>7. \E n \in common : \A c \in common : n \in Ancestors[c] => c = n
  BY <1>6
<1>8. MergeBase(b, h) = CHOOSE n \in common : \A c \in common : n \in Ancestors[c] => c = n
  BY DEF MergeBase
<1>9. MergeBase(b, h) \in common
  <2> HIDE DEF common
  <2> QED
    BY <1>7, <1>8
<1> QED
  BY <1>1, <1>9

(* A set of numbers has a least one.                                        *)
LEMMA LeastNumber ==
  ASSUME NEW K \in SUBSET Nat, K # {}
  PROVE  \E n \in K : \A k \in K : n <= k
<1> DEFINE T == {1..n : n \in K}
<1>1. T \subseteq FiniteSubsetsOf(Nat) /\ T # {}
  <2>1. ASSUME NEW n \in K PROVE 1..n \in FiniteSubsetsOf(Nat)
    <3>1. n \in Int /\ 1 \in Int /\ (1..n) \subseteq Nat
      OBVIOUS
    <3> QED
      BY <3>1, FS_Interval DEF FiniteSubsetsOf
  <2> QED
    BY <2>1
<1>2. PICK x \in T : \A y \in T : <<y, x>> \notin StrictSubsetOrdering(Nat)
  <2> HIDE DEF T
  <2> QED
    BY <1>1, FS_StrictSubsetOrderingWellFounded, WFMin
<1>3. PICK n \in K : x = 1..n
  OBVIOUS
<1>4. ASSUME NEW k \in K PROVE n <= k
  <2>1. SUFFICES ASSUME k < n PROVE FALSE
    OBVIOUS
  <2>2. (1..k) \subseteq (1..n) /\ n \in 1..n /\ n \notin 1..k
    BY <2>1
  <2>3. <<1..k, 1..n>> \in StrictSubsetOrdering(Nat)
    BY <2>2 DEF StrictSubsetOrdering
  <2> QED
    BY <1>2, <1>3, <2>3
<1> QED
  BY <1>4

-----------------------------------------------------------------------------
(* What ready means of the evidence                                         *)

(* The best checkpoint is one of them.                                      *)
LEMMA BestIsCheckpoint ==
  ASSUME NEW r, r.target \in Commits, Checkpoints(r) # {}
  PROVE  \E i \in Checkpoints(r) : Gap(r) = Uncovered(r, i)
<1> DEFINE K == {Cardinality(Uncovered(r, i)) : i \in Checkpoints(r)}
           Best(i) == \A j \in Checkpoints(r) :
                        Cardinality(Uncovered(r, i)) <= Cardinality(Uncovered(r, j))
<1>1. ASSUME NEW i PROVE Uncovered(r, i) \in SUBSET Commits
  BY AncestorsOrder DEF Uncovered, Chain, History
<1>2. ASSUME NEW i PROVE Cardinality(Uncovered(r, i)) \in Nat
  BY <1>1, GraphAssumption, FS_Subset, FS_CardinalityType
<1>3. PICK n \in K : \A k \in K : n <= k
  <2>1. K \in SUBSET Nat /\ K # {}
    BY <1>2
  <2> HIDE DEF K
  <2> QED
    BY <2>1, LeastNumber
<1>4. PICK i \in Checkpoints(r) : n = Cardinality(Uncovered(r, i))
  OBVIOUS
<1>5. Best(i)
  BY <1>3, <1>4
<1>6. \E b \in Checkpoints(r) : Best(b)
  BY <1>5
<1> DEFINE best == CHOOSE b \in Checkpoints(r) : Best(b)
<1>7. best \in Checkpoints(r)
  <2> HIDE DEF Best
  <2> QED
    BY <1>6
<1>8. Gap(r) = Uncovered(r, best)
  BY DEF Gap
<1> QED
  BY <1>7, <1>8

(* Ready is the answer when nothing else is.                                *)
LEMMA ReadyFollows ==
  ASSUME NEW r, Reason(r) = "ready"
  PROVE  /\ ~Pending(r) /\ FailedAttempts(r) = {} /\ QueueIn(r, "failed") = QueueReplaced(r)
         /\ ~Blocked(r) /\ Checkpoints(r) # {} /\ Gap(r) = {}
<1>1. /\ ~Pending(r) /\ FailedAttempts(r) = {} /\ QueueIn(r, "failed") = QueueReplaced(r)
      /\ ~Blocked(r) /\ PublicationReason(r) = "ready"
  BY DEF Reason
<1>2. CoverageReason(r) = "ready"
  BY <1>1 DEF PublicationReason
<1> QED
  BY <1>1, <1>2 DEF CoverageReason

(* Every commit of the branch is in the diff of the checkpoint, or of the   *)
(* repair of the first commit after it on the first-parent line that        *)
(* reaches it.                                                              *)
LEMMA ReadyCovers ==
  ASSUME NEW r, r.target \in Commits, Merge(r) \in Commits, r.rows \in Seq(Attempts),
         Reason(r) = "ready", NEW x \in History(r)
  PROVE  \E i \in Valid(r) : x \in Covers(r.rows[i])
<1>1. PICK b \in Checkpoints(r) : Uncovered(r, b) = {}
  BY ReadyFollows, BestIsCheckpoint
<1>2. b \in Valid(r) /\ Exact(r, b) /\ r.rows[b] \in Attempts
  BY <1>1 DEF Checkpoints, Valid
<1> DEFINE k == r.rows[b].commit
<1>3. k \in Commits /\ k \in FirstLine[r.target]
  BY <1>2, LineOrder DEF Exact, Chain, Attempts
<1>4. x \in Commits /\ x \in Ancestors[r.target] /\ x \notin Ancestors[Merge(r)]
  BY AncestorsOrder DEF History
<1>5. CASE x \in Ancestors[k]
  <2>1. x \in Covers(r.rows[b])
    BY <1>2, <1>4, <1>5 DEF Covers, Exact
  <2> QED
    BY <1>2, <2>1
<1>6. CASE x \notin Ancestors[k]
  <2> DEFINE S == {c \in FirstLine[r.target] : k \in FirstLine[c] /\ x \in Ancestors[c]}
  <2>1. S \in SUBSET Commits /\ r.target \in S
    BY <1>3, <1>4, LineOrder
  <2>2. PICK c \in S : \A i \in DOMAIN Parents[c] : Parents[c][i] \notin S
    <3> HIDE DEF S
    <3> QED
      BY <2>1, AcyclicAssumption
  <2>3. c \in Commits /\ c \in FirstLine[r.target] /\ k \in FirstLine[c] /\ x \in Ancestors[c]
    BY <2>1
  <2>4. c # k
    BY <1>6, <2>3
  <2>5. Parents[c] # <<>> /\ k \in FirstLine[Parents[c][1]]
    BY <2>3, <2>4, LineOrder
  <2> DEFINE p == Parents[c][1]
  <2>6. p \in Commits /\ 1 \in DOMAIN Parents[c] /\ p \in FirstLine[c]
    <3>1. Parents[c] \in Seq(Commits)
      BY <2>3, GraphAssumption
    <3> QED
      BY <2>3, <2>5, <3>1, LineOrder
  <2>7. p \in FirstLine[r.target]
    BY <2>3, <2>6, LineOrder
  <2>8. x \notin Ancestors[p]
    BY <2>2, <2>5, <2>6, <2>7
  <2>9. c \notin Ancestors[Merge(r)]
    BY <1>4, <2>3, AncestorsOrder
  <2>10. c \in Ancestors[r.target]
    BY <2>3, LineIsHistory
  <2>11. c \in Chain(r)
    BY <2>3, <2>9, <2>10 DEF Chain, History
  <2>12. Repaired(r, c)
    BY <1>1, <2>3, <2>4, <2>11 DEF Uncovered
  <2>13. PICK i \in Valid(r) : /\ r.rows[i].kind = "commit" /\ r.rows[i].commit = c
                               /\ r.rows[i].base = Parents[c][1]
    BY <2>12 DEF Repaired
  <2>14. x \in Covers(r.rows[i])
    BY <2>3, <2>8, <2>13 DEF Covers
  <2> QED
    BY <2>14
<1> QED
  BY <1>5, <1>6

-----------------------------------------------------------------------------
(* Types                                                                    *)

Seen == [head : Commits, dirty : BOOLEAN, queue : [Commits -> Marker] \cup {<<>>},
         base : MainLine, target : BranchHeads, policy : Policies,
         rows : Seq(Attempts), alive : SUBSET Nat, at : (Commits \X Commits) \cup {<<>>}]

(* Nobody acts on an answer where no agent asks.                            *)
Agents == Askers \cup {a \in {"acts", "waits", "hands off", "reports"} : "asks" \in Askers}

Types ==
  /\ TypeOK /\ seen \in Seen /\ agent \in Agents
  /\ head \in BranchHeads /\ base \in MainLine

LEMMA RowTypes ==
  ASSUME NEW s \in Seq(Attempts), NEW i \in DOMAIN s
  PROVE  s[i] \in Attempts /\ i \in Nat
  OBVIOUS

(* A new row, and rows that changed in place.                               *)
LEMMA SweptRows ==
  ASSUME NEW s \in Seq(Attempts)
  PROVE  /\ Swept(s) \in Seq(Attempts) /\ Len(Swept(s)) = Len(s)
         /\ DOMAIN Swept(s) = DOMAIN s
         /\ \A i \in DOMAIN s : Swept(s)[i] =
              IF s[i].state = "dead" THEN [s[i] EXCEPT !.state = "failed"] ELSE s[i]
<1>1. /\ DOMAIN s = 1..Len(s) /\ Len(s) \in Nat
  OBVIOUS
<1>2. ASSUME NEW i \in DOMAIN s PROVE Swept(s)[i] \in Attempts
  <2>1. s[i] \in Attempts
    OBVIOUS
  <2>2. [s[i] EXCEPT !.state = "failed"] \in Attempts
    BY <2>1 DEF Attempts, States
  <2> QED
    BY <2>1, <2>2 DEF Swept
<1>3. Swept(s) = [i \in 1..Len(s) |-> Swept(s)[i]]
  BY <1>1 DEF Swept
<1> QED
  BY <1>1, <1>2, <1>3 DEF Swept

LEMMA ChangedRow ==
  ASSUME NEW s \in Seq(Attempts), NEW i \in DOMAIN s, NEW row \in Attempts
  PROVE  /\ [s EXCEPT ![i] = row] \in Seq(Attempts)
         /\ Len([s EXCEPT ![i] = row]) = Len(s)
         /\ \A j \in DOMAIN s : [s EXCEPT ![i] = row][j] = IF j = i THEN row ELSE s[j]
  OBVIOUS

(* The row of a review that starts.                                         *)
LEMMA NewRow ==
  ASSUME Types, NEW kind \in {"base", "commit"}, NEW c \in Commits,
         kind = "base" => c = head, kind = "commit" => Parents[c] # <<>>
  PROVE  NewAttempt(kind, c) \in Attempts
<1>1. head \in Commits /\ base \in Commits
  BY DEF Types, TypeOK
<1>2. kind = "base" => MergeBase(base, c) \in Commits
  BY <1>1, HeadAssumption, MergeBaseIsCommon DEF Types
<1>3. kind = "commit" => Parents[c][1] \in Commits
  BY AncestorsOrder
<1>4. clock \in Nat
  BY DEF Types, TypeOK
<1>5. policy \in Policies /\ "running" \in States
  BY DEF Types, TypeOK, States
<1>6. clock + 1 \in Nat
  BY <1>4
<1> QED
  BY <1>1, <1>2, <1>3, <1>5, <1>6 DEF NewAttempt, Attempts

-----------------------------------------------------------------------------
(* How the rows of the database move                                        *)

Stored == {"saved", "unpublished", "published"}

Same(a, b) ==
  /\ b.kind = a.kind /\ b.commit = a.commit /\ b.base = a.base /\ b.merge = a.merge
  /\ b.policy = a.policy /\ b.started = a.started

(* What a step makes of a row: a published one stays what it is, a review   *)
(* that has ended does not run again, and a finding comes with an end.      *)
RowMoves(a, b) ==
  /\ Same(a, b)
  /\ a.state = "published" => b.state = "published" /\ b.verified = a.verified
  /\ b.state = "running" => a.state = "running"
  /\ b.state = "dead" => a.state \in {"running", "dead"}
  /\ b.finding # "none" =>
       b.ended = clock + 1 \/ (a.finding # "none" /\ b.ended = a.ended)
  /\ b.finding # "none" => b.state \in Stored

RowsMove ==
  /\ attempts' \in Seq(Attempts) /\ Len(attempts) <= Len(attempts')
  /\ \A i \in DOMAIN attempts : RowMoves(attempts[i], attempts'[i])
  /\ \A i \in DOMAIN attempts' \ DOMAIN attempts :
       attempts'[i].started = clock + 1 /\ attempts'[i].finding = "none"

FindingIsStored ==
  \A i \in DOMAIN attempts : attempts[i].finding # "none" => attempts[i].state \in Stored

LEMMA RowsStay ==
  ASSUME Types, FindingIsStored, attempts' = attempts
  PROVE  RowsMove
<1>1. attempts \in Seq(Attempts)
  BY DEF Types, TypeOK
<1> QED
  BY <1>1 DEF RowsMove, RowMoves, Same, FindingIsStored

LEMMA SweptMoves ==
  ASSUME Types, FindingIsStored, NEW i \in DOMAIN attempts
  PROVE  /\ Swept(attempts)[i] \in Attempts
         /\ RowMoves(attempts[i], Swept(attempts)[i])
<1>1. attempts \in Seq(Attempts) /\ attempts[i] \in Attempts
  BY RowTypes DEF Types, TypeOK
<1>2. Swept(attempts)[i] = IF attempts[i].state = "dead"
                             THEN [attempts[i] EXCEPT !.state = "failed"] ELSE attempts[i]
  BY <1>1, SweptRows
<1>3. Swept(attempts)[i] \in Attempts
  BY <1>1, SweptRows, RowTypes
<1>4. CASE attempts[i].state = "dead"
  <2>1. attempts[i].finding = "none"
    BY <1>4 DEF FindingIsStored, Stored
  <2> QED
    BY <1>1, <1>2, <1>3, <1>4, <2>1 DEF RowMoves, Same, Attempts
<1>5. CASE attempts[i].state # "dead"
  BY <1>1, <1>2, <1>3, <1>5 DEF RowMoves, Same, FindingIsStored
<1> QED
  BY <1>3, <1>4, <1>5

(* One row changes, and the others are swept or stay.                       *)
LEMMA OneMoves ==
  ASSUME Types, FindingIsStored, NEW i \in DOMAIN attempts, NEW row \in Attempts,
         RowMoves(attempts[i], row),
         \/ attempts' = [Swept(attempts) EXCEPT ![i] = row]
         \/ attempts' = [attempts EXCEPT ![i] = row]
  PROVE  RowsMove
<1>1. attempts \in Seq(Attempts)
  BY DEF Types, TypeOK
<1>2. PICK s \in Seq(Attempts) :
        /\ s = Swept(attempts) \/ s = attempts
        /\ attempts' = [s EXCEPT ![i] = row]
  BY <1>1, SweptRows
<1>3. Len(s) = Len(attempts) /\ DOMAIN s = DOMAIN attempts
  BY <1>1, <1>2, SweptRows
<1>4. /\ attempts' \in Seq(Attempts) /\ Len(attempts') = Len(attempts)
      /\ \A j \in DOMAIN attempts : attempts'[j] = IF j = i THEN row ELSE s[j]
  BY <1>2, <1>3, ChangedRow
<1>5. ASSUME NEW j \in DOMAIN attempts PROVE RowMoves(attempts[j], attempts'[j])
  <2>1. CASE j = i
    BY <1>4, <2>1
  <2>2. CASE j # i /\ s = Swept(attempts)
    BY <1>4, <2>2, SweptMoves
  <2>3. CASE j # i /\ s = attempts
    BY <1>4, <2>3 DEF RowMoves, Same, FindingIsStored
  <2> QED
    BY <1>2, <2>1, <2>2, <2>3
<1>6. DOMAIN attempts' = DOMAIN attempts /\ Len(attempts) <= Len(attempts')
  BY <1>1, <1>4
<1> QED
  BY <1>4, <1>5, <1>6 DEF RowsMove

LEMMA StartMoves ==
  ASSUME Types, FindingIsStored, NEW kind \in {"base", "commit"}, NEW c \in Commits,
         kind = "base" => c = head, StartReview(kind, c)
  PROVE  RowsMove
<1>1. attempts \in Seq(Attempts) /\ Swept(attempts) \in Seq(Attempts)
  BY SweptRows DEF Types, TypeOK
<1>2. NewAttempt(kind, c) \in Attempts
  BY NewRow DEF StartReview
<1>3. attempts' = Append(Swept(attempts), NewAttempt(kind, c))
  BY DEF StartReview
<1>4. Len(Swept(attempts)) = Len(attempts) /\ DOMAIN Swept(attempts) = DOMAIN attempts
  BY <1>1, SweptRows
<1>5. /\ attempts' \in Seq(Attempts) /\ Len(attempts') = Len(attempts) + 1
      /\ \A i \in DOMAIN attempts : attempts'[i] = Swept(attempts)[i]
      /\ \A i \in DOMAIN attempts' \ DOMAIN attempts : attempts'[i] = NewAttempt(kind, c)
  <2> DEFINE s == Swept(attempts)
             row == NewAttempt(kind, c)
  <2>1. s \in Seq(Attempts) /\ row \in Attempts /\ Len(s) = Len(attempts)
        /\ DOMAIN s = DOMAIN attempts /\ attempts' = Append(s, row)
    BY <1>1, <1>2, <1>3, <1>4
  <2> HIDE DEF s, row
  <2>2. attempts' \in Seq(Attempts) /\ Len(attempts') = Len(attempts) + 1
    BY <1>1, <2>1
  <2>3. \A i \in DOMAIN attempts : attempts'[i] = s[i]
    BY <1>1, <2>1
  <2>4. \A i \in DOMAIN attempts' \ DOMAIN attempts : attempts'[i] = row
    BY <1>1, <2>1, <2>2
  <2> QED
    BY <2>2, <2>3, <2>4 DEF s, row
<1>6. NewAttempt(kind, c).started = clock + 1 /\ NewAttempt(kind, c).finding = "none"
  BY DEF NewAttempt
<1>7. \A i \in DOMAIN attempts : RowMoves(attempts[i], attempts'[i])
  BY <1>5, SweptMoves
<1>8. Len(attempts) <= Len(attempts')
  BY <1>1, <1>5
<1> QED
  BY <1>5, <1>6, <1>7, <1>8 DEF RowsMove

LEMMA SaveMoves ==
  ASSUME Types, FindingIsStored, NEW i \in DOMAIN attempts, SaveReview(i)
  PROVE  RowsMove
<1>1. attempts \in Seq(Attempts) /\ attempts[i] \in Attempts /\ clock \in Nat
  BY RowTypes DEF Types, TypeOK
<1>2. PICK found \in {"none", "open", "untracked"} :
        attempts' = [Swept(attempts) EXCEPT ![i].state = "saved",
                       ![i].ended = clock + 1, ![i].finding = found]
  BY DEF SaveReview
<1> DEFINE row == [attempts[i] EXCEPT !.state = "saved", !.ended = clock + 1, !.finding = found]
<1>3. Swept(attempts)[i] = attempts[i]
  BY <1>1, SweptRows DEF SaveReview
<1>4. attempts' = [Swept(attempts) EXCEPT ![i] = row]
  BY <1>2, <1>3
<1>5. attempts[i].state = "running" /\ clock + 1 \in Nat
  <2>1. attempts[i].state = "running"
    BY DEF SaveReview
  <2> QED
    BY <1>1, <2>1
<1>6. row \in Attempts
  BY <1>1, <1>5 DEF Attempts, States
<1>7. RowMoves(attempts[i], row)
  BY <1>1, <1>5 DEF RowMoves, Same, Stored, Attempts
<1> HIDE DEF row
<1> QED
  BY <1>4, <1>6, <1>7, OneMoves

LEMMA PublishMoves ==
  ASSUME Types, FindingIsStored, NEW i \in DOMAIN attempts, PublishReview(i)
  PROVE  RowsMove
<1>1. attempts \in Seq(Attempts) /\ attempts[i] \in Attempts
  BY RowTypes DEF Types, TypeOK
<1>2. PICK verified \in BOOLEAN :
        attempts' = [Swept(attempts) EXCEPT ![i].state = "published",
                                            ![i].verified = verified]
  BY DEF PublishReview
<1> DEFINE row == [attempts[i] EXCEPT !.state = "published", !.verified = verified]
<1>3. attempts[i].state = "saved"
  BY DEF PublishReview
<1>4. Swept(attempts)[i] = attempts[i]
  BY <1>1, <1>3, SweptRows
<1>5. attempts' = [Swept(attempts) EXCEPT ![i] = row]
  BY <1>2, <1>4
<1>6. row \in Attempts
  BY <1>1 DEF Attempts, States
<1>7. RowMoves(attempts[i], row)
  BY <1>1, <1>3 DEF RowMoves, Same, Stored, Attempts
<1> HIDE DEF row
<1> QED
  BY <1>5, <1>6, <1>7, OneMoves

LEMMA FailMoves ==
  ASSUME Types, FindingIsStored, NEW i \in DOMAIN attempts, ReviewFails(i)
  PROVE  RowsMove
<1>1. attempts \in Seq(Attempts) /\ attempts[i] \in Attempts /\ clock \in Nat
  BY RowTypes DEF Types, TypeOK
<1>2. ASSUME attempts[i].state = "running", NEW s \in {"failed", "dead"},
             attempts' = [attempts EXCEPT ![i].state = s, ![i].ended = clock + 1]
      PROVE  RowsMove
  <2> DEFINE row == [attempts[i] EXCEPT !.state = s, !.ended = clock + 1]
  <2>1. attempts' = [attempts EXCEPT ![i] = row]
    BY <1>2
  <2>2. clock + 1 \in Nat
    BY <1>1
  <2>3. row \in Attempts
    BY <1>1, <2>2 DEF Attempts, States
  <2>4. attempts[i].finding = "none"
    BY <1>2 DEF FindingIsStored, Stored
  <2>5. RowMoves(attempts[i], row)
    BY <1>1, <1>2, <2>4 DEF RowMoves, Same, Attempts
  <2> HIDE DEF row
  <2> QED
    BY <2>1, <2>3, <2>5, OneMoves
<1>3. ASSUME attempts[i].state = "saved",
             attempts' = [attempts EXCEPT ![i].state = "unpublished"]
      PROVE  RowsMove
  <2> DEFINE row == [attempts[i] EXCEPT !.state = "unpublished"]
  <2>1. attempts' = [attempts EXCEPT ![i] = row]
    BY <1>3
  <2>2. row \in Attempts
    BY <1>1 DEF Attempts, States
  <2>3. RowMoves(attempts[i], row)
    BY <1>1, <1>3 DEF RowMoves, Same, Stored, Attempts
  <2> HIDE DEF row
  <2> QED
    BY <2>1, <2>2, <2>3, OneMoves
<1> QED
  BY <1>2, <1>3 DEF ReviewFails

LEMMA DisposeMoves ==
  ASSUME Types, FindingIsStored, NEW i \in DOMAIN attempts, Dispose(i)
  PROVE  RowsMove
<1>1. attempts \in Seq(Attempts) /\ attempts[i] \in Attempts
  BY RowTypes DEF Types, TypeOK
<1>2. attempts[i].finding = "open" /\ attempts[i].state \in Stored
  BY DEF Dispose, FindingIsStored
<1>3. PICK after \in {"none", "deferred"} : attempts' = [attempts EXCEPT ![i].finding = after]
  BY DEF Dispose
<1> DEFINE row == [attempts[i] EXCEPT !.finding = after]
<1>4. attempts' = [attempts EXCEPT ![i] = row]
  BY <1>3
<1>5. row \in Attempts
  BY <1>1 DEF Attempts
<1>6. RowMoves(attempts[i], row)
  BY <1>1, <1>2 DEF RowMoves, Same, Attempts
<1> HIDE DEF row
<1> QED
  BY <1>4, <1>5, <1>6, OneMoves

-----------------------------------------------------------------------------
(* The steps of everybody else                                              *)

CheckoutMoves ==
  /\ head' \in BranchHeads /\ base' \in MainLine /\ policy' \in Policies
  /\ head \in Ancestors[head'] /\ base \in Ancestors[base']
  /\ dirty' \in BOOLEAN

CountersMove ==
  /\ changes' \in Nat /\ faults' \in Nat /\ clock' \in Nat
  /\ clock' = clock \/ clock' = clock + 1

(* A marker that waits has just been written, or waited before.             *)
MarkersMove ==
  /\ marker' \in [Commits -> Marker]
  /\ \A c \in Commits :
       \/ marker'[c].state \in {"none", "due"} \/ marker'[c].at = clock + 1
       \/ marker[c].state \notin {"none", "due"} /\ marker'[c].at = marker[c].at

(* History goes on from where it is, a review that has ended stays ended,   *)
(* and what the query has read is left alone.                               *)
WorldMoves ==
  /\ CheckoutMoves /\ CountersMove /\ MarkersMove /\ RowsMove
  /\ agent' \in Agents
  /\ UNCHANGED query

LEMMA CheckoutStays ==
  ASSUME Types, UNCHANGED <<head, base, policy, dirty>>
  PROVE  CheckoutMoves
<1>1. head \in Commits /\ base \in Commits /\ dirty \in BOOLEAN /\ policy \in Policies
  BY DEF Types, TypeOK
<1>2. head \in BranchHeads /\ base \in MainLine
  BY DEF Types
<1> QED
  BY <1>1, <1>2, AncestorsOrder DEF CheckoutMoves

LEMMA CountersType ==
  ASSUME Types
  PROVE  clock \in Nat /\ changes \in Nat /\ faults \in Nat /\ begun \in Nat
  BY DEF Types, TypeOK

LEMMA MarkersStay ==
  ASSUME Types, marker' = marker
  PROVE  MarkersMove
<1>1. marker \in [Commits -> Marker]
  BY DEF Types, TypeOK
<1> QED
  BY <1>1 DEF MarkersMove

LEMMA MarkerMoves ==
  ASSUME Types, NEW c \in Commits, NEW m \in Marker, marker' = [marker EXCEPT ![c] = m],
         \/ m.state \in {"none", "due"} \/ m.at = clock + 1
         \/ marker[c].state \notin {"none", "due"} /\ m.at = marker[c].at
  PROVE  MarkersMove
<1>1. marker \in [Commits -> Marker]
  BY DEF Types, TypeOK
<1>2. marker' \in [Commits -> Marker] /\ marker'[c] = m
      /\ \A d \in Commits : d # c => marker'[d] = marker[d]
  BY <1>1
<1> QED
  BY <1>2 DEF MarkersMove

(* What the steps of the world rest on.                                     *)
Basis == Types /\ FindingIsStored /\ Len(seen.rows) <= Len(attempts)

LEMMA RowsOfSeen ==
  ASSUME Basis
  PROVE  /\ seen.rows \in Seq(Attempts) /\ attempts \in Seq(Attempts)
         /\ DOMAIN seen.rows \subseteq DOMAIN attempts
<1>1. seen.rows \in Seq(Attempts) /\ attempts \in Seq(Attempts)
      /\ Len(seen.rows) <= Len(attempts)
  BY DEF Basis, Types, TypeOK
<1> QED
  BY <1>1

LEMMA CommitMoves == ASSUME Basis, Commit PROVE WorldMoves
<1>1. Types
  BY DEF Basis
<1>2. PICK c \in BranchHeads :
        /\ Parents[c] # <<>> /\ Parents[c][1] = head /\ head' = c
        /\ marker' = IF agent = "hooked" THEN [marker EXCEPT ![c] = [state |-> "due", at |-> 0]]
                                         ELSE marker
  BY DEF Commit
<1>3. c \in Commits
  BY HeadAssumption
<1>4. CheckoutMoves
  <2>1. base \in Commits /\ policy \in Policies /\ dirty \in BOOLEAN /\ base \in MainLine
    BY <1>1 DEF Types, TypeOK
  <2>2. dirty' \in BOOLEAN /\ base' = base /\ policy' = policy
    BY <2>1, Zenon DEF Commit
  <2>3. head \in Ancestors[c] /\ base \in Ancestors[base]
    BY <1>2, <1>3, <2>1, AncestorsOrder
  <2> QED
    BY <1>2, <2>1, <2>2, <2>3 DEF CheckoutMoves
<1>5. MarkersMove
  <2>1. [state |-> "due", at |-> 0] \in Marker
    BY DEF Marker
  <2> DEFINE m == [state |-> "due", at |-> 0]
  <2>2. CASE agent = "hooked"
    <3>1. marker' = [marker EXCEPT ![c] = m] /\ m.state \in {"none", "due"}
      BY <1>2, <2>2
    <3> HIDE DEF m
    <3> QED
      BY <1>1, <1>3, <2>1, <3>1, MarkerMoves DEF m
  <2>3. CASE agent # "hooked"
    BY <1>1, <1>2, <2>3, MarkersStay
  <2> QED
    BY <2>2, <2>3
<1>6. CountersMove
  BY <1>1, CountersType DEF Commit, Change, CountersMove
<1>7. RowsMove
  BY <1>1, RowsStay DEF Basis, Commit
<1>8. agent' \in Agents
  BY <1>1 DEF Types, Commit, query
<1> QED
  BY <1>4, <1>5, <1>6, <1>7, <1>8 DEF WorldMoves, Commit

LEMMA ChangeMoves == ASSUME Basis, MoveBase \/ Edit \/ Configure PROVE WorldMoves
<1>1. Types /\ FindingIsStored
  BY DEF Basis
<1>2. head \in Commits /\ base \in Commits /\ policy \in Policies /\ dirty \in BOOLEAN
  BY <1>1 DEF Types, TypeOK
<1>3. head \in BranchHeads /\ base \in MainLine
  BY <1>1 DEF Types
<1>4. CheckoutMoves
  <2>1. head' = head /\ policy' \in Policies
    BY <1>2 DEF MoveBase, Edit, Configure
  <2>2. base' \in MainLine /\ base \in Ancestors[base']
    BY <1>2, <1>3, AncestorsOrder DEF MoveBase, Edit, Configure
  <2>3. dirty' \in BOOLEAN
    BY <1>2, Zenon DEF MoveBase, Edit, Configure
  <2> QED
    BY <1>2, <1>3, <2>1, <2>2, <2>3, AncestorsOrder DEF CheckoutMoves
<1>5. MarkersMove
  BY <1>1, MarkersStay DEF MoveBase, Edit, Configure
<1>6. CountersMove
  BY <1>1, CountersType DEF MoveBase, Edit, Configure, Change, CountersMove
<1>7. RowsMove
  BY <1>1, RowsStay DEF MoveBase, Edit, Configure
<1>8. agent' \in Agents
  BY <1>1 DEF Types, MoveBase, Edit, Configure
<1>9. UNCHANGED query
  BY DEF MoveBase, Edit, Configure
<1> QED
  BY <1>4, <1>5, <1>6, <1>7, <1>8, <1>9 DEF WorldMoves

LEMMA HookMoves ==
  ASSUME Basis, NEW c \in Commits, Queue(c) \/ HookFails(c) \/ HookRetries(c) \/ HookDone(c)
  PROVE  WorldMoves
<1>1. Types /\ FindingIsStored
  BY DEF Basis
<1>2. marker \in [Commits -> Marker] /\ clock \in Nat /\ faults \in Nat /\ changes \in Nat
  BY <1>1 DEF Types, TypeOK
<1>3. MarkersMove
  <2>1. ASSUME Queue(c) \/ HookFails(c) PROVE MarkersMove
    <3>1. PICK s \in {"pending", "failed"} :
            marker' = [marker EXCEPT ![c] = [state |-> s, at |-> clock + 1]]
      BY <2>1 DEF Queue, HookFails
    <3> DEFINE m == [state |-> s, at |-> clock + 1]
    <3>2. m \in Marker /\ m.at = clock + 1 /\ marker' = [marker EXCEPT ![c] = m]
      BY <1>2, <3>1 DEF Marker
    <3> HIDE DEF m
    <3> QED
      BY <1>1, <3>2, MarkerMoves
  <2>2. ASSUME HookRetries(c) PROVE MarkersMove
    <3> DEFINE m == [marker[c] EXCEPT !.state = "pending"]
    <3>1. marker[c] \in Marker
      BY <1>2
    <3>2. m \in Marker /\ m.at = marker[c].at /\ marker' = [marker EXCEPT ![c] = m]
      BY <2>2, <3>1 DEF Marker, HookRetries
    <3>3. marker[c].state \notin {"none", "due"}
      BY <2>2 DEF HookRetries
    <3> HIDE DEF m
    <3> QED
      BY <1>1, <3>2, <3>3, MarkerMoves
  <2>3. ASSUME HookDone(c) PROVE MarkersMove
    <3>1. NoMarker \in Marker /\ NoMarker.state \in {"none", "due"}
      BY DEF Marker, NoMarker
    <3> QED
      BY <1>1, <2>3, <3>1, MarkerMoves DEF HookDone
  <2> QED
    BY <2>1, <2>2, <2>3
<1>4. UNCHANGED <<head, base, policy, dirty, attempts, agent, query>>
  BY DEF Queue, HookFails, HookRetries, HookDone
<1>5. CountersMove
  BY <1>2 DEF Queue, HookFails, HookRetries, HookDone, Fault, CountersMove
<1>6. agent' \in Agents
  BY <1>1, <1>4 DEF Types
<1> QED
  BY <1>1, <1>3, <1>4, <1>5, <1>6, RowsStay, CheckoutStays DEF WorldMoves

LEMMA ReviewMoves ==
  ASSUME Basis, NEW i \in DOMAIN attempts, ReviewEnds(i) \/ UserDisposes(i)
  PROVE  WorldMoves
<1>1. Types /\ FindingIsStored
  BY DEF Basis
<1>2. clock \in Nat /\ faults \in Nat /\ changes \in Nat
  BY <1>1, CountersType
<1>3. RowsMove
  BY <1>1, SaveMoves, PublishMoves, FailMoves, DisposeMoves DEF ReviewEnds, UserDisposes
<1>4. UNCHANGED <<head, base, policy, dirty, marker, changes, agent, query>>
  BY DEF ReviewEnds, SaveReview, PublishReview, ReviewFails, UserDisposes, Dispose
<1>5. CountersMove
  <2>1. faults' \in Nat
    <3>1. ASSUME Fault PROVE faults' \in Nat
      BY <1>2, <3>1 DEF Fault
    <3>2. Fault \/ faults' = faults
      BY DEF ReviewEnds, SaveReview, PublishReview, ReviewFails, UserDisposes, Dispose
    <3> QED
      BY <1>2, <3>1, <3>2
  <2>2. clock' = clock \/ clock' = clock + 1
    BY DEF ReviewEnds, SaveReview, PublishReview, ReviewFails, UserDisposes, Dispose
  <2> QED
    BY <1>2, <1>4, <2>1, <2>2 DEF CountersMove
<1>6. agent' \in Agents
  BY <1>1, <1>4 DEF Types
<1> QED
  BY <1>1, <1>3, <1>4, <1>5, <1>6, MarkersStay, CheckoutStays DEF WorldMoves

LEMMA NewReviewMoves ==
  ASSUME Basis, NEW kind \in {"base", "commit"}, NEW c \in Commits,
         kind = "base" => c = head, StartReview(kind, c),
         agent' \in Agents, UNCHANGED query
  PROVE  WorldMoves
<1>1. Types /\ FindingIsStored
  BY DEF Basis
<1>2. clock \in Nat /\ faults \in Nat /\ changes \in Nat
  BY <1>1, CountersType
<1>3. RowsMove
  BY <1>1, StartMoves
<1>4. UNCHANGED <<head, base, policy, dirty, marker, changes, faults>> /\ clock' = clock + 1
  BY DEF StartReview
<1>5. CountersMove
  BY <1>2, <1>4 DEF CountersMove
<1> QED
  BY <1>1, <1>3, <1>4, <1>5, MarkersStay, CheckoutStays DEF WorldMoves

LEMMA StillMoves ==
  ASSUME Basis, UNCHANGED <<world, query>>, agent' \in Agents
  PROVE  WorldMoves
<1>1. Types /\ FindingIsStored
  BY DEF Basis
<1>2. UNCHANGED <<head, base, policy, dirty, marker, attempts, clock, changes, faults>>
  BY DEF world
<1>3. CountersMove
  BY <1>1, <1>2, CountersType DEF CountersMove
<1> QED
  BY <1>1, <1>2, <1>3, RowsStay, MarkersStay, CheckoutStays DEF WorldMoves

LEMMA OthersMove == ASSUME Basis, OthersReview PROVE WorldMoves
<1>1. head \in Commits /\ agent' \in Agents /\ UNCHANGED query
  BY DEF Basis, Types, TypeOK, OthersReview
<1>2. ASSUME StartReview("base", head) PROVE WorldMoves
  BY <1>1, <1>2, NewReviewMoves
<1>3. ASSUME NEW c \in Ancestors[head], StartReview("commit", c) PROVE WorldMoves
  <2>1. c \in Commits
    BY <1>1, AncestorsOrder
  <2> QED
    BY <1>1, <1>3, <2>1, NewReviewMoves
<1> QED
  BY <1>2, <1>3 DEF OthersReview

LEMMA AgentMoves == ASSUME Basis, AgentNext PROVE WorldMoves
<1>1. Types /\ FindingIsStored
  BY DEF Basis
<1>2. head \in Commits /\ attempts \in Seq(Attempts) /\ seen.target \in Commits
  BY <1>1 DEF Types, TypeOK
<1>3. DOMAIN seen.rows \subseteq DOMAIN attempts
  BY RowsOfSeen
<1>4. "asks" \in Askers
  <2>1. agent \notin Askers
    BY AskerAssumption
      DEF AgentNext, HandOff, Wait, ReviewBranch, ReviewUncovered, DisposeFindings,
          ReportBlocker, CommitOrRestore, RetryFailed, AgentSettled
  <2> QED
    BY <1>1, <2>1 DEF Types, Agents
<1>5. ASSUME AgentAsks PROVE WorldMoves
  <2>1. agent' \in Agents
    BY <1>5, <1>4 DEF AgentAsks, Agents
  <2> QED
    BY <1>5, <2>1, StillMoves DEF AgentAsks
<1>6. ASSUME NEW kind \in {"base", "commit"}, NEW c \in Commits, kind = "base" => c = head,
             AgentReviews(kind, c)
      PROVE  WorldMoves
  <2>1. agent' \in Agents
    BY <1>6, <1>4 DEF AgentReviews, Agents
  <2> QED
    BY <1>6, <2>1, NewReviewMoves DEF AgentReviews
<1>7. CASE HandOff
  <2>1. agent' \in Agents
    BY <1>7, <1>4 DEF HandOff, Agents
  <2> QED
    BY <1>7, <2>1, StillMoves DEF HandOff
<1>8. CASE Wait \/ AgentSettled
  BY <1>5, <1>8 DEF Wait, AgentSettled
<1>9. CASE ReviewBranch
  <2>1. AgentReviews("base", head) \/ AgentAsks
    BY <1>9 DEF ReviewBranch
  <2> QED
    BY <1>2, <1>5, <1>6, <2>1
<1>10. CASE ReviewUncovered
  <2>1. PICK c \in Gap(seen) : AgentReviews("commit", c)
    BY <1>10 DEF ReviewUncovered
  <2>2. c \in Commits
    BY <1>2, AncestorsOrder DEF Gap, Uncovered, Chain, History
  <2> QED
    BY <1>6, <2>1, <2>2
<1>11. CASE DisposeFindings
  <2>1. ASSUME NEW i \in Blocking({"open"}), Dispose(i), agent' = "asks", UNCHANGED query
        PROVE  WorldMoves
    <3>1. i \in DOMAIN attempts
      BY <1>3 DEF Blocking, Reviews
    <3>2. RowsMove
      BY <1>1, <2>1, <3>1, DisposeMoves
    <3>3. UNCHANGED <<head, base, dirty, policy, marker, clock, changes, faults>>
      BY <2>1 DEF Dispose
    <3>4. CountersMove
      BY <1>1, <3>3, CountersType DEF CountersMove
    <3>5. agent' \in Agents
      BY <2>1, <1>4 DEF Agents
    <3> QED
      BY <1>1, <2>1, <3>2, <3>3, <3>4, <3>5, MarkersStay, CheckoutStays DEF WorldMoves
  <2> QED
    BY <1>5, <1>11, <2>1 DEF DisposeFindings
<1>12. CASE CommitOrRestore
  <2>1. UNCHANGED <<head, base, policy, attempts, marker, clock, changes, faults, query>>
        /\ dirty' = FALSE /\ agent' = "asks"
    BY <1>12 DEF CommitOrRestore
  <2>2. CheckoutMoves
    <3>1. base \in Commits /\ head \in Commits /\ policy \in Policies
      BY <1>1 DEF Types, TypeOK
    <3>2. head \in BranchHeads /\ base \in MainLine
      BY <1>1 DEF Types
    <3> QED
      BY <2>1, <3>1, <3>2, AncestorsOrder DEF CheckoutMoves
  <2>3. CountersMove
    BY <1>1, <2>1, CountersType DEF CountersMove
  <2>4. agent' \in Agents
    BY <2>1, <1>4 DEF Agents
  <2> QED
    BY <1>1, <2>1, <2>2, <2>3, <2>4, RowsStay, MarkersStay DEF WorldMoves
<1>13. CASE RetryFailed
  <2>1. ASSUME NEW i \in FailedAttempts(seen), attempts[i].kind = "commit",
               AgentReviews("commit", attempts[i].commit)
        PROVE  WorldMoves
    <3>1. i \in DOMAIN attempts
      BY <1>3 DEF FailedAttempts, Running, Counted
    <3>2. attempts[i].commit \in Commits
      BY <1>2, <3>1, RowTypes DEF Attempts
    <3> QED
      BY <1>6, <2>1, <3>2
  <2>2. ASSUME AgentReviews("base", head) PROVE WorldMoves
    BY <1>2, <1>6, <2>2
  <2> QED
    BY <1>5, <1>13, <2>1, <2>2 DEF RetryFailed
<1>14. CASE ReportBlocker
  <2>1. agent' \in Agents
    BY <1>14, <1>4 DEF ReportBlocker, Agents
  <2> QED
    BY <1>14, <2>1, StillMoves DEF ReportBlocker
<1> QED
  BY <1>7, <1>8, <1>9, <1>10, <1>11, <1>12, <1>13, <1>14 DEF AgentNext

(* Every step is one of the query or of the world it looks at.              *)
LEMMA StepMoves ==
  ASSUME Basis, [Next]_vars
  PROVE  WorldMoves \/ Query \/ QueryFails
<1>1. CASE UNCHANGED vars
  <2>1. UNCHANGED <<world, query>> /\ agent' \in Agents
    BY <1>1 DEF Basis, Types, vars
  <2> QED
    BY <2>1, StillMoves
<1>2. CASE Next
  BY <1>2, CommitMoves, ChangeMoves, OthersMove, HookMoves, ReviewMoves, AgentMoves DEF Next
<1> QED
  BY <1>1, <1>2

-----------------------------------------------------------------------------
(* What a query keeps                                                       *)

AfterQueue == {"base", "head", "config", "snapshot", "probe",
               "requeue", "recheck", "rebase", "reconfig"}
AfterBase == AfterQueue \ {"base"}
AfterHead == AfterBase \ {"head"}
AfterRows == {"probe", "requeue", "recheck", "rebase", "reconfig"}
AfterProbe == AfterRows \ {"probe"}
Answered == answer \in Derived

Asking ==
  /\ at # "idle" => answer = "none"
  /\ at \in QuerySteps \ AfterProbe => seen.alive = {}
  /\ begun <= clock /\ Len(seen.rows) <= Len(attempts)

(* The snapshot is taken between the two times that HEAD and the base were  *)
(* read, and history only moves forward.                                    *)
Targeted ==
  /\ at \in AfterBase => seen.base \in Ancestors[base]
  /\ at \in AfterHead => seen.target \in Ancestors[head]
  /\ at \in AfterRows =>
       /\ seen.at \in Commits \X Commits
       /\ seen.target \in Ancestors[seen.at[1]] /\ seen.at[1] \in Ancestors[head]
       /\ seen.base \in Ancestors[seen.at[2]] /\ seen.at[2] \in Ancestors[base]
  /\ at \in {"rebase", "reconfig"} => seen.at[1] = seen.target
  /\ at = "reconfig" => seen.at[2] = seen.base
  /\ Answered => seen.at = <<seen.target, seen.base>>

(* What has become of a row a since the query read it.                      *)
Follows(a, b) ==
  /\ Same(a, b)
  /\ a.state = "published" => b.state = "published" /\ b.verified = a.verified
  /\ b.state = "running" => a.state = "running"
  /\ b.state = "dead" => a.state \in {"running", "dead"}
  /\ b.finding # "none" /\ b.ended <= begun => a.finding # "none" /\ a.state \in Stored

Following ==
  at \in AfterRows \/ Answered =>
    /\ \A i \in DOMAIN seen.rows : Follows(seen.rows[i], attempts[i])
    /\ \A i \in DOMAIN attempts \ DOMAIN seen.rows :
         /\ attempts[i].started > begun
         /\ attempts[i].finding # "none" => attempts[i].ended > begun

QueueFollowing ==
  at \in AfterQueue \/ Answered =>
    /\ seen.queue \in [Commits -> Marker]
    /\ \A c \in Commits :
         /\ seen.queue[c].state # "due"
         /\ seen.queue[c].state = "none" =>
              marker[c].state \in {"none", "due"} \/ marker[c].at > begun

Answering == Answered => Reason(seen) = answer

IInv ==
  /\ Types /\ FindingIsStored /\ Asking /\ Targeted
  /\ Following /\ QueueFollowing /\ Answering

LEMMA InvBasis == IInv => Basis
  BY DEF IInv, Asking, Basis

(* The steps of everybody else keep it.                                     *)
LEMMA WorldTypes == ASSUME IInv, WorldMoves PROVE Types'
<1>1. head' \in Commits /\ base' \in Commits
  BY HeadAssumption DEF WorldMoves, CheckoutMoves
<1>2. head' \in BranchHeads /\ base' \in MainLine /\ dirty' \in BOOLEAN /\ policy' \in Policies
  BY DEF WorldMoves, CheckoutMoves
<1>3. clock' \in Nat /\ changes' \in Nat /\ faults' \in Nat
  BY DEF WorldMoves, CountersMove
<1>4. marker' \in [Commits -> Marker] /\ attempts' \in Seq(Attempts)
  BY DEF WorldMoves, MarkersMove, RowsMove
<1>5. at' = at /\ seen' = seen /\ answer' = answer /\ begun' = begun
  BY DEF WorldMoves, query
<1>6. agent' \in Agents /\ agent' \in Askers \cup {"acts", "waits", "hands off", "reports"}
  BY DEF WorldMoves, Agents
<1>7. TypeOK /\ seen \in Seen
  BY DEF IInv, Types
<1>8. TypeOK'
  BY <1>1, <1>2, <1>3, <1>4, <1>5, <1>6, <1>7 DEF TypeOK
<1> QED
  BY <1>2, <1>5, <1>6, <1>7, <1>8 DEF Types

LEMMA WorldTargets == ASSUME IInv, WorldMoves PROVE Targeted'
<1>1. /\ head' \in Commits /\ base' \in Commits
      /\ head \in Ancestors[head'] /\ base \in Ancestors[base']
  BY HeadAssumption DEF WorldMoves, CheckoutMoves
<1>2. Ancestors[head] \subseteq Ancestors[head'] /\ Ancestors[base] \subseteq Ancestors[base']
  BY <1>1, AncestorsOrder
<1>3. at' = at /\ seen' = seen /\ answer' = answer
  BY DEF WorldMoves, query
<1> QED
  BY <1>2, <1>3 DEF IInv, Targeted, Answered

LEMMA WorldFollows == ASSUME IInv, WorldMoves PROVE Following'
<1>1. at' = at /\ seen' = seen /\ answer' = answer /\ begun' = begun
  BY DEF WorldMoves, query
<1>2. RowsMove
  BY DEF WorldMoves
<1>3. clock \in Nat /\ begun \in Nat /\ begun <= clock
  BY CountersType DEF IInv, Asking
<1>4. /\ attempts' \in Seq(Attempts) /\ attempts \in Seq(Attempts)
      /\ seen.rows \in Seq(Attempts)
      /\ DOMAIN seen.rows \subseteq DOMAIN attempts /\ DOMAIN attempts \subseteq DOMAIN attempts'
  <2>1. /\ attempts' \in Seq(Attempts) /\ attempts \in Seq(Attempts)
        /\ Len(attempts) <= Len(attempts')
    BY InvBasis, RowsOfSeen DEF WorldMoves, RowsMove
  <2>2. DOMAIN attempts \subseteq DOMAIN attempts'
    BY <2>1
  <2> QED
    BY <2>1, <2>2, InvBasis, RowsOfSeen
<1>5. SUFFICES ASSUME at \in AfterRows \/ Answered
      PROVE  /\ \A i \in DOMAIN seen.rows : Follows(seen.rows[i], attempts'[i])
             /\ \A i \in DOMAIN attempts' \ DOMAIN seen.rows :
                  /\ attempts'[i].started > begun
                  /\ attempts'[i].finding # "none" => attempts'[i].ended > begun
  BY <1>1 DEF Following, Answered, Follows
<1>6. ASSUME NEW i \in DOMAIN seen.rows PROVE Follows(seen.rows[i], attempts'[i])
  <2>1. Follows(seen.rows[i], attempts[i]) /\ RowMoves(attempts[i], attempts'[i])
    BY <1>2, <1>4, <1>5 DEF IInv, Following, RowsMove
  <2>2. ~(clock + 1 <= begun)
    BY <1>3
  <2> DEFINE later == clock + 1
  <2>3. ~(later <= begun) /\ RowMoves(attempts[i], attempts'[i])
        /\ (attempts'[i].finding # "none" =>
               attempts'[i].ended = later
               \/ (attempts[i].finding # "none" /\ attempts'[i].ended = attempts[i].ended))
    BY <2>1, <2>2 DEF RowMoves
  <2> HIDE DEF later
  <2> QED
    BY <2>1, <2>3 DEF Follows, RowMoves, Same
<1>7. ASSUME NEW i \in DOMAIN attempts' \ DOMAIN seen.rows
      PROVE  /\ attempts'[i].started > begun
             /\ attempts'[i].finding # "none" => attempts'[i].ended > begun
  <2>1. CASE i \in DOMAIN attempts
    <3>1. RowMoves(attempts[i], attempts'[i])
      BY <1>2, <2>1 DEF RowsMove
    <3>2. attempts[i].started > begun /\ (attempts[i].finding # "none" => attempts[i].ended > begun)
      BY <1>5, <2>1 DEF IInv, Following
    <3>3. clock + 1 > begun
      BY <1>3
    <3> QED
      BY <3>1, <3>2, <3>3 DEF RowMoves, Same
  <2>2. CASE i \notin DOMAIN attempts
    <3>1. attempts'[i].started = clock + 1 /\ attempts'[i].finding = "none"
      BY <1>2, <2>2 DEF RowsMove
    <3> QED
      BY <1>3, <3>1
  <2> QED
    BY <2>1, <2>2
<1> QED
  BY <1>6, <1>7

LEMMA WorldKeeps == ASSUME IInv, WorldMoves PROVE IInv'
<1>1. at' = at /\ seen' = seen /\ answer' = answer /\ begun' = begun
  BY DEF WorldMoves, query
<1>2. RowsMove /\ MarkersMove /\ CountersMove
  BY DEF WorldMoves
<1>3. clock \in Nat /\ begun \in Nat /\ begun <= clock /\ marker \in [Commits -> Marker]
  <2>1. marker \in [Commits -> Marker]
    BY DEF IInv, Types, TypeOK
  <2> QED
    BY <2>1, CountersType DEF IInv, Asking
<1>4. DOMAIN seen.rows \subseteq DOMAIN attempts /\ attempts \in Seq(Attempts)
      /\ seen.rows \in Seq(Attempts)
  BY InvBasis, RowsOfSeen
<1>5. FindingIsStored'
  <2>1. ASSUME NEW i \in DOMAIN attempts', attempts'[i].finding # "none"
        PROVE  attempts'[i].state \in Stored
    <3>1. i \in DOMAIN attempts
      BY <1>2, <2>1 DEF RowsMove
    <3>2. RowMoves(attempts[i], attempts'[i])
      BY <1>2, <3>1 DEF RowsMove
    <3> QED
      BY <2>1, <3>2 DEF RowMoves
  <2> QED
    BY <2>1 DEF FindingIsStored
<1>6. Asking'
  <2>1. Len(attempts') \in Nat /\ Len(attempts) \in Nat /\ Len(seen.rows) \in Nat
        /\ Len(attempts) <= Len(attempts') /\ Len(seen.rows) <= Len(attempts)
    BY <1>2, <1>4 DEF RowsMove, IInv, Asking
  <2>2. begun <= clock' /\ Len(seen.rows) <= Len(attempts')
    BY <1>2, <1>3, <2>1 DEF CountersMove
  <2> QED
    BY <1>1, <2>2 DEF IInv, Asking
<1>8. QueueFollowing'
  <2>1. SUFFICES ASSUME at \in AfterQueue \/ Answered, NEW c \in Commits,
                        seen.queue[c].state = "none"
        PROVE  marker'[c].state \in {"none", "due"} \/ marker'[c].at > begun
    BY <1>1 DEF IInv, QueueFollowing, Answered
  <2>2. marker[c].state \in {"none", "due"} \/ marker[c].at > begun
    BY <2>1 DEF IInv, QueueFollowing
  <2>3. clock + 1 > begun
    BY <1>3
  <2> QED
    BY <1>2, <2>2, <2>3 DEF MarkersMove
<1>9. Answering'
  BY <1>1 DEF IInv, Answering, Answered
<1> QED
  BY <1>5, <1>6, <1>8, <1>9, WorldTypes, WorldTargets, WorldFollows DEF IInv

-----------------------------------------------------------------------------
(* The steps of the query                                                   *)

WorldStays ==
  /\ UNCHANGED <<head, base, dirty, policy, attempts, marker, clock, changes>>
  /\ faults' \in Nat

LEMMA NothingIsSeen ==
  Nothing \in Seen /\ Nothing.alive = {} /\ Nothing.rows = <<>>
<1>1. (CHOOSE p \in Policies : TRUE) \in Policies
  BY PolicyAssumption
<1>2. <<>> \in Seq(Attempts) /\ {} \in SUBSET Nat /\ FirstHead \in Commits
  BY HeadAssumption
<1> QED
  BY <1>1, <1>2, HeadAssumption DEF Nothing, Seen

LEMMA SeenTypes ==
  ASSUME IInv
  PROVE  /\ seen \in Seen /\ seen.rows \in Seq(Attempts)
         /\ seen.alive \in SUBSET (DOMAIN seen.rows)
         /\ DOMAIN seen.rows \subseteq Nat
         /\ head \in BranchHeads /\ base \in MainLine /\ head \in Commits /\ base \in Commits
         /\ policy \in Policies /\ dirty \in BOOLEAN
         /\ attempts \in Seq(Attempts) /\ marker \in [Commits -> Marker]
<1>1. /\ seen \in Seen /\ seen.rows \in Seq(Attempts)
      /\ seen.alive \in SUBSET (DOMAIN seen.rows)
  BY DEF IInv, Types, TypeOK
<1>2. /\ head \in BranchHeads /\ base \in MainLine /\ head \in Commits /\ base \in Commits
      /\ policy \in Policies /\ dirty \in BOOLEAN
      /\ attempts \in Seq(Attempts) /\ marker \in [Commits -> Marker]
  BY DEF IInv, Types, TypeOK
<1>3. DOMAIN seen.rows \subseteq Nat
  BY <1>1
<1> QED
  BY <1>1, <1>2, <1>3

LEMMA QueryTypes ==
  ASSUME IInv, WorldStays, at' \in QuerySteps \cup {"idle"},
         answer' \in Reasons \cup {"none"}, begun' \in Nat, agent' \in Agents,
         seen' \in Seen, seen'.alive \in SUBSET (DOMAIN seen'.rows)
  PROVE  Types'
<1>1. TypeOK /\ head \in BranchHeads /\ base \in MainLine
  BY DEF IInv, Types
<1>2. UNCHANGED <<head, base, dirty, policy, attempts, marker, clock, changes>>
  BY DEF WorldStays
<1>3. agent' \in Askers \cup {"acts", "waits", "hands off", "reports"} /\ faults' \in Nat
  BY DEF Agents, WorldStays
<1>4. /\ seen'.head \in Commits /\ seen'.target \in Commits /\ seen'.base \in Commits
      /\ seen'.policy \in Policies /\ seen'.rows \in Seq(Attempts)
      /\ seen'.queue \in [Commits -> Marker] \cup {<<>>}
      /\ seen'.at \in (Commits \X Commits) \cup {<<>>}
  BY HeadAssumption DEF Seen
<1>5. TypeOK'
  BY <1>1, <1>2, <1>3, <1>4 DEF TypeOK
<1> QED
  BY <1>1, <1>2, <1>5 DEF Types

LEMMA ReasonIsDerived ==
  ASSUME NEW r
  PROVE  Reason(r) \in Derived
<1>1. CoverageReason(r) \in {"ready", "stale-coverage", "missing-review", "incomplete-coverage",
                            "incompatible-lineage", "incompatible-policy"}
  BY DEF CoverageReason
<1>2. PublicationReason(r) \in {"ready", "stale-coverage", "missing-review", "incomplete-coverage",
                            "incompatible-lineage", "incompatible-policy"}
  BY <1>1 DEF PublicationReason
<1> QED
  BY <1>2 DEF Reason, Derived

(* Before it has read the rows and without an answer a query owes nothing.  *)
LEMMA EarlyKeeps ==
  ASSUME IInv, WorldStays, at' \in (QuerySteps \cup {"idle"}) \ AfterRows,
         answer' \in {"none", "operational-error"},
         at' # "idle" => answer' = "none",
         begun' \in Nat, begun' <= clock, agent' \in Agents,
         seen' \in Seen, seen'.alive = {}, Len(seen'.rows) <= Len(attempts),
         at' \in AfterBase => seen'.base \in Ancestors[base],
         at' \in AfterHead => seen'.target \in Ancestors[head],
         QueueFollowing'
  PROVE  IInv'
<1>1. Types'
  <2>1. answer' \in Reasons \cup {"none"} /\ seen'.alive \in SUBSET (DOMAIN seen'.rows)
    BY DEF Reasons
  <2> QED
    BY <2>1, QueryTypes
<1>2. UNCHANGED <<head, base, attempts, marker, clock>>
  BY DEF WorldStays
<1>3. ~Answered' /\ at' \notin AfterRows /\ at' \notin AfterProbe
  BY DEF Answered, Derived, AfterProbe
<1>4. FindingIsStored' /\ Asking'
  BY <1>2 DEF IInv, FindingIsStored, Asking
<1>5. Targeted'
  BY <1>2, <1>3 DEF Targeted, AfterRows
<1>6. Following' /\ Answering'
  BY <1>3 DEF Following, Answering
<1> QED
  BY <1>1, <1>4, <1>5, <1>6 DEF IInv

LEMMA FailKeeps ==
  ASSUME IInv, WorldStays, Settle("operational-error", Nothing)
  PROVE  IInv'
<1>1. at' = "idle" /\ answer' = "operational-error" /\ seen' = Nothing /\ begun' = begun
  BY DEF Settle
<1>2. agent' \in Agents
  <2>1. agent \in Agents
    BY DEF IInv, Types
  <2> QED
    BY <2>1, AskerAssumption DEF Settle, Agents
<1>3. begun \in Nat /\ begun <= clock
  BY CountersType DEF IInv, Asking
<1>4. Len(Nothing.rows) <= Len(attempts)
  <2>1. Len(attempts) \in Nat
    BY SeenTypes
  <2> QED
    BY <2>1, NothingIsSeen
<1>5. QueueFollowing'
  BY <1>1 DEF QueueFollowing, Answered, Derived, AfterQueue
<1> QED
  BY <1>1, <1>2, <1>3, <1>4, <1>5, NothingIsSeen, EarlyKeeps DEF AfterBase, AfterHead, AfterQueue, AfterRows

LEMMA AskKeeps ==
  ASSUME IInv, Ask
  PROVE  IInv'
<1>1. at' = "checkout" /\ answer' = "none" /\ seen' = Nothing /\ begun' = clock /\ agent' = agent
  BY DEF Ask
<1>2. WorldStays /\ clock \in Nat
  BY CountersType DEF Ask, world, WorldStays, IInv
<1>3. agent \in Agents
  BY DEF IInv, Types
<1>4. Len(Nothing.rows) <= Len(attempts)
  <2>1. Len(attempts) \in Nat
    BY SeenTypes
  <2> QED
    BY <2>1, NothingIsSeen
<1>5. QueueFollowing'
  BY <1>1 DEF QueueFollowing, Answered, Derived, AfterQueue
<1>6. clock <= clock
  BY <1>2
<1>7. at' \in (QuerySteps \cup {"idle"}) \ AfterRows /\ at' \notin AfterBase /\ at' \notin AfterHead
  BY <1>1 DEF QuerySteps, AfterBase, AfterHead, AfterQueue, AfterRows
<1> QED
  BY <1>1, <1>2, <1>3, <1>4, <1>5, <1>6, <1>7, NothingIsSeen, EarlyKeeps

LEMMA ReadStays ==
  ASSUME IInv, NEW from, NEW to, NEW value, Read(from, to, value)
  PROVE  /\ WorldStays /\ at = from /\ at' = to /\ seen' = value
         /\ answer' = answer /\ begun' = begun /\ agent' = agent
         /\ begun \in Nat /\ begun <= clock /\ agent \in Agents
         /\ attempts' = attempts /\ marker' = marker
<1>1. begun \in Nat /\ faults \in Nat /\ begun <= clock /\ agent \in Agents
  BY CountersType DEF IInv, Asking, Types
<1> QED
  BY <1>1 DEF Read, world, WorldStays

(* The readings before the snapshot.                                        *)
LEMMA EarlyReads ==
  ASSUME IInv, ReadCheckout \/ ReadQueue \/ ResolveBase \/ ResolveHead \/ LoadConfig
  PROVE  IInv'
<1>1. PICK to \in {"queue", "base", "head", "config", "snapshot"} :
        \E from \in QuerySteps \ AfterRows : \E value : Read(from, to, value)
  BY DEF ReadCheckout, ReadQueue, ResolveBase, ResolveHead, LoadConfig, QuerySteps, AfterRows
<1>2. /\ WorldStays /\ at \in QuerySteps \ AfterRows /\ at' = to
      /\ answer' = answer /\ begun' = begun /\ agent' = agent
      /\ begun \in Nat /\ begun <= clock /\ agent \in Agents
      /\ attempts' = attempts /\ marker' = marker
  BY <1>1, ReadStays
<1>3. answer = "none" /\ seen.alive = {} /\ Len(seen.rows) <= Len(attempts)
  BY <1>2 DEF IInv, Asking, QuerySteps, AfterProbe, AfterRows
<1>4. seen' \in Seen /\ seen'.alive = seen.alive /\ seen'.rows = seen.rows
  <2>1. ASSUME ReadCheckout
        PROVE  seen' \in Seen /\ seen'.alive = seen.alive /\ seen'.rows = seen.rows
    <3>1. seen' = [seen EXCEPT !.head = head, !.dirty = dirty]
      BY <2>1, ReadStays DEF ReadCheckout
    <3> QED
      BY <3>1, SeenTypes DEF Seen
  <2>2. ASSUME ReadQueue
        PROVE  seen' \in Seen /\ seen'.alive = seen.alive /\ seen'.rows = seen.rows
    <3>1. seen' = [seen EXCEPT !.queue = Visible]
      BY <2>2, ReadStays DEF ReadQueue
    <3>2. Visible \in [Commits -> Marker]
      BY SeenTypes DEF Visible, NoMarker, Marker
    <3> QED
      BY <3>1, <3>2, SeenTypes DEF Seen
  <2>3. ASSUME ResolveBase \/ ResolveHead \/ LoadConfig
        PROVE  seen' \in Seen /\ seen'.alive = seen.alive /\ seen'.rows = seen.rows
    BY <2>3, SeenTypes DEF Seen, Read, ResolveBase, ResolveHead, LoadConfig
  <2> QED
    BY <2>1, <2>2, <2>3
<1>5. at' \in AfterBase => seen'.base \in Ancestors[base]
  <2>1. CASE ResolveBase
    <3>1. seen'.base = base
      BY <2>1, SeenTypes DEF Read, ResolveBase, Seen
    <3> QED
      BY <3>1, SeenTypes, AncestorsOrder
  <2>2. CASE ResolveHead \/ LoadConfig
    <3>1. seen'.base = seen.base /\ at \in AfterBase
      BY <2>2, SeenTypes DEF Read, ResolveHead, LoadConfig, Seen, AfterBase, AfterQueue
    <3> QED
      BY <3>1 DEF IInv, Targeted
  <2>3. CASE ReadCheckout \/ ReadQueue
    BY <2>3 DEF Read, ReadCheckout, ReadQueue, AfterBase, AfterQueue
  <2> QED
    BY <2>1, <2>2, <2>3
<1>6. at' \in AfterHead => seen'.target \in Ancestors[head]
  <2>1. CASE ResolveHead
    <3>1. seen'.target = head
      BY <2>1, SeenTypes DEF Read, ResolveHead, Seen
    <3> QED
      BY <3>1, SeenTypes, AncestorsOrder
  <2>2. CASE LoadConfig
    <3>1. seen'.target = seen.target /\ at \in AfterHead
      BY <2>2, SeenTypes DEF Read, LoadConfig, Seen, AfterHead, AfterBase, AfterQueue
    <3> QED
      BY <3>1 DEF IInv, Targeted
  <2>3. CASE ReadCheckout \/ ReadQueue \/ ResolveBase
    BY <2>3 DEF Read, ReadCheckout, ReadQueue, ResolveBase, AfterHead, AfterBase, AfterQueue
  <2> QED
    BY <2>1, <2>2, <2>3
<1>7. QueueFollowing'
  <2>1. CASE ReadCheckout
    BY <1>2, <1>3, <2>1 DEF Read, ReadCheckout, QueueFollowing, Answered, AfterQueue, Derived
  <2>2. CASE ReadQueue
    <3>1. seen'.queue = Visible
      BY <2>2, SeenTypes DEF Read, ReadQueue, Seen
    <3>2. Visible \in [Commits -> Marker]
      BY SeenTypes DEF Visible, NoMarker, Marker
    <3>3. ASSUME NEW c \in Commits
          PROVE  /\ Visible[c].state # "due"
                 /\ Visible[c].state = "none" => marker[c].state \in {"none", "due"}
      BY DEF Visible, NoMarker
    <3> QED
      BY <1>2, <3>1, <3>2, <3>3 DEF QueueFollowing
  <2>3. CASE ResolveBase \/ ResolveHead \/ LoadConfig
    <3>1. seen'.queue = seen.queue /\ at \in AfterQueue
      BY <2>3, SeenTypes DEF Read, ResolveBase, ResolveHead, LoadConfig, Seen, AfterQueue
    <3> QED
      BY <1>2, <3>1 DEF IInv, QueueFollowing
  <2> QED
    BY <2>1, <2>2, <2>3
<1>8. at' \in (QuerySteps \cup {"idle"}) \ AfterRows /\ at' # "idle"
  BY <1>2 DEF QuerySteps, AfterRows
<1> QED
  BY <1>2, <1>3, <1>4, <1>5, <1>6, <1>7, <1>8, EarlyKeeps

(* A row follows itself.                                                    *)
LEMMA SnapshotKeeps ==
  ASSUME IInv, ReadSnapshot
  PROVE  IInv'
<1> DEFINE value == [seen EXCEPT !.rows = attempts, !.at = <<head, base>>]
<1>1. /\ WorldStays /\ at = "snapshot" /\ at' = "probe" /\ seen' = value
      /\ answer' = answer /\ begun' = begun /\ agent' = agent
      /\ begun \in Nat /\ begun <= clock /\ agent \in Agents
      /\ attempts' = attempts /\ marker' = marker
  BY ReadStays DEF ReadSnapshot
<1>2. answer = "none" /\ seen.alive = {}
  BY <1>1 DEF IInv, Asking, QuerySteps, AfterProbe, AfterRows
<1>3. /\ value \in Seen /\ value.rows = attempts /\ value.at = <<head, base>>
      /\ value.alive = seen.alive /\ value.base = seen.base /\ value.target = seen.target
      /\ value.queue = seen.queue
  BY SeenTypes DEF Seen
<1> HIDE DEF value
<1>4. Types'
  <2>1. at' \in QuerySteps \cup {"idle"} /\ answer' \in Reasons \cup {"none"}
        /\ seen'.alive \in SUBSET (DOMAIN seen'.rows)
    BY <1>1, <1>2, <1>3 DEF QuerySteps
  <2> QED
    BY <1>1, <1>3, <2>1, QueryTypes
<1>5. ~Answered' /\ answer' = "none"
  BY <1>1, <1>2 DEF Answered, Derived
<1>6. FindingIsStored' /\ Asking'
  <2>1. Len(attempts) <= Len(attempts) /\ clock' = clock
    <3>1. Len(attempts) \in Nat
      BY SeenTypes
    <3> QED
      BY <1>1, <3>1 DEF WorldStays
  <2>2. seen'.alive = {} /\ seen'.rows = attempts
    BY <1>1, <1>2, <1>3
  <2> QED
    BY <1>1, <1>5, <2>1, <2>2 DEF IInv, FindingIsStored, Asking
<1>7. Targeted'
  <2>1. /\ seen'.at = <<head, base>> /\ seen'.base = seen.base /\ seen'.target = seen.target
        /\ head' = head /\ base' = base
    BY <1>1, <1>3 DEF WorldStays
  <2>2. seen.base \in Ancestors[base] /\ seen.target \in Ancestors[head]
    BY <1>1 DEF IInv, Targeted, AfterHead, AfterBase, AfterQueue
  <2>3. seen'.at \in Commits \X Commits /\ seen'.at[1] = head /\ seen'.at[2] = base
        /\ head \in Ancestors[head] /\ base \in Ancestors[base]
    BY <2>1, SeenTypes, AncestorsOrder
  <2> QED
    BY <1>1, <1>5, <2>1, <2>2, <2>3 DEF Targeted
<1>8. Following'
  <2>1. ASSUME NEW j \in DOMAIN attempts PROVE Follows(attempts[j], attempts[j])'
    BY <1>1, <2>1 DEF Follows, Same, IInv, FindingIsStored
  <2> QED
    BY <1>1, <1>3, <2>1 DEF Following, Follows, Same
<1>9. Answering'
  BY <1>1, <1>5 DEF Answering
<1>10. QueueFollowing'
  BY <1>1, <1>3 DEF IInv, QueueFollowing, AfterQueue
<1> QED
  BY <1>4, <1>6, <1>7, <1>8, <1>9, <1>10 DEF IInv

(* The leases that answer are the rows' own, and only a probe is spent.     *)
LEMMA ProbeKeeps ==
  ASSUME IInv, ProbeLeases
  PROVE  IInv'
<1>1. PICK alive \in SUBSET (DOMAIN seen.rows) :
        /\ at = "probe" /\ at' = "requeue" /\ seen' = [seen EXCEPT !.alive = alive]
        /\ Fault \/ UNCHANGED faults
        /\ UNCHANGED <<head, base, dirty, policy, attempts, marker, clock, changes,
                       answer, begun, agent>>
  BY DEF ProbeLeases
<1> DEFINE value == [seen EXCEPT !.alive = alive]
<1>2. /\ WorldStays /\ at = "probe" /\ at' = "requeue" /\ seen' = value
      /\ answer' = answer /\ begun' = begun /\ agent' = agent
      /\ begun \in Nat /\ begun <= clock /\ agent \in Agents
      /\ attempts' = attempts /\ marker' = marker
  <2>1. faults' \in Nat
    BY <1>1, CountersType DEF IInv, Fault
  <2>2. begun \in Nat /\ begun <= clock /\ agent \in Agents
    BY CountersType DEF IInv, Asking, Types
  <2> QED
    BY <1>1, <2>1, <2>2 DEF WorldStays
<1>3. answer = "none"
  BY <1>2 DEF IInv, Asking
<1>4. /\ value \in Seen /\ value.rows = seen.rows /\ value.at = seen.at
      /\ value.alive = alive /\ value.base = seen.base /\ value.target = seen.target
      /\ value.queue = seen.queue
  <2>1. alive \in SUBSET Nat
    BY SeenTypes
  <2> QED
    BY <2>1, SeenTypes DEF Seen
<1> HIDE DEF value
<1>5. Types'
  <2>1. at' \in QuerySteps \cup {"idle"} /\ answer' \in Reasons \cup {"none"}
        /\ seen'.alive \in SUBSET (DOMAIN seen'.rows)
    BY <1>2, <1>3, <1>4 DEF QuerySteps
  <2> QED
    BY <1>2, <1>4, <2>1, QueryTypes
<1>6. ~Answered' /\ answer' = "none"
  BY <1>2, <1>3 DEF Answered, Derived
<1>7. FindingIsStored' /\ Asking'
  <2>1. clock' = clock /\ Len(seen.rows) <= Len(attempts)
    BY <1>2 DEF WorldStays, IInv, Asking
  <2> QED
    BY <1>2, <1>4, <1>6, <2>1 DEF IInv, FindingIsStored, Asking, AfterProbe, AfterRows
<1>8. Targeted'
  <2>1. head' = head /\ base' = base
    BY <1>2 DEF WorldStays
  <2> QED
    BY <1>2, <1>4, <1>6, <2>1 DEF IInv, Targeted, AfterHead, AfterBase, AfterQueue, AfterRows
<1>9. Following'
  BY <1>2, <1>4 DEF IInv, Following, Follows, AfterRows
<1>10. Answering'
  BY <1>6 DEF Answering
<1>11. QueueFollowing'
  BY <1>2, <1>4 DEF IInv, QueueFollowing, AfterQueue
<1> QED
  BY <1>5, <1>7, <1>8, <1>9, <1>10, <1>11 DEF IInv

(* A second reading that finds the same commit pins the snapshot to it: the *)
(* history that passed through it went on and came back.                    *)
LEMMA RereadKeeps ==
  ASSUME IInv, RereadQueue \/ RereadCheckout \/ RereadBase
  PROVE  IInv'
<1>1. ASSUME Settle("operational-error", Nothing), UNCHANGED world PROVE IInv'
  <2>1. WorldStays
    BY <1>1, CountersType DEF IInv, world, WorldStays
  <2> QED
    BY <1>1, <2>1, FailKeeps
<1>2. ASSUME at \in {"requeue", "recheck", "rebase"}, at' \in {"recheck", "rebase", "reconfig"},
             at' = "rebase" => seen.head = head /\ seen.head = seen.target,
             at' = "reconfig" => at = "rebase" /\ seen.base = base,
             UNCHANGED <<world, seen, answer, begun, agent>>
      PROVE  IInv'
  <2>1. /\ WorldStays /\ attempts' = attempts /\ marker' = marker /\ clock' = clock
        /\ head' = head /\ base' = base
    BY <1>2, CountersType DEF IInv, world, WorldStays
  <2>2. answer = "none" /\ ~Answered /\ ~Answered'
    BY <1>2 DEF IInv, Asking, Answered, Derived
  <2>3. Types'
    <3>1. at' \in QuerySteps \cup {"idle"} /\ answer' \in Reasons \cup {"none"}
      BY <1>2, <2>2 DEF QuerySteps
    <3>2. begun \in Nat /\ agent \in Agents
      BY CountersType DEF IInv, Types
    <3> QED
      BY <1>2, <2>1, <3>1, <3>2, SeenTypes, QueryTypes
  <2>4. FindingIsStored' /\ Asking'
    BY <1>2, <2>1, <2>2 DEF IInv, FindingIsStored, Asking, AfterProbe, AfterRows
  <2>5. Targeted'
    <3>1. /\ seen.at \in Commits \X Commits
          /\ seen.target \in Ancestors[seen.at[1]] /\ seen.at[1] \in Ancestors[head]
          /\ seen.base \in Ancestors[seen.at[2]] /\ seen.at[2] \in Ancestors[base]
          /\ seen.base \in Ancestors[base] /\ seen.target \in Ancestors[head]
      BY <1>2 DEF IInv, Targeted, AfterRows, AfterHead, AfterBase, AfterQueue
    <3>2. seen.at[1] \in Commits /\ seen.at[2] \in Commits
      BY <3>1
    <3>3. at' \in {"rebase", "reconfig"} => seen.at[1] = seen.target
      <4>1. CASE at' = "rebase"
        BY <1>2, <3>1, <3>2, <4>1, SeenTypes, AncestorsOrder
      <4>2. CASE at' = "reconfig"
        BY <1>2, <4>2 DEF IInv, Targeted
      <4> QED
        BY <4>1, <4>2
    <3>4. at' = "reconfig" => seen.at[2] = seen.base
      BY <1>2, <3>1, <3>2, SeenTypes, AncestorsOrder
    <3> QED
      BY <1>2, <2>1, <2>2, <3>1, <3>3, <3>4 DEF Targeted
  <2>6. Following'
    BY <1>2, <2>1 DEF IInv, Following, Follows, AfterRows
  <2>8. QueueFollowing' /\ Answering'
    BY <1>2, <2>1, <2>2 DEF IInv, QueueFollowing, Answering, AfterQueue
  <2> QED
    BY <2>3, <2>4, <2>5, <2>6, <2>8 DEF IInv
<1>3. CASE RereadQueue
  BY <1>1, <1>2, <1>3 DEF RereadQueue, Reread, Unchanged
<1>4. CASE RereadCheckout
  BY <1>1, <1>2, <1>4 DEF RereadCheckout, Reread, Unchanged
<1>5. CASE RereadBase
  BY <1>1, <1>2, <1>5 DEF RereadBase, Reread, Unchanged
<1> QED
  BY <1>3, <1>4, <1>5

LEMMA AnswerKeeps ==
  ASSUME IInv, Answer
  PROVE  IInv'
<1>1. WorldStays /\ attempts' = attempts /\ marker' = marker /\ clock' = clock
      /\ head' = head /\ base' = base
  BY CountersType DEF IInv, Answer, world, WorldStays
<1>2. CASE Settle("operational-error", Nothing)
  BY <1>1, <1>2, FailKeeps
<1>3. CASE Settle(Reason(seen), seen)
  <2>1. at = "reconfig" /\ at' = "idle" /\ answer' = Reason(seen) /\ seen' = seen /\ begun' = begun
    BY <1>3 DEF Answer, Settle
  <2>2. agent' \in Agents
    <3>1. agent \in Agents
      BY DEF IInv, Types
    <3> QED
      BY <1>3, <3>1, AskerAssumption DEF Settle, Agents
  <2>3. Reason(seen) \in Derived
    BY ReasonIsDerived
  <2>4. Types'
    <3>1. at' \in QuerySteps \cup {"idle"} /\ answer' \in Reasons \cup {"none"} /\ begun \in Nat
      BY <2>1, <2>3, CountersType DEF IInv, QuerySteps, Reasons
    <3> QED
      BY <1>1, <2>1, <2>2, <3>1, SeenTypes, QueryTypes
  <2>5. FindingIsStored' /\ Asking'
    BY <1>1, <2>1 DEF IInv, FindingIsStored, Asking, QuerySteps
  <2>6. Targeted'
    <3>1. seen.at \in Commits \X Commits /\ seen.at[1] = seen.target /\ seen.at[2] = seen.base
      BY <2>1 DEF IInv, Targeted, AfterRows
    <3>2. seen.at = <<seen.target, seen.base>>
      BY <3>1
    <3> QED
      BY <2>1, <3>2 DEF Targeted, AfterRows, AfterHead, AfterBase, AfterQueue
  <2>7. Following'
    BY <1>1, <2>1 DEF IInv, Following, Follows, AfterRows
  <2>9. QueueFollowing' /\ Answering'
    BY <1>1, <2>1 DEF IInv, QueueFollowing, Answering, AfterQueue
  <2> QED
    BY <2>4, <2>5, <2>6, <2>7, <2>9 DEF IInv
<1> QED
  BY <1>2, <1>3 DEF Answer

LEMMA QueryFailsKeeps ==
  ASSUME IInv, QueryFails
  PROVE  IInv'
<1>1. WorldStays /\ Settle("operational-error", Nothing)
  BY CountersType DEF IInv, QueryFails, Fault, WorldStays
<1> QED
  BY <1>1, FailKeeps

-----------------------------------------------------------------------------
(* Theorems                                                                 *)

(* Nothing is read and nothing is stored at first.                          *)
LEMMA InitKeeps == Init => IInv
<1> SUFFICES ASSUME Init PROVE IInv
  OBVIOUS
<1>1. /\ seen = Nothing /\ attempts = <<>> /\ at = "idle" /\ answer = "none" /\ begun = 0
      /\ clock = 0 /\ changes = 0 /\ faults = 0 /\ head = FirstHead /\ base = FirstBase
      /\ dirty = FALSE /\ policy = (CHOOSE p \in Policies : TRUE) /\ agent \in Askers
  BY DEF Init
<1>2. policy \in Policies
  BY <1>1, PolicyAssumption
<1>3. marker \in [Commits -> Marker]
  BY DEF Init, Marker, NoMarker
<1>4. attempts \in Seq(Attempts) /\ Len(attempts) = 0 /\ DOMAIN attempts = {}
  BY <1>1
<1>5. Types
  <2>1. /\ head \in Commits /\ base \in Commits /\ head \in BranchHeads /\ base \in MainLine
    BY <1>1, HeadAssumption
  <2>2. dirty \in BOOLEAN /\ agent \in Agents /\ agent \in Askers \cup {"acts", "waits", "hands off", "reports"}
    BY <1>1 DEF Agents
  <2>3. /\ seen.head \in Commits /\ seen.target \in Commits /\ seen.base \in Commits
        /\ seen.policy \in Policies /\ seen.rows \in Seq(Attempts)
        /\ seen.queue \in [Commits -> Marker] \cup {<<>>}
        /\ seen.at \in (Commits \X Commits) \cup {<<>>}
    BY <1>1, NothingIsSeen, HeadAssumption DEF Seen
  <2>4. seen.alive \in SUBSET (DOMAIN seen.rows)
    BY <1>1, NothingIsSeen
  <2>5. TypeOK
    BY <1>1, <1>2, <1>3, <1>4, <2>1, <2>2, <2>3, <2>4 DEF TypeOK
  <2> QED
    BY <1>1, <2>1, <2>2, <2>5, NothingIsSeen DEF Types
<1>6. ~Answered
  BY <1>1 DEF Answered, Derived
<1>7. FindingIsStored
  BY <1>4 DEF FindingIsStored
<1>8. Asking
  <2>1. Len(seen.rows) <= Len(attempts) /\ seen.alive = {}
    BY <1>1, <1>4, NothingIsSeen
  <2> QED
    BY <1>1, <2>1 DEF Asking
<1>9. Targeted /\ Following /\ QueueFollowing /\ Answering
  BY <1>1, <1>6
    DEF Targeted, Following, QueueFollowing, Answering,
        AfterRows, AfterHead, AfterBase, AfterQueue
<1> QED
  BY <1>5, <1>7, <1>8, <1>9 DEF IInv

(* The invariant holds of every reachable state.                            *)
THEOREM Inductive == Spec => []IInv
<1>1. IInv /\ [Next]_vars => IInv'
  <2> SUFFICES ASSUME IInv, [Next]_vars PROVE IInv'
    OBVIOUS
  <2>1. WorldMoves \/ Query \/ QueryFails
    BY InvBasis, StepMoves
  <2>2. CASE WorldMoves
    BY <2>2, WorldKeeps
  <2>3. CASE Query
    BY <2>3, AskKeeps, EarlyReads, SnapshotKeeps, ProbeKeeps, RereadKeeps, AnswerKeeps DEF Query
  <2>4. CASE QueryFails
    BY <2>4, QueryFailsKeeps
  <2> QED
    BY <2>1, <2>2, <2>3, <2>4
<1> QED
  BY InitKeeps, <1>1, PTL DEF Spec

(* The variables have their types: the query and the reviews of others only *)
(* make rows, markers and answers the database and the command know.        *)
THEOREM TypeCorrect == Spec => []TypeOK
<1>1. IInv => TypeOK
  BY DEF IInv, Types
<1> QED
  BY Inductive, <1>1, PTL

(* Every derived answer names a HEAD and a base that were current at once,  *)
(* when the snapshot of the database was taken: getReadiness reads both     *)
(* before and after it, and history does not go back.                       *)
THEOREM TargetIsCurrent == Spec => []TargetWasCurrent
<1>1. IInv => TargetWasCurrent
  BY DEF IInv, Targeted, Answered, TargetWasCurrent
<1> QED
  BY Inductive, <1>1, PTL

(* What an invariant says of an answer ready.                               *)
LEMMA ReadyMeans ==
  ASSUME IInv, answer = "ready"
  PROVE  /\ Answered /\ Reason(seen) = "ready" /\ Merge(seen) \in Commits
         /\ seen.target \in Commits
<1>1. Answered
  BY DEF Answered, Derived
<1>2. seen.base \in MainLine /\ seen.target \in BranchHeads
  BY SeenTypes DEF Seen
<1>3. Merge(seen) \in Commits
  BY <1>2, HeadAssumption, MergeBaseIsCommon DEF Merge
<1> QED
  BY <1>1, <1>2, <1>3, HeadAssumption DEF IInv, Answering

(* Ready means reviewed: with the first-parent rule of selectCoverage every *)
(* commit between merge base and HEAD, also one of a merged side branch, is *)
(* in the diff of a published, verified review under the current policy.    *)
THEOREM ReadyMeansCovered == Spec => []ReadyIsCovered
<1>1. ASSUME IInv, answer = "ready", NEW x \in History(seen)
      PROVE  \E i \in DOMAIN attempts :
               /\ attempts[i].state = "published" /\ attempts[i].verified
               /\ attempts[i].policy = seen.policy /\ x \in Covers(attempts[i])
  <2>1. PICK i \in Valid(seen) : x \in Covers(seen.rows[i])
    BY <1>1, ReadyMeans, SeenTypes, ReadyCovers
  <2>2. i \in DOMAIN seen.rows /\ seen.rows[i].state = "published" /\ seen.rows[i].verified
        /\ seen.rows[i].policy = seen.policy
    BY <2>1 DEF Valid
  <2>3. Follows(seen.rows[i], attempts[i])
    BY <1>1, <2>2, ReadyMeans DEF IInv, Following
  <2>4. i \in DOMAIN attempts
    BY <1>1, <2>2, InvBasis, RowsOfSeen
  <2>5. Covers(attempts[i]) = Covers(seen.rows[i])
    BY <2>3 DEF Follows, Same, Covers
  <2>6. attempts[i].verified
    BY <2>2, <2>3, Zenon DEF Follows
  <2> QED
    BY <2>1, <2>2, <2>3, <2>4, <2>5, <2>6 DEF Follows, Same
<1>2. IInv => ReadyIsCovered
  BY <1>1 DEF ReadyIsCovered
<1> QED
  BY Inductive, <1>2, PTL

(* Ready means handled: no finding recorded before the query began, by a    *)
(* review of the branch, is open, deferred or without an identity.          *)
THEOREM ReadyMeansHandled == Spec => []ReadyHandlesFindings
<1>1. ASSUME IInv, answer = "ready", NEW i \in DOMAIN attempts,
             attempts[i].ended <= begun, attempts[i].commit \in Relevant(seen),
             attempts[i].finding # "none"
      PROVE  FALSE
  <2>1. /\ \A j \in DOMAIN seen.rows : Follows(seen.rows[j], attempts[j])
        /\ \A j \in DOMAIN attempts \ DOMAIN seen.rows :
             attempts[j].finding # "none" => attempts[j].ended > begun
    BY <1>1, ReadyMeans DEF IInv, Following
  <2>2. begun \in Nat /\ attempts[i].ended \in Nat
    BY <1>1, SeenTypes, CountersType, RowTypes DEF Attempts, IInv
  <2>3. i \in DOMAIN seen.rows
    BY <1>1, <2>1, <2>2
  <2>4. seen.rows[i].finding # "none" /\ seen.rows[i].state \in Stored
        /\ seen.rows[i].commit = attempts[i].commit
    BY <1>1, <2>1, <2>3 DEF Follows, Same
  <2>5. Blocked(seen)
    BY <1>1, <2>3, <2>4 DEF Blocked, Reviews, Stored
  <2> QED
    BY <1>1, <2>5, ReadyMeans, ReadyFollows
<1>2. IInv => ReadyHandlesFindings
  BY <1>1 DEF ReadyHandlesFindings
<1> QED
  BY Inductive, <1>2, PTL

(* A review of the branch that began before the query and still runs.       *)
LEMMA RunningIsCounted ==
  ASSUME IInv, Answered, NEW i \in DOMAIN attempts,
         attempts[i].started <= begun, attempts[i].commit \in Relevant(seen),
         attempts[i].kind = "base" => attempts[i].base = seen.base,
         attempts[i].state \in {"running", "dead"}
  PROVE  i \in DOMAIN seen.rows /\ i \in Running(seen)
<1>1. /\ \A j \in DOMAIN seen.rows : Follows(seen.rows[j], attempts[j])
      /\ \A j \in DOMAIN attempts \ DOMAIN seen.rows : attempts[j].started > begun
  BY DEF IInv, Following
<1>2. begun \in Nat /\ attempts[i].started \in Nat
  BY SeenTypes, CountersType, RowTypes DEF Attempts, IInv
<1>3. i \in DOMAIN seen.rows
  BY <1>1, <1>2
<1>4. seen.rows[i].state \in {"running", "dead"} /\ Same(seen.rows[i], attempts[i])
  BY <1>1, <1>3 DEF Follows
<1> QED
  BY <1>3, <1>4 DEF Running, Counted, Same

(* Ready means quiet: no review of the branch that had begun before the   *)
(* query still runs or was left running, and no commit queued before it     *)
(* still waits for its hook.                                                *)
THEOREM ReadyMeansQuiet == Spec => []ReadyNothingRuns
<1>1. ASSUME IInv, answer = "ready", NEW i \in DOMAIN attempts,
             attempts[i].started <= begun, attempts[i].commit \in Relevant(seen),
             attempts[i].kind = "base" => attempts[i].base = seen.base,
             attempts[i].state \in {"running", "dead"}
      PROVE  FALSE
  <2>1. i \in Running(seen)
    BY <1>1, ReadyMeans, RunningIsCounted
  <2>2. ~Pending(seen) /\ FailedAttempts(seen) = {}
    BY <1>1, ReadyMeans, ReadyFollows
  <2> QED
    BY <2>1, <2>2 DEF Pending, FailedAttempts
<1>2. ASSUME IInv, answer = "ready", NEW c \in Relevant(seen)
      PROVE  Visible[c].state = "none" \/ marker[c].at > begun
  <2>1. c \in Commits
    BY <1>2, ReadyMeans, AncestorsOrder DEF Relevant, History
  <2>2. ~Pending(seen) /\ QueueIn(seen, "failed") = QueueReplaced(seen)
    BY <1>2, ReadyMeans, ReadyFollows
  <2>3. c \notin QueueIn(seen, "pending") /\ c \notin QueueIn(seen, "failed")
    BY <2>2 DEF Pending
  <2>4. seen.queue \in [Commits -> Marker] /\ seen.queue[c].state # "due"
        /\ (seen.queue[c].state = "none" =>
              marker[c].state \in {"none", "due"} \/ marker[c].at > begun)
    BY <1>2, <2>1, ReadyMeans DEF IInv, QueueFollowing
  <2>5. seen.queue[c].state = "none"
    <3>1. seen.queue[c] \in Marker
      BY <2>1, <2>4
    <3> QED
      BY <1>2, <2>3, <2>4, <3>1 DEF QueueIn, Marker
  <2> QED
    BY <2>1, <2>4, <2>5 DEF Visible, NoMarker
<1>3. IInv => ReadyNothingRuns
  BY <1>1, <1>2 DEF ReadyNothingRuns
<1> QED
  BY Inductive, <1>3, PTL

(* Both: whatever the branch owed when the query began has been settled     *)
(* when the answer is ready (ReadyIsSettled; src/review/readiness.ts:173).  *)
THEOREM ReadyMeansSettled == Spec => []ReadyIsSettled
BY ReadyMeansHandled, ReadyMeansQuiet, PTL DEF ReadyIsSettled

(* An agent that follows an answer starts a review beside one of the same   *)
(* branch that ran before it asked and still runs only where that one's     *)
(* lease missed the probe and the answer was a failure: a lease that        *)
(* answered makes the answer "pending", whatever else it would have been.   *)
THEOREM NeverBeside == Spec => NoDuplicateReview
<1>1. ASSUME IInv, [Next]_vars, agent = "acts", agent' = "waits", NEW i \in StillRunning
      PROVE  answer = "review-failed" /\ i \notin seen.alive
  <2>1. answer \in Derived \ {"review-pending"}
    <3>1. agent \notin {"asks", "waits"} /\ agent \notin Askers
      BY <1>1, AskerAssumption
    <3>2. ReviewBranch \/ ReviewUncovered \/ RetryFailed
      BY <1>1
        DEF Next, vars, query, Commit, MoveBase, Edit, Configure, OthersReview, Queue, HookFails,
            HookRetries, HookDone, ReviewEnds, SaveReview, PublishReview, ReviewFails,
            UserDisposes, Query, Ask, Read, ReadCheckout, ReadQueue, ResolveBase, ResolveHead,
            LoadConfig, ReadSnapshot, ProbeLeases, Reread, Settle, RereadQueue,
            RereadCheckout, RereadBase, Answer, QueryFails, AgentNext, HandOff, Wait,
            AgentAsks, DisposeFindings, ReportBlocker, CommitOrRestore, AgentSettled
    <3> QED
      BY <3>2 DEF ReviewBranch, ReviewUncovered, RetryFailed, Derived
  <2>2. Answered /\ ~Pending(seen) /\ Reason(seen) = answer
    BY <1>1, <2>1 DEF Answered, IInv, Answering, Reason
  <2>3. i \in DOMAIN seen.rows /\ i \in Running(seen)
    BY <1>1, <2>2, RunningIsCounted DEF StillRunning
  <2>4. i \notin seen.alive
    BY <2>2, <2>3 DEF Pending
  <2>5. FailedAttempts(seen) # {}
    BY <2>3, <2>4 DEF FailedAttempts
  <2> QED
    BY <2>2, <2>4, <2>5 DEF Reason
<1>2. IInv /\ [Next]_vars =>
        [agent = "acts" /\ agent' = "waits" =>
           \A i \in StillRunning : answer = "review-failed" /\ i \notin seen.alive]_vars
  BY <1>1
<1> QED
  BY Inductive, <1>2, PTL DEF Spec, NoDuplicateReview
=============================================================================
