---------------------------- MODULE LocalReviewProofs ----------------------------
(***************************************************************************)
(* Proofs about the parts of LocalParts that answer from what they read:   *)
(* the context of a review (ContextFits: the cache is true, what is missing*)
(* is said), the review command (CommandFits: what each stage has told) and*)
(* the summary of findings (SummaryFits: what a query has seen at each of  *)
(* its steps); about the telemetry of an attempt (TelemetryFits); about the*)
(* findings of an answer (FindingsFit); and about the evaluation           *)
(* (ScoringFits: how the greedy matching came about; EvalFits: what the    *)
(* trials of a run sum up to) and the protocol of a Codex (EvidenceFits:   *)
(* what each place of the check has established).  A behaviour is one of a *)
(* single part, so each part has an invariant of its own.  Facts on        *)
(* sequences that LocalStateProofs needs are at the end.                   *)
(***************************************************************************)
EXTENDS LocalParts, FiniteSetTheorems, SequenceTheorems, TLAPS

-----------------------------------------------------------------------------
(* The parts                                                                *)

LEMMA PartStays == PartsNext => part' = part
BY DEF PartsNext, OpenDatabase, InstallHook, SetUpAgent, ChoosePreference,
  FindStateRoot, KeepFindings, SuggestDuplicate, SummariseFindings, GatherContext,
  ReadDiff, ReadDocument, PublishFindings, RecordTelemetry, RunCommand, CheckProtocol,
  ScoreCase, RunEvaluation, RunVerification, Runs, Rest

-----------------------------------------------------------------------------
(* The context of a review                                                  *)

LEMMA ContextAlone == part = "context" /\ PartsNext => Context!ContextNext
BY DEF PartsNext, OpenDatabase, InstallHook, SetUpAgent, ChoosePreference,
  FindStateRoot, KeepFindings, SuggestDuplicate, SummariseFindings, GatherContext,
  ReadDiff, ReadDocument, PublishFindings, RecordTelemetry, RunCommand, CheckProtocol,
  ScoreCase, RunEvaluation, RunVerification, Runs, Rest

ModulesOf(c) == Context!Listed(c)
Import(p) == <<Tree[s4.commit][p], Parsed[s4.version][Tree[s4.commit][p]]>>

LEMMA ContextStarts ==
  ASSUME Context!ContextInit
  PROVE  Context!ContextFits
<1>1. /\ DOMAIN s4 = Context!Fields /\ s4.commit \in Reviewed /\ s4.pc = "start" /\ s4.cut = FALSE
      /\ s4.todo = {} /\ s4.uncached = {} /\ s4.bindings = {}
  BY DEF Context!ContextInit, Context!Fields
<1>2. /\ s3 = [b \in Context!Blobs |-> Context!NoRecord]
  BY DEF Context!ContextInit
<1>3. \A b \in Context!Blobs : s3[b].oid = "none"
  BY <1>2 DEF Context!NoRecord
<1>4. \A b \in Context!Blobs : b # "none"
  BY DEF Context!Blobs
<1>5. Context!CacheIsTrue
  BY <1>3, <1>4 DEF Context!CacheIsTrue
<1>6. Context!Accounted
  BY <1>1 DEF Context!Accounted
<1>7. Context!MissingIsSaid
  BY <1>1 DEF Context!MissingIsSaid
<1> QED
  BY <1>1, <1>2, <1>5, <1>6, <1>7 DEF Context!ContextFits

(* A step of a review that is not looking at the index and leaves the cache.*)
LEMMA ContextGoesOn ==
  ASSUME Context!ContextFits,
         \/ Context!LoadReviewSnapshot \/ Context!BuildChangedFiles \/ Context!ListModules
         \/ Context!IndexFails \/ Context!Render
  PROVE  Context!ContextFits'
<1>1. /\ DOMAIN s4 = Context!Fields /\ s3' = s3 /\ DOMAIN s4' = Context!Fields
  BY DEF Context!ContextFits, Context!LoadReviewSnapshot, Context!BuildChangedFiles, Context!ListModules,
    Context!IndexFails, Context!Render
<1>2. Context!CacheIsTrue' /\ s3' = [b \in Context!Blobs |-> s3'[b]]
  BY <1>1 DEF Context!ContextFits, Context!CacheIsTrue
<1>3. Context!Accounted /\ Context!MissingIsSaid
  BY DEF Context!ContextFits
<1>4. CASE Context!LoadReviewSnapshot
  <2>1. PICK c \in Reviewed, cut \in BOOLEAN, clean \in BOOLEAN :
          s4' = [s4 EXCEPT !.pc = "changed", !.commit = c, !.cut = cut, !.steady = clean /\ s1 = c,
                           !.codes = IF cut THEN {"diff-output-truncated"} ELSE {}]
    BY <1>4 DEF Context!LoadReviewSnapshot
  <2>2. /\ s4.pc = "start" /\ s4'.pc = "changed" /\ s4'.todo = s4.todo /\ s4'.uncached = s4.uncached
        /\ s4'.bindings = s4.bindings /\ s4'.cut = cut /\ s4'.commit = c
        /\ s4'.codes = IF cut THEN {"diff-output-truncated"} ELSE {}
    BY <1>1, <1>4, <2>1 DEF Context!LoadReviewSnapshot, Context!Fields
  <2>3. Context!Accounted'
    BY <1>3, <2>2 DEF Context!Accounted
  <2>4. Context!MissingIsSaid'
    BY <2>2 DEF Context!MissingIsSaid
  <2> QED
    BY <1>1, <1>2, <2>2, <2>3, <2>4 DEF Context!ContextFits
<1>5. CASE Context!BuildChangedFiles
  <2> DEFINE present == Context!Reviewable(s4.commit) \ Deleted[s4.commit]
  <2>1. PICK lost \in SUBSET present, bounded \in {{}, Context!Excerpts} :
          s4' = [s4 EXCEPT !.pc = IF s4.deep /\ s4.version # "none" THEN "listing" ELSE "rendering",
                           !.shown = present \ lost,
                           !.codes = s4.codes \cup (bounded
                     \cup (IF lost # {} THEN {"changed-file-unavailable"} ELSE {})
                     \cup (IF s4.version = "none" /\ present \ lost # {} THEN {"typescript-ast-unavailable"} ELSE {})
                     \cup (IF s4.deep /\ s4.version = "none" THEN {"impact-index-unavailable"} ELSE {}))]
    BY ZenonT(40), <1>5 DEF Context!BuildChangedFiles, Context!Says
  <2>2. /\ s4.pc = "changed" /\ s4'.pc = IF s4.deep /\ s4.version # "none" THEN "listing" ELSE "rendering"
        /\ s4'.todo = s4.todo /\ s4'.uncached = s4.uncached /\ s4'.bindings = s4.bindings
        /\ s4'.cut = s4.cut /\ s4'.deep = s4.deep /\ s4'.commit = s4.commit
        /\ s4'.shown = present \ lost
    BY <1>1, <1>5, <2>1 DEF Context!BuildChangedFiles, Context!Fields
  <2>3. /\ s4.codes \subseteq s4'.codes
        /\ lost # {} => "changed-file-unavailable" \in s4'.codes
        /\ s4.deep /\ s4.version = "none" => "impact-index-unavailable" \in s4'.codes
    BY <1>1, <2>1 DEF Context!Fields
  <2>4. Context!Accounted'
    BY <1>3, <2>2 DEF Context!Accounted
  <2>5. /\ s4'.cut => s4'.codes \cap {"diff-output-truncated", "render-diff-truncated"} # {}
        /\ s4'.shown = present \/ "changed-file-unavailable" \in s4'.codes
        /\ s4'.pc \in {"rendering", "done"} /\ s4'.deep => "impact-index-unavailable" \in s4'.codes
    BY <1>3, <2>2, <2>3 DEF Context!MissingIsSaid
  <2>6. Context!MissingIsSaid'
    BY <2>2, <2>5 DEF Context!MissingIsSaid, Context!Reviewable
  <2> QED
    BY <1>1, <1>2, <2>2, <2>4, <2>6 DEF Context!ContextFits
<1>6. CASE Context!ListModules
  <2>1. /\ s4.pc = "listing" /\ s4'.pc = "checking" /\ s4'.todo = ModulesOf(s4.commit)
        /\ s4'.uncached = s4.uncached /\ s4'.bindings = s4.bindings /\ s4'.codes = s4.codes
        /\ s4'.cut = s4.cut /\ s4'.deep = s4.deep /\ s4'.commit = s4.commit /\ s4'.shown = s4.shown
    BY <1>1, <1>6 DEF Context!ListModules, Context!Fields, ModulesOf
  <2>2. Context!Accounted'
    BY <1>3, <2>1 DEF Context!Accounted, ModulesOf, Context!Listed
  <2>3. Context!MissingIsSaid'
    BY <1>3, <2>1 DEF Context!MissingIsSaid, Context!Reviewable
  <2> QED
    BY <1>1, <1>2, <2>1, <2>2, <2>3 DEF Context!ContextFits
<1>7. CASE Context!IndexFails
  <2>1. PICK code \in {"impact-index-failed", "impact-index-timeout"} :
          s4' = [s4 EXCEPT !.pc = "rendering", !.todo = {}, !.uncached = {}, !.bindings = {},
                           !.codes = s4.codes \cup {code}]
    BY <1>7 DEF Context!IndexFails, Context!Says
  <2>2. /\ s4.pc \in {"listing", "checking"} /\ s4'.pc = "rendering" /\ s4'.todo = {}
        /\ s4'.uncached = {} /\ s4'.bindings = {} /\ s4'.codes = s4.codes \cup {code}
        /\ s4'.cut = s4.cut /\ s4'.deep = s4.deep /\ s4'.commit = s4.commit /\ s4'.shown = s4.shown
    BY <1>1, <1>7, <2>1 DEF Context!IndexFails, Context!Fields
  <2>3. Context!Accounted'
    BY <2>2 DEF Context!Accounted
  <2>4. Context!MissingIsSaid'
    BY <1>3, <2>2 DEF Context!MissingIsSaid, Context!Reviewable
  <2> QED
    BY <1>1, <1>2, <2>2, <2>3, <2>4 DEF Context!ContextFits
<1>8. CASE Context!Render
  <2>1. PICK cut \in BOOLEAN :
          s4' = [s4 EXCEPT !.pc = "done", !.cut = @ \/ cut, !.steady = @ /\ s1 = s4.commit,
                           !.codes = s4.codes \cup (IF cut THEN {"render-diff-truncated"} ELSE {})]
    BY <1>8 DEF Context!Render, Context!Says
  <2>2. /\ s4.pc = "rendering" /\ s4'.pc = "done" /\ s4'.todo = s4.todo
        /\ s4'.uncached = s4.uncached /\ s4'.bindings = s4.bindings
        /\ s4'.codes = s4.codes \cup (IF cut THEN {"render-diff-truncated"} ELSE {})
        /\ s4'.cut = (s4.cut \/ cut) /\ s4'.deep = s4.deep /\ s4'.commit = s4.commit
        /\ s4'.shown = s4.shown /\ s4'.refs = s4.refs /\ s4'.version = s4.version
    BY <1>1, <1>8, <2>1 DEF Context!Render, Context!Fields
  <2>3. Context!Accounted'
    BY <1>3, <2>2 DEF Context!Accounted
  <2>4. Context!MissingIsSaid'
    BY <1>3, <2>2 DEF Context!MissingIsSaid, Context!Reviewable
  <2> QED
    BY <1>1, <1>2, <2>2, <2>3, <2>4 DEF Context!ContextFits
<1> QED
  BY SMTT(30), <1>4, <1>5, <1>6, <1>7, <1>8

(* The index: modules are looked up in the cache, or read and parsed.       *)
Found(p) ==
  \/ p \in s4.todo
  \/ \E q \in s4.uncached : Tree[s4.commit][q] = Tree[s4.commit][p]
  \/ Import(p) \in s4.bindings
  \/ "impact-index-module-skipped" \in s4.codes

LEMMA IndexGoesOn ==
  ASSUME Context!ContextFits, Context!ReadBlobFile \/ Context!ProcessRead,
         Context!CacheIsTrue', s3' = [b \in Context!Blobs |-> s3'[b]],
         s4.pc = "checking", DOMAIN s4' = Context!Fields,
         \A f \in {"pc", "deep", "version", "commit", "cut", "shown", "refs"} : s4'[f] = s4[f],
         s4.codes \subseteq s4'.codes,
         s4'.todo \subseteq s4.todo, s4'.uncached \subseteq ModulesOf(s4.commit),
         s4'.bindings \subseteq Context!True(s4.commit, s4.version),
         \A p \in ModulesOf(s4.commit) : Found(p)'
  PROVE  Context!ContextFits'
<1>1. /\ s4'.pc = "checking" /\ s4'.version = s4.version /\ s4'.commit = s4.commit /\ s4'.cut = s4.cut
      /\ s4'.shown = s4.shown
  OBVIOUS
<1>2. Context!Accounted /\ Context!MissingIsSaid
  BY DEF Context!ContextFits
<1>3. Context!Accounted'
  BY <1>1, <1>2 DEF Context!Accounted, ModulesOf, Found, Import
<1>4. Context!MissingIsSaid'
  BY <1>1, <1>2 DEF Context!MissingIsSaid
<1> QED
  BY <1>1, <1>3, <1>4 DEF Context!ContextFits

LEMMA ReadBlobFileFits ==
  ASSUME Context!ContextFits, Context!ReadBlobFile
  PROVE  Context!ContextFits'
<1>1. /\ DOMAIN s4 = Context!Fields /\ s4.pc = "checking" /\ s3' = s3
      /\ Context!Accounted /\ Context!CacheIsTrue
  BY SMTT(20) DEF Context!ContextFits, Context!ReadBlobFile
<1>2. PICK p \in s4.todo :
        LET b == Tree[s4.commit][p]
            rest == [s4 EXCEPT !.todo = {q \in @ : Tree[s4.commit][q] # b}]
        IN s4' = IF Context!Usable(s3[b], b, s4.version)
                   THEN [rest EXCEPT !.bindings = @ \cup {<<b, s3[b].module>>}]
                   ELSE [rest EXCEPT !.uncached = @ \cup {p}]
  BY DEF Context!ReadBlobFile, Context!First
<1> DEFINE b == Tree[s4.commit][p]
           left == {q \in s4.todo : Tree[s4.commit][q] # b}
           rest == [s4 EXCEPT !.todo = left]
<1>3. /\ DOMAIN rest = Context!Fields /\ rest.todo = left
      /\ \A f \in Context!Fields \ {"todo"} : rest[f] = s4[f]
  BY <1>1 DEF Context!Fields
<1>4. p \in ModulesOf(s4.commit) /\ \A q \in ModulesOf(s4.commit) : Found(q)
  BY <1>1, <1>2 DEF Context!Accounted, ModulesOf, Found, Import
<1>5. \A q \in ModulesOf(s4.commit) : q \notin s4.todo \/ q \in left \/ Tree[s4.commit][q] = b
  OBVIOUS
<1>6. CASE Context!Usable(s3[b], b, s4.version)
  <2>1. s4' = [rest EXCEPT !.bindings = s4.bindings \cup {<<b, s3[b].module>>}]
    BY <1>2, <1>3, <1>6 DEF Context!Fields
  <2>2. b \in Context!Blobs
    BY <1>4 DEF Context!ContextFits, ModulesOf, Context!Listed, Context!Blobs
  <2>3. s3[b].module = Parsed[s4.version][b]
    BY <1>1, <1>6, <2>2 DEF Context!CacheIsTrue, Context!Usable
  <2> HIDE DEF rest
  <2>4. /\ DOMAIN s4' = Context!Fields /\ s4'.todo = left /\ s4'.uncached = s4.uncached
        /\ s4'.codes = s4.codes /\ s4'.bindings = s4.bindings \cup {<<b, s3[b].module>>}
        /\ s4'.commit = s4.commit /\ s4'.version = s4.version
        /\ \A f \in {"pc", "deep", "version", "commit", "cut", "shown", "refs"} : s4'[f] = s4[f]
    BY SMTT(20), <1>3, <2>1 DEF Context!Fields
  <2> HIDE DEF left
  <2>5. \A q \in ModulesOf(s4.commit) : Found(q)'
    BY SMTT(30), <1>4, <1>5, <2>3, <2>4 DEF Found, Import
  <2>6. s4'.bindings \subseteq Context!True(s4.commit, s4.version)
    BY <1>1, <1>4, <2>3, <2>4 DEF Context!Accounted, Context!True, ModulesOf
  <2>7. s4'.todo \subseteq s4.todo /\ s4'.uncached \subseteq ModulesOf(s4.commit)
    BY <1>1, <2>4 DEF left, Context!Accounted, ModulesOf
  <2> QED
    BY <1>1, <2>4, <2>5, <2>6, <2>7, IndexGoesOn DEF Context!ContextFits, Context!CacheIsTrue
<1>7. CASE ~Context!Usable(s3[b], b, s4.version)
  <2>1. s4' = [rest EXCEPT !.uncached = s4.uncached \cup {p}]
    BY <1>2, <1>3, <1>7 DEF Context!Fields
  <2> HIDE DEF rest
  <2>4. /\ DOMAIN s4' = Context!Fields /\ s4'.todo = left /\ s4'.uncached = s4.uncached \cup {p}
        /\ s4'.codes = s4.codes /\ s4'.bindings = s4.bindings
        /\ s4'.commit = s4.commit /\ s4'.version = s4.version
        /\ \A f \in {"pc", "deep", "version", "commit", "cut", "shown", "refs"} : s4'[f] = s4[f]
    BY <1>3, <2>1 DEF Context!Fields
  <2> HIDE DEF left
  <2>5. \A q \in ModulesOf(s4.commit) : Found(q)'
    BY <1>4, <1>5, <2>4 DEF Found, Import
  <2>6. s4'.bindings \subseteq Context!True(s4.commit, s4.version)
    BY <1>1, <2>4 DEF Context!Accounted
  <2>7. s4'.todo \subseteq s4.todo /\ s4'.uncached \subseteq ModulesOf(s4.commit)
    BY <1>1, <1>4, <2>4 DEF left, Context!Accounted, ModulesOf
  <2> QED
    BY <1>1, <2>4, <2>5, <2>6, <2>7, IndexGoesOn DEF Context!ContextFits, Context!CacheIsTrue
<1> QED
  BY <1>6, <1>7

LEMMA ProcessReadFits ==
  ASSUME Context!ContextFits, Context!ProcessRead
  PROVE  Context!ContextFits'
<1>1. /\ DOMAIN s4 = Context!Fields /\ s4.pc = "checking" /\ s4.todo = {}
      /\ Context!Accounted /\ Context!CacheIsTrue /\ s3 = [b \in Context!Blobs |-> s3[b]]
  BY SMTT(20) DEF Context!ContextFits, Context!ProcessRead
<1>2. PICK p \in s4.uncached :
        LET b == Tree[s4.commit][p]
            parsed == Parsed[s4.version][b]
        IN \/ /\ s4' = [s4 EXCEPT !.uncached = @ \ {p},
                                  !.codes = s4.codes \cup {"impact-index-module-skipped"}]
              /\ s3' = s3
           \/ /\ s4' = [s4 EXCEPT !.uncached = @ \ {p}, !.bindings = @ \cup {<<b, parsed>>}]
              /\ s3' = [s3 EXCEPT ![b] = [parser |-> s4.version, oid |-> b, module |-> parsed]]
  BY DEF Context!ProcessRead, Context!First, Context!Says
<1> DEFINE b == Tree[s4.commit][p]
<1>3. p \in ModulesOf(s4.commit) /\ \A q \in ModulesOf(s4.commit) : Found(q)
  BY <1>1, <1>2 DEF Context!Accounted, ModulesOf, Found, Import
<1>4. CASE /\ s4' = [s4 EXCEPT !.uncached = s4.uncached \ {p},
                              !.codes = s4.codes \cup {"impact-index-module-skipped"}]
           /\ s3' = s3
  <2>1. /\ DOMAIN s4' = Context!Fields /\ s4'.todo = {} /\ s4'.uncached = s4.uncached \ {p}
        /\ s4'.codes = s4.codes \cup {"impact-index-module-skipped"} /\ s4'.bindings = s4.bindings
        /\ \A f \in {"pc", "deep", "version", "commit", "cut", "shown", "refs"} : s4'[f] = s4[f]
    BY <1>1, <1>4 DEF Context!Fields
  <2>2. \A q \in ModulesOf(s4.commit) : Found(q)'
    BY <2>1 DEF Found
  <2>3. s4'.bindings \subseteq Context!True(s4.commit, s4.version)
    BY <1>1, <2>1 DEF Context!Accounted
  <2>4. s4'.todo \subseteq s4.todo /\ s4'.uncached \subseteq ModulesOf(s4.commit)
    BY <1>1, <2>1 DEF Context!Accounted, ModulesOf
  <2> QED
    BY <1>1, <1>4, <2>1, <2>2, <2>3, <2>4, IndexGoesOn DEF Context!CacheIsTrue
<1>5. CASE /\ s4' = [s4 EXCEPT !.uncached = s4.uncached \ {p},
                              !.bindings = s4.bindings \cup {<<b, Parsed[s4.version][b]>>}]
           /\ s3' = [s3 EXCEPT ![b] = [parser |-> s4.version, oid |-> b, module |-> Parsed[s4.version][b]]]
  <2>1. /\ DOMAIN s4' = Context!Fields /\ s4'.todo = {} /\ s4'.uncached = s4.uncached \ {p}
        /\ s4'.codes = s4.codes /\ s4'.bindings = s4.bindings \cup {<<b, Parsed[s4.version][b]>>}
        /\ s4'.commit = s4.commit /\ s4'.version = s4.version
        /\ \A f \in {"pc", "deep", "version", "commit", "cut", "shown", "refs"} : s4'[f] = s4[f]
    BY <1>1, <1>5 DEF Context!Fields
  <2>2. \A q \in ModulesOf(s4.commit) : Found(q)'
    BY <1>1, <1>3, <2>1 DEF Found, Import
  <2>3. s4'.bindings \subseteq Context!True(s4.commit, s4.version)
    BY <1>1, <1>3, <2>1 DEF Context!Accounted, Context!True, ModulesOf
  <2>4. s4'.todo \subseteq s4.todo /\ s4'.uncached \subseteq ModulesOf(s4.commit)
    BY SMTT(20), <1>1, <2>1 DEF Context!Accounted, ModulesOf
  <2>5. Context!CacheIsTrue' /\ s3' = [a \in Context!Blobs |-> s3'[a]]
    BY <1>1, <1>5 DEF Context!CacheIsTrue
  <2> QED
    BY <1>1, <2>1, <2>2, <2>3, <2>4, <2>5, IndexGoesOn
<1> QED
  BY <1>1, <1>2, <1>4, <1>5 DEF Context!Fields

LEMMA ReferencesFit ==
  ASSUME Context!ContextFits, Context!ReferencesFromGraph
  PROVE  Context!ContextFits'
<1>1. /\ DOMAIN s4 = Context!Fields /\ s4.pc = "checking" /\ s4.todo = {} /\ s4.uncached = {} /\ s3' = s3
      /\ s4' = [s4 EXCEPT !.pc = "rendering", !.bindings = {},
                          !.refs = Context!ReferencesIn(s4.bindings, s4.shown, s4.commit)]
      /\ Context!Accounted /\ Context!MissingIsSaid
  BY DEF Context!ContextFits, Context!ReferencesFromGraph
<1>2. /\ DOMAIN s4' = Context!Fields /\ s4'.pc = "rendering" /\ s4'.todo = {} /\ s4'.uncached = {}
      /\ s4'.bindings = {} /\ s4'.refs = Context!ReferencesIn(s4.bindings, s4.shown, s4.commit)
      /\ s4'.codes = s4.codes /\ s4'.commit = s4.commit /\ s4'.version = s4.version
      /\ s4'.cut = s4.cut /\ s4'.shown = s4.shown
  BY <1>1 DEF Context!Fields
<1>3. "impact-index-module-skipped" \in s4.codes
        \/ s4.bindings = Context!True(s4.commit, s4.version)
  BY <1>1 DEF Context!Accounted, Context!True
<1>4. Context!Accounted'
  BY <1>2 DEF Context!Accounted
<1>5. Context!MissingIsSaid'
  BY <1>1, <1>2, <1>3 DEF Context!MissingIsSaid
<1> QED
  BY <1>1, <1>2, <1>4, <1>5 DEF Context!ContextFits, Context!CacheIsTrue

LEMMA OthersFit ==
  ASSUME Context!ContextFits,
         Context!MoveHead \/ \E b \in Context!Blobs, v \in Versions : Context!OtherReview(b, v)
  PROVE  Context!ContextFits'
<1>1. s4' = s4
  BY DEF Context!MoveHead, Context!OtherReview
<1>2. Context!CacheIsTrue' /\ s3' = [b \in Context!Blobs |-> s3'[b]]
  BY DEF Context!ContextFits, Context!MoveHead, Context!OtherReview, Context!CacheIsTrue
<1> QED
  BY <1>1, <1>2 DEF Context!ContextFits, Context!Accounted, Context!MissingIsSaid

LEMMA ContextKeeps ==
  ASSUME Context!ContextFits, Context!ContextNext
  PROVE  Context!ContextFits'
BY ContextGoesOn, ReadBlobFileFits, ProcessReadFits, ReferencesFit, OthersFit DEF Context!ContextNext

LEMMA ContextCounts == ASSUME NEW S PROVE Context!Cardinality(S) = Cardinality(S)
BY DEF Context!Cardinality, Cardinality

LEMMA ImageIsFinite ==
  ASSUME NEW S, IsFiniteSet(S), NEW f, f = [x \in S |-> f[x]]
  PROVE  IsFiniteSet({f[x] : x \in S})
<1>1. f \in Surjection(S, {f[x] : x \in S})
  BY DEF Surjection
<1> QED
  BY <1>1, FS_Surjection

(* What is found is there.                                                  *)
LEMMA ReferencesAreTrue ==
  ASSUME NEW c, NEW shown, NEW known, NEW ref \in Context!ReferencesIn(known, shown, c)
  PROVE  /\ ref[1] \in Context!Reviewable(c) /\ ref[2] \in Context!Listed(c) \ Changed[c]
         /\ Context!ImportsOf(known, c, ref[1], ref[2]) # {}
<1>1. PICK o \in Context!Queries(Context!Offers(known, shown, c)) : ref \in {o.path} \X Context!Hits(known, c, o)
  BY DEF Context!ReferencesIn
<1>2. ref[1] = o.path /\ ref[2] \in Context!Hits(known, c, o)
  BY <1>1
<1>3. o \in Context!Terms(c)
  BY DEF Context!Queries, Context!Offers
<1>4. o.path \in Context!Reviewable(c)
  <2>1. CASE \E p \in Context!Reviewable(c) \cap Named : o = [path |-> p, nr |-> 0, term |-> Stem[p]]
    BY <2>1
  <2>2. CASE \E p \in Context!Reviewable(c) : \E n \in 1..Len(FirstSymbols[c][p]) :
               o = [path |-> p, nr |-> n, term |-> FirstSymbols[c][p][n]]
    BY <2>2
  <2> QED
    BY <1>3, <2>1, <2>2 DEF Context!Terms
<1> QED
  BY <1>2, <1>4 DEF Context!Hits

(* A commit offers finitely many terms.                                     *)
LEMMA TermsAreFinite ==
  ASSUME NEW c \in Reviewed
  PROVE  IsFiniteSet(Context!Terms(c))
<1> DEFINE files == Context!Reviewable(c)
           place(p) == 1..Len(FirstSymbols[c][p])
           name == [p \in files \cap Named |-> [path |-> p, nr |-> 0, term |-> Stem[p]]]
           names == {name[p] : p \in files \cap Named}
           symbols(p) == {[path |-> p, nr |-> n, term |-> FirstSymbols[c][p][n]] : n \in place(p)}
           of == [p \in files |-> symbols(p)]
           each == {of[p] : p \in files}
<1>1. IsFiniteSet(files)
  <2>1. files \subseteq Changed[c] /\ IsFiniteSet(Changed[c])
    BY ContextAssumption DEF Context!Reviewable
  <2> QED
    BY <2>1, FS_Subset
<1>2. IsFiniteSet(names)
  <2>1. IsFiniteSet(files \cap Named)
    BY <1>1, FS_Subset
  <2>2. name = [p \in files \cap Named |-> name[p]]
    OBVIOUS
  <2> HIDE DEF name, files
  <2> QED
    BY <2>1, <2>2, ImageIsFinite
<1>3. IsFiniteSet(UNION each)
  <2>1. IsFiniteSet(each)
    <3>1. of = [p \in files |-> of[p]]
      OBVIOUS
    <3> HIDE DEF of, files
    <3> QED
      BY <1>1, <3>1, ImageIsFinite
  <2>2. ASSUME NEW p \in files
        PROVE  IsFiniteSet(symbols(p))
    <3>1. Len(FirstSymbols[c][p]) \in Nat
      BY ContextAssumption DEF Context!Reviewable
    <3>2. IsFiniteSet(place(p))
      BY <3>1, FS_Interval
    <3> DEFINE list == [n \in place(p) |-> [path |-> p, nr |-> n, term |-> FirstSymbols[c][p][n]]]
    <3>3. list = [n \in place(p) |-> list[n]] /\ symbols(p) = {list[n] : n \in place(p)}
      OBVIOUS
    <3> HIDE DEF list, symbols, place
    <3> QED
      BY <3>2, <3>3, ImageIsFinite
  <2>3. \A T \in each : IsFiniteSet(T)
    BY <2>2
  <2> HIDE DEF each
  <2> QED
    BY <2>1, <2>3, FS_UNION
<1>4. Context!Terms(c) = names \cup UNION each
  BY DEF Context!Terms
<1> HIDE DEF names, each
<1> QED
  BY <1>2, <1>3, <1>4, FS_Union

(* While there is room for a term, all that it asks for is found.           *)
LEMMA ReferencesAreAll ==
  ASSUME NEW c \in Reviewed, NEW shown, NEW known,
         NEW o \in Context!Offers(known, shown, c), Context!Room(c, o)
  PROVE  {o.path} \X Context!Hits(known, c, o) \subseteq Context!ReferencesIn(known, shown, c)
<1> DEFINE offers == Context!Offers(known, shown, c)
           all == Context!Earlier(Context!Terms(c), o)
           offered == Context!Earlier(offers, o)
           term == [q \in all |-> q.term]
           terms == {q.term : q \in all}
           earlier == {q.term : q \in offered}
<1>1. offered \subseteq all /\ earlier \subseteq terms
  BY DEF Context!Earlier, Context!Offers
<1>2. IsFiniteSet(terms)
  <2>1. IsFiniteSet(all)
    <3>1. all \subseteq Context!Terms(c)
      BY DEF Context!Earlier
    <3> QED
      BY <3>1, TermsAreFinite, FS_Subset
  <2>2. term = [q \in all |-> term[q]] /\ terms = {term[q] : q \in all}
    OBVIOUS
  <2> HIDE DEF term, terms, all
  <2> QED
    BY <2>1, <2>2, ImageIsFinite
<1>3. Cardinality(terms) < MaxTerms
  <2>1. Context!Cardinality(terms) < MaxTerms
    BY Zenon DEF Context!Room
  <2> HIDE DEF terms
  <2> QED
    BY <2>1, ContextCounts
<1>4. Context!Cardinality(earlier) < MaxTerms
  <2> HIDE DEF earlier, terms
  <2>1. IsFiniteSet(earlier) /\ Cardinality(earlier) <= Cardinality(terms)
    BY <1>1, <1>2, FS_Subset
  <2>2. Cardinality(earlier) \in Nat /\ Cardinality(terms) \in Nat
    BY <1>2, <2>1, FS_CardinalityType
  <2>3. Context!Cardinality(earlier) = Cardinality(earlier)
    BY ContextCounts
  <2> QED
    BY <1>3, <2>1, <2>2, <2>3, ContextAssumption
<1>5. o \in Context!Queries(offers)
  <2>1. o \in offers /\ Context!Cardinality({q.term : q \in Context!Earlier(offers, o)}) < MaxTerms
    BY <1>4
  <2> HIDE DEF offers
  <2> QED
    BY <2>1, Zenon DEF Context!Queries
<1> HIDE DEF offers
<1> QED
  BY <1>5 DEF Context!ReferencesIn, offers

LEMMA ContextIsWhole ==
  ASSUME Context!ContextFits
  PROVE  Context!VerifiedIsComplete
<1> DEFINE known == Context!True(s4.commit, s4.version)
<1>1. SUFFICES ASSUME s4.pc = "done", s4.codes \ Context!Excerpts = {}
               PROVE  /\ ~s4.cut
                      /\ s4.shown = Context!Reviewable(s4.commit) \ Deleted[s4.commit]
                      /\ s4.deep =>
                           /\ \A ref \in s4.refs :
                                /\ ref[1] \in Context!Reviewable(s4.commit)
                                /\ ref[2] \in Context!Listed(s4.commit) \ Changed[s4.commit]
                                /\ Context!ImportsOf(known, s4.commit, ref[1], ref[2]) # {}
                           /\ \A o \in Context!Offers(known, s4.shown, s4.commit) :
                                Context!Room(s4.commit, o) =>
                                  {o.path} \X Context!Hits(known, s4.commit, o) \subseteq s4.refs
  BY DEF Context!VerifiedIsComplete, Context!InputVerified, Context!Blocking
<1>2. s4.codes \cap {"diff-output-truncated", "render-diff-truncated", "changed-file-unavailable",
                     "impact-index-module-skipped", "impact-index-failed",
                     "impact-index-timeout", "impact-index-unavailable"} = {}
  BY <1>1 DEF Context!Excerpts
<1>3. /\ ~s4.cut /\ s4.commit \in Reviewed
      /\ s4.shown = Context!Reviewable(s4.commit) \ Deleted[s4.commit]
      /\ s4.deep => s4.refs = Context!ReferencesIn(known, s4.shown, s4.commit)
  BY <1>1, <1>2 DEF Context!ContextFits, Context!MissingIsSaid
<1> HIDE DEF known
<1> QED
  BY <1>3, ReferencesAreTrue, ReferencesAreAll

ContextInv == part = "context" => Context!ContextFits

LEMMA ContextInductive == PartsSpec => []ContextInv
<1>1. PartsInit => ContextInv
  BY ContextStarts DEF PartsInit, ContextInv
<1>2. ContextInv /\ [PartsNext]_partsVars => ContextInv'
  <2>1. ASSUME ContextInv, PartsNext
        PROVE  ContextInv'
    BY <2>1, PartStays, ContextAlone, ContextKeeps DEF ContextInv
  <2>2. ASSUME ContextInv, UNCHANGED partsVars
        PROVE  ContextInv'
    <3>1. s1' = s1 /\ s2' = s2 /\ s3' = s3 /\ s4' = s4 /\ part' = part
      BY <2>2 DEF partsVars
    <3>2. Context!ContextFits => Context!ContextFits'
      BY <3>1 DEF Context!ContextFits, Context!CacheIsTrue, Context!Accounted,
        Context!MissingIsSaid, Context!Fields
    <3> QED
      BY <2>2, <3>1, <3>2 DEF ContextInv
  <2> QED
    BY <2>1, <2>2
<1> QED
  BY <1>1, <1>2, PTL DEF PartsSpec

(* However HEAD moves, reads fail and whatever other reviews leave in the   *)
(* cache, an input that counts as verified has every changed file, names    *)
(* only modules that import one, and all that ask for a name or an exported *)
(* symbol of one which comes before the terms are used up (InputIsTrue;     *)
(* src/review/impact.ts:346, 559).                                          *)
THEOREM VerifiedInputIsComplete == PartsSpec => []InputIsTrue
<1>1. ContextInv => InputIsTrue
  BY ContextIsWhole DEF ContextInv, InputIsTrue
<1> QED
  BY <1>1, ContextInductive, PTL

-----------------------------------------------------------------------------
(* The review command and the summary of findings                           *)

LEMMA CommandAlone == part = "command" /\ PartsNext => Command!CommandNext
BY DEF PartsNext, OpenDatabase, InstallHook, SetUpAgent, ChoosePreference,
  FindStateRoot, KeepFindings, SuggestDuplicate, SummariseFindings, GatherContext,
  ReadDiff, ReadDocument, PublishFindings, RecordTelemetry, RunCommand, CheckProtocol,
  ScoreCase, RunEvaluation, RunVerification, Runs, Rest

LEMMA CommandStarts ==
  ASSUME Command!CommandInit
  PROVE  Command!CommandFits
BY DEF Command!CommandInit, Command!CommandFits, Command!StageFits, Command!AnswerIsTrue,
  Command!Stages, Command!Done

LEMMA CommandKeeps ==
  ASSUME Command!CommandFits, Command!CommandNext
  PROVE  Command!CommandFits'
<1> USE DEF Command!CommandFits, Command!StageFits, Command!AnswerIsTrue, Command!Stages, Command!Done,
      Command!Options, Command!Signals
<1>1. CASE Command!Start \/ Command!FailReview \/ Command!Misconfigured \/ Command!Prepared
  BY <1>1 DEF Command!Start, Command!FailReview, Command!Misconfigured, Command!Prepared,
    Command!Tell, Command!PrintError, Command!Exit
<1>2. ASSUME NEW s \in Command!Signals, Command!Interrupt(s) \/ Command!ForceExit(s)
      PROVE  Command!CommandFits'
  BY <1>2 DEF Command!Interrupt, Command!ForceExit, Command!Exit, Command!Code, Command!Signals, Command!Running
<1>3. CASE Command!Killed
  BY <1>3 DEF Command!Killed, Command!Exit
<1>4. CASE Command!PipelineReturns \/ Command!PipelineThrows
  BY <1>4 DEF Command!PipelineReturns, Command!PipelineThrows
<1>5. CASE Command!PrintResult
  BY <1>5 DEF Command!PrintResult
<1>6. CASE Command!Finish
  BY <1>6 DEF Command!Finish, Command!Tell, Command!Exit, Command!GateExit
<1>7. CASE Command!Catch
  <2>1. Command!Code[s5] \in {130, 146}
    BY DEF Command!Code
  <2> QED
    BY <1>7, <2>1 DEF Command!Catch, Command!Tell, Command!Exit, Command!PrintError
<1>8. CASE Command!Drained
  BY <1>8 DEF Command!Drained, Command!Exit
<1> QED
  BY <1>1, <1>2, <1>3, <1>4, <1>5, <1>6, <1>7, <1>8 DEF Command!CommandNext

CommandInv == part = "command" => Command!CommandFits

LEMMA CommandInductive == PartsSpec => []CommandInv
<1>1. PartsInit => CommandInv
  BY CommandStarts DEF PartsInit, CommandInv
<1>2. CommandInv /\ [PartsNext]_partsVars => CommandInv'
  <2>1. ASSUME CommandInv, PartsNext
        PROVE  CommandInv'
    BY <2>1, PartStays, CommandAlone, CommandKeeps DEF CommandInv
  <2>2. ASSUME CommandInv, UNCHANGED partsVars
        PROVE  CommandInv'
    <3>1. /\ s1' = s1 /\ s2' = s2 /\ s3' = s3 /\ s4' = s4 /\ s5' = s5
          /\ s6' = s6 /\ s7' = s7 /\ s8' = s8 /\ s9' = s9 /\ part' = part
      BY <2>2 DEF partsVars
    <3>2. Command!CommandFits => Command!CommandFits'
      BY <3>1 DEF Command!CommandFits, Command!StageFits, Command!AnswerIsTrue,
        Command!Stages, Command!Done
    <3> QED
      BY <2>2, <3>1, <3>2 DEF CommandInv
  <2> QED
    BY <2>1, <2>2
<1> QED
  BY <1>1, <1>2, PTL DEF PartsSpec

LEMMA SummaryAlone == part = "summary" /\ PartsNext => Summary!SummaryNext
BY DEF PartsNext, OpenDatabase, InstallHook, SetUpAgent, ChoosePreference,
  FindStateRoot, KeepFindings, SuggestDuplicate, SummariseFindings, GatherContext,
  ReadDiff, ReadDocument, PublishFindings, RecordTelemetry, RunCommand, CheckProtocol,
  ScoreCase, RunEvaluation, RunVerification, Runs, Rest

LEMMA HighestExists ==
  ASSUME NEW S, IsFiniteSet(S), S # {}, NEW f, \A x \in S : f[x] \in Nat
  PROVE  \E m \in S : \A x \in S : f[x] <= f[m]
<1> DEFINE Over(x) == {y \in S : f[y] > f[x]}
           K == {Over(x) : x \in S}
<1>0. K \subseteq SUBSET S /\ K # {}
  OBVIOUS
<1>1. K \subseteq FiniteSubsetsOf(S) /\ K # {}
  <2> HIDE DEF K
  <2> QED
    BY <1>0, FS_FiniteSubsetsOfFinite
<1>2. \E k \in K : \A j \in K : <<j, k>> \notin StrictSubsetOrdering(S)
  <2> HIDE DEF K
  <2> QED
    BY <1>1, FS_StrictSubsetOrderingWellFounded, WFMin
<1>3. PICK m \in S : \A j \in K : <<j, Over(m)>> \notin StrictSubsetOrdering(S)
  BY <1>2
<1>4. ASSUME NEW x \in S, f[x] > f[m] PROVE FALSE
  <2>1. Over(x) \subseteq Over(m) /\ x \in Over(m) /\ x \notin Over(x)
    BY <1>4
  <2>2. <<Over(x), Over(m)>> \in StrictSubsetOrdering(S)
    BY <2>1 DEF StrictSubsetOrdering
  <2> QED
    BY <1>3, <2>2
<1> QED
  BY <1>4

LEMMA SummaryStarts ==
  ASSUME Summary!SummaryInit
  PROVE  Summary!SummaryFits
BY DEF Summary!SummaryInit, Summary!SummaryFits, Summary!SummaryTypes, Summary!WatchFits, Summary!FreshFits,
  Summary!KeptFits, Summary!StagedFits, Summary!SummaryIsHonest, Summary!Fields, Summary!Empty

(* The world moves on under a query.                                        *)
LEMMA WorldUnderQuery ==
  ASSUME Summary!SummaryFits, s6.pc # "done", Summary!Watched,
         s1' \in Seq(Summary!Observations), Len(s1') >= Len(s1), \A id \in 1..Len(s1) : s1'[id] = s1[id]
  PROVE  Summary!SummaryFits'
<1> USE DEF Summary!Fields
<1>1. /\ Summary!SummaryTypes /\ Summary!WatchFits /\ Summary!FreshFits /\ Summary!KeptFits
      /\ Summary!StagedFits /\ Summary!SummaryIsHonest /\ Len(s1) \in Nat /\ Len(s1') \in Nat
  BY DEF Summary!SummaryFits, Summary!SummaryTypes
<1>2. CASE s6.pc = "away"
  <2>1. s6' = s6
    BY <1>2 DEF Summary!Watched
  <2> QED
    BY <1>1, <1>2, <2>1 DEF Summary!SummaryFits, Summary!SummaryTypes, Summary!WatchFits,
      Summary!FreshFits, Summary!KeptFits, Summary!StagedFits, Summary!SummaryIsHonest
<1>3. CASE s6.pc # "away"
  <2>1. s6' = [s6 EXCEPT !.open = s6.open \cup Summary!Live', !.near = s6.near \cup Summary!Near',
                         !.always = (s6.always \cap Summary!Live') \cap Summary!Near']
    BY <1>1, <1>3 DEF Summary!Watched, Summary!SummaryTypes
  <2>2. /\ DOMAIN s6' = Summary!Fields
        /\ s6'.open = s6.open \cup Summary!Live' /\ s6'.near = s6.near \cup Summary!Near'
        /\ s6'.always = (s6.always \cap Summary!Live') \cap Summary!Near'
        /\ s6'.pc = s6.pc /\ s6'.all = s6.all /\ s6'.rows = s6.rows /\ s6'.asked = s6.asked
        /\ s6'.kept = s6.kept /\ s6'.gaveUp = s6.gaveUp /\ s6'.git = s6.git /\ s6'.hash = s6.hash
        /\ s6'.driver = s6.driver /\ s6'.clock = s6.clock /\ s6'.logged = s6.logged /\ s6'.answer = s6.answer
    BY <1>1, <2>1 DEF Summary!SummaryTypes
  <2>3. Summary!SummaryTypes'
    BY <1>1, <2>2 DEF Summary!SummaryTypes
  <2>4. Summary!WatchFits'
    BY <1>1, <2>2 DEF Summary!WatchFits
  <2>5. Summary!FreshFits'
    BY <1>1, <2>2 DEF Summary!FreshFits, Summary!Empty
  <2>6. \A id \in s6.rows : s6.pc \in {"ask", "diff", "sum"} => s1'[id] = s1[id] /\ id \in 1..Len(s1')
    BY <1>1 DEF Summary!KeptFits
  <2>7. Summary!KeptFits'
    BY <1>1, <2>2, <2>6 DEF Summary!KeptFits, Summary!Committed
  <2>8. Summary!StagedFits'
    BY <1>1, <2>2, <2>6 DEF Summary!StagedFits, Summary!KeptFits, Summary!Committed
  <2>9. Summary!SummaryIsHonest'
    BY <1>1, <2>2 DEF Summary!SummaryIsHonest
  <2> QED
    BY <2>3, <2>4, <2>5, <2>7, <2>8, <2>9 DEF Summary!SummaryFits
<1> QED
  BY <1>2, <1>3

LEMMA WorldSteps ==
  ASSUME Summary!SummaryFits,
         \/ \E f \in Two, place \in Summary!Places, severity \in Severities :
              Summary!Observe(f, place, severity)
         \/ \E f \in Two, to \in {"dismissed", "fixed"} : Summary!Mutate(f, to)
         \/ Summary!MoveTree
  PROVE  Summary!SummaryFits'
<1>1. s1 \in Seq(Summary!Observations) /\ Len(s1) \in Nat
  BY DEF Summary!SummaryFits, Summary!SummaryTypes
<1>2. ASSUME NEW f \in Two, NEW place \in Summary!Places, NEW severity \in Severities,
             Summary!Observe(f, place, severity)
      PROVE  Summary!SummaryFits'
  <2> DEFINE row == [finding |-> f, commit |-> place.commit, hash |-> place.hash, severity |-> severity]
  <2>1. row \in Summary!Observations
    BY DEF Summary!Observations, Summary!Places
  <2> HIDE DEF row
  <2>2. s1' = Append(s1, row) /\ s6.pc # "done" /\ Summary!Watched
    BY <1>2 DEF Summary!Observe, row
  <2>3. /\ s1' \in Seq(Summary!Observations) /\ Len(s1') = Len(s1) + 1
        /\ \A id \in 1..Len(s1) : s1'[id] = s1[id]
    BY <1>1, <2>1, <2>2
  <2> QED
    BY <1>1, <2>2, <2>3, WorldUnderQuery
<1>3. ASSUME NEW f \in Two, NEW to, Summary!Mutate(f, to)
      PROVE  Summary!SummaryFits'
  BY <1>1, <1>3, WorldUnderQuery DEF Summary!Mutate
<1>4. CASE Summary!MoveTree
  BY <1>1, <1>4, WorldUnderQuery DEF Summary!MoveTree
<1> QED
  BY <1>2, <1>3, <1>4

(* The rest of the repository stays as it is while the query takes a step.  *)
LEMMA WorldStands ==
  ASSUME Summary!World' = Summary!World
  PROVE  /\ s1' = s1 /\ Summary!Live' = Summary!Live /\ Summary!Near' = Summary!Near
         /\ \A id : Summary!Committed(id)' <=> Summary!Committed(id)
BY DEF Summary!World, Summary!Live, Summary!Near, Summary!Reaches, Summary!Staged, Summary!Committed

LEMMA QueryBegins ==
  ASSUME Summary!SummaryFits, Summary!Start \/ Summary!ReadRows \/ Summary!ReachabilityFails
  PROVE  Summary!SummaryFits'
<1> USE DEF Summary!Fields
<1>1. /\ Summary!SummaryTypes /\ Summary!WatchFits /\ Summary!FreshFits /\ Summary!KeptFits
      /\ Summary!StagedFits /\ Summary!SummaryIsHonest /\ DOMAIN s6 = Summary!Fields
  BY DEF Summary!SummaryFits, Summary!SummaryTypes
<1>2. /\ s1' = s1 /\ Summary!Live' = Summary!Live /\ Summary!Near' = Summary!Near
      /\ \A id : Summary!Committed(id)' <=> Summary!Committed(id)
  BY WorldStands DEF Summary!Start, Summary!ReadRows, Summary!ReachabilityFails
<1>3. CASE Summary!Start
  <2>1. PICK all \in BOOLEAN :
          s6' = [s6 EXCEPT !.pc = "read", !.all = all, !.open = Summary!Live, !.near = Summary!Near,
                           !.always = Summary!Live \cap Summary!Near]
    BY <1>3 DEF Summary!Start
  <2>2. /\ s6.pc = "away" /\ DOMAIN s6' = Summary!Fields /\ s6'.pc = "read" /\ s6'.all = all
        /\ s6'.open = Summary!Live /\ s6'.near = Summary!Near
        /\ s6'.always = Summary!Live \cap Summary!Near
        /\ s6'.kept = s6.kept /\ s6'.clock = s6.clock /\ s6'.logged = s6.logged /\ s6'.answer = s6.answer
    BY <1>1, <1>3, <2>1 DEF Summary!Start
  <2>3. Summary!SummaryTypes' /\ Summary!FreshFits'
    BY <1>1, <1>2, <2>2 DEF Summary!SummaryTypes, Summary!FreshFits, Summary!Empty
  <2>4. Summary!WatchFits'
    BY <1>1, <1>2, <2>2 DEF Summary!WatchFits, Summary!FreshFits
  <2>5. Summary!KeptFits' /\ Summary!StagedFits' /\ Summary!SummaryIsHonest'
    BY <1>1, <2>2 DEF Summary!KeptFits, Summary!StagedFits, Summary!SummaryIsHonest, Summary!FreshFits
  <2> QED
    BY <2>3, <2>4, <2>5 DEF Summary!SummaryFits
<1>4. ASSUME NEW reason \in {"unreadable", "reachability"}, Summary!Degraded(reason),
             s6.pc \in {"read", "ask"}
      PROVE  Summary!SummaryFits'
  <2>1. /\ DOMAIN s6' = Summary!Fields /\ s6'.pc = "done" /\ s6'.all = s6.all /\ s6'.clock = s6.clock
        /\ reason \in s6'.logged /\ s6'.answer = Summary!Empty
    BY <1>1, <1>4 DEF Summary!Degraded
  <2>2. s6.clock = 0
    BY <1>1, <1>4 DEF Summary!FreshFits, Summary!StagedFits
  <2>3. Summary!SummaryTypes'
    BY <1>1, <1>2, <2>1 DEF Summary!SummaryTypes
  <2>4. Summary!SummaryIsHonest'
    BY <2>1, <2>2 DEF Summary!SummaryIsHonest, Summary!Empty
  <2> QED
    BY <2>1, <2>3, <2>4 DEF Summary!SummaryFits, Summary!WatchFits, Summary!FreshFits,
      Summary!KeptFits, Summary!StagedFits
<1>5. CASE s6.pc = "read" /\ Summary!Live = {} /\ s6' = [s6 EXCEPT !.pc = "done"]
  <2>1. /\ DOMAIN s6' = Summary!Fields /\ s6'.pc = "done" /\ s6'.all = s6.all /\ s6'.clock = s6.clock
        /\ s6'.logged = s6.logged /\ s6'.answer = s6.answer /\ s6'.always = s6.always
    BY <1>1, <1>5
  <2>2. s6.clock = 0 /\ s6.answer = Summary!Empty /\ s6.logged = {} /\ s6.always = {}
    BY <1>1, <1>5 DEF Summary!FreshFits, Summary!WatchFits
  <2>3. Summary!SummaryTypes'
    BY <1>1, <1>2, <2>1 DEF Summary!SummaryTypes
  <2>4. Summary!SummaryIsHonest'
    BY <2>1, <2>2 DEF Summary!SummaryIsHonest, Summary!Empty, Summary!Ids, Summary!Owed
  <2> QED
    BY <2>1, <2>3, <2>4 DEF Summary!SummaryFits, Summary!WatchFits, Summary!FreshFits,
      Summary!KeptFits, Summary!StagedFits
<1>6. ASSUME s6.pc = "read",
             s6' = [s6 EXCEPT !.pc = "ask", !.rows = Summary!Live,
                       !.asked = IF s6.all THEN {}
                                 ELSE {s1[id].commit : id \in {i \in Summary!Live : Summary!Committed(i)}},
                       !.kept = IF s6.all THEN {i \in Summary!Live : Summary!Committed(i)} ELSE {}]
      PROVE  Summary!SummaryFits'
  <2> DEFINE commits == {i \in Summary!Live : Summary!Committed(i)}
  <2>1. /\ DOMAIN s6' = Summary!Fields /\ s6'.pc = "ask" /\ s6'.all = s6.all /\ s6'.rows = Summary!Live
        /\ s6'.asked = (IF s6.all THEN {} ELSE {s1[id].commit : id \in commits})
        /\ s6'.kept = (IF s6.all THEN commits ELSE {})
        /\ s6'.open = s6.open /\ s6'.near = s6.near /\ s6'.always = s6.always
        /\ s6'.clock = s6.clock /\ s6'.logged = s6.logged
    BY <1>1, <1>6
  <2>2. /\ s6.clock = 0 /\ s6.logged = {}
        /\ Summary!Live \subseteq s6.open /\ Summary!Near \subseteq s6.near
        /\ s6.always \subseteq Summary!Live \cap Summary!Near
    BY <1>1, <1>6 DEF Summary!FreshFits, Summary!WatchFits
  <2>3. Summary!Live \subseteq 1..Len(s1)
    BY DEF Summary!Live
  <2>4. Summary!SummaryTypes' /\ Summary!FreshFits' /\ Summary!WatchFits'
    BY <1>1, <1>2, <2>1, <2>2 DEF Summary!SummaryTypes, Summary!FreshFits, Summary!WatchFits
  <2>5. Summary!KeptFits'
    <3>1. /\ s6'.always \subseteq s6'.rows /\ s6'.rows \subseteq s6'.open
          /\ s6'.rows \subseteq 1..Len(s1')
      BY <1>2, <2>1, <2>2, <2>3
    <3>2. s6'.kept \subseteq {id \in s6'.rows : id \in s6'.near \/ (s6'.all /\ Summary!Committed(id)')}
      BY <1>2, <2>1
    <3>3. ASSUME NEW id \in s6'.always, Summary!Committed(id)'
          PROVE  id \in s6'.kept \/ s1'[id].commit \in s6'.asked
      <4>1. id \in commits
        BY <1>2, <2>1, <2>2, <3>3
      <4> QED
        BY <1>2, <2>1, <4>1
    <3> QED
      BY <2>1, <3>1, <3>2, <3>3 DEF Summary!KeptFits
  <2>6. Summary!StagedFits' /\ Summary!SummaryIsHonest'
    BY <2>1, <2>2 DEF Summary!StagedFits, Summary!SummaryIsHonest
  <2> QED
    BY <2>4, <2>5, <2>6 DEF Summary!SummaryFits
<1>7. CASE Summary!ReadRows
  BY <1>4, <1>5, <1>6, <1>7 DEF Summary!ReadRows, Summary!Joined
<1>8. CASE Summary!ReachabilityFails
  BY <1>4, <1>8 DEF Summary!ReachabilityFails
<1> QED
  BY <1>3, <1>7, <1>8

LEMMA ReachabilityKnown ==
  ASSUME Summary!SummaryFits, NEW c, Summary!AskReachable(c)
  PROVE  Summary!SummaryFits'
<1> USE DEF Summary!Fields
<1>1. /\ Summary!SummaryTypes /\ Summary!WatchFits /\ Summary!KeptFits /\ Summary!StagedFits
      /\ DOMAIN s6 = Summary!Fields /\ s6.pc = "ask"
  BY DEF Summary!SummaryFits, Summary!SummaryTypes, Summary!AskReachable
<1>2. /\ s1' = s1 /\ Summary!Live' = Summary!Live /\ Summary!Near' = Summary!Near
      /\ \A id : Summary!Committed(id)' <=> Summary!Committed(id)
  BY WorldStands DEF Summary!AskReachable
<1> DEFINE answered == {id \in s6.rows : s1[id].commit = c /\ Summary!Reaches(id)}
<1>3. PICK found \in {answered, {}} :
        /\ DOMAIN s6' = Summary!Fields /\ s6'.pc = "ask" /\ s6'.all = s6.all /\ s6'.rows = s6.rows
        /\ s6'.asked = s6.asked \ {c} /\ s6'.kept = s6.kept \cup found
        /\ s6.gaveUp \subseteq s6'.gaveUp /\ (found # answered => c \in s6'.gaveUp)
        /\ s6'.open = s6.open /\ s6'.near = s6.near /\ s6'.always = s6.always
        /\ s6'.clock = s6.clock /\ s6'.logged = s6.logged
  <2>1. CASE s6' = [s6 EXCEPT !.asked = s6.asked \ {c}, !.kept = s6.kept \cup answered]
    <3> HIDE DEF answered
    <3>1. /\ DOMAIN s6' = Summary!Fields /\ s6'.pc = "ask" /\ s6'.all = s6.all /\ s6'.rows = s6.rows
          /\ s6'.asked = s6.asked \ {c} /\ s6'.kept = s6.kept \cup answered
          /\ s6'.gaveUp = s6.gaveUp
          /\ s6'.open = s6.open /\ s6'.near = s6.near /\ s6'.always = s6.always
          /\ s6'.clock = s6.clock /\ s6'.logged = s6.logged
      BY <1>1, <2>1
    <3> QED
      BY <3>1
  <2>2. CASE s6' = [s6 EXCEPT !.asked = s6.asked \ {c}, !.gaveUp = s6.gaveUp \cup {c}]
    <3> HIDE DEF answered
    <3>1. /\ DOMAIN s6' = Summary!Fields /\ s6'.pc = "ask" /\ s6'.all = s6.all /\ s6'.rows = s6.rows
          /\ s6'.asked = s6.asked \ {c} /\ s6'.kept = s6.kept \cup {}
          /\ s6'.gaveUp = s6.gaveUp \cup {c}
          /\ s6'.open = s6.open /\ s6'.near = s6.near /\ s6'.always = s6.always
          /\ s6'.clock = s6.clock /\ s6'.logged = s6.logged
      BY <1>1, <2>2
    <3> QED
      BY <3>1
  <2>3. \/ s6' = [s6 EXCEPT !.asked = s6.asked \ {c}, !.kept = s6.kept \cup answered]
        \/ s6' = [s6 EXCEPT !.asked = s6.asked \ {c}, !.gaveUp = s6.gaveUp \cup {c}]
    BY <1>1 DEF Summary!AskReachable
  <2> QED
    BY <2>1, <2>2, <2>3
<1>4. /\ s6.always \subseteq s6.rows /\ s6.rows \subseteq s6.open /\ s6.rows \subseteq 1..Len(s1)
      /\ s6.kept \subseteq {id \in s6.rows : id \in s6.near \/ (s6.all /\ Summary!Committed(id))}
      /\ Summary!Near \subseteq s6.near /\ s6.always \subseteq Summary!Near
  BY <1>1 DEF Summary!KeptFits, Summary!WatchFits
<1>5. answered \subseteq Summary!Near
  BY <1>4 DEF Summary!Near
<1>6. \A id \in s6.always : Summary!Committed(id) => Summary!Reaches(id)
  BY <1>4 DEF Summary!Near, Summary!Staged
<1>7. Summary!SummaryTypes' /\ Summary!WatchFits' /\ Summary!FreshFits'
  BY <1>1, <1>2, <1>3 DEF Summary!SummaryTypes, Summary!WatchFits, Summary!FreshFits
<1>8. Summary!StagedFits' /\ Summary!SummaryIsHonest'
  BY <1>1, <1>3 DEF Summary!StagedFits, Summary!SummaryIsHonest
<1>9. Summary!KeptFits'
  <2>1. s6'.kept \subseteq {id \in s6'.rows : id \in s6'.near \/ (s6'.all /\ Summary!Committed(id)')}
    <3>1. ASSUME NEW id \in found
          PROVE  id \in s6.rows /\ id \in s6.near
      BY <1>3, <1>4, <1>5, <3>1
    <3>2. ASSUME NEW id \in s6.kept
          PROVE  id \in s6.rows /\ (id \in s6.near \/ (s6.all /\ Summary!Committed(id)))
      BY <1>4, <3>2
    <3> HIDE DEF answered
    <3> QED
      BY <1>2, <1>3, <3>1, <3>2
  <2>2. ASSUME NEW id \in s6.always, Summary!Committed(id)
        PROVE  id \in s6'.kept \/ s1[id].commit \in s6'.gaveUp \/ s1[id].commit \in s6'.asked
    <3>1. id \in s6.rows
      BY <1>4
    <3>2. id \in s6.kept \/ s1[id].commit \in s6.gaveUp \/ s1[id].commit \in s6.asked
      BY <1>1, <2>2 DEF Summary!KeptFits
    <3>3. s1[id].commit = c => id \in answered
      BY <1>6, <2>2, <3>1
    <3> HIDE DEF answered
    <3> QED
      BY <1>3, <3>2, <3>3
  <2>3. s6'.always \subseteq s6'.rows /\ s6'.rows \subseteq s6'.open /\ s6'.rows \subseteq 1..Len(s1')
    BY <1>2, <1>3, <1>4
  <2> HIDE DEF answered
  <2>4. \A id \in s6'.always : Summary!Committed(id)' =>
           id \in s6'.kept \/ s1'[id].commit \in s6'.gaveUp \/ s1'[id].commit \in s6'.asked
    BY <1>2, <1>3, <2>2
  <2> QED
    BY <1>3, <2>1, <2>3, <2>4 DEF Summary!KeptFits
<1> QED
  BY <1>7, <1>8, <1>9 DEF Summary!SummaryFits

(* While git prints the staged changes.                                     *)
LEMMA DiffGoesOn ==
  ASSUME Summary!SummaryFits,
         \/ Summary!SpawnStagedDiff \/ Summary!GitEnds \/ Summary!DriverEnds
         \/ Summary!TimeIsUp \/ Summary!Backstop
  PROVE  Summary!SummaryFits'
<1> USE DEF Summary!Fields
<1>1. /\ Summary!SummaryTypes /\ Summary!WatchFits /\ Summary!KeptFits /\ Summary!StagedFits
      /\ Summary!SummaryIsHonest /\ DOMAIN s6 = Summary!Fields
  BY DEF Summary!SummaryFits, Summary!SummaryTypes
<1>2. /\ s1' = s1 /\ Summary!Live' = Summary!Live /\ Summary!Near' = Summary!Near
      /\ \A id : Summary!Committed(id)' <=> Summary!Committed(id)
  BY WorldStands DEF Summary!SpawnStagedDiff, Summary!GitEnds, Summary!DriverEnds, Summary!TimeIsUp,
    Summary!Backstop
<1> DEFINE Same == /\ DOMAIN s6' = Summary!Fields /\ s6'.pc = "diff" /\ s6'.all = s6.all
                   /\ s6'.rows = s6.rows /\ s6'.kept = s6.kept /\ s6'.open = s6.open
                   /\ s6'.near = s6.near /\ s6'.always = s6.always /\ s6'.gaveUp = s6.gaveUp
                   /\ s6'.logged = s6.logged
<1>3. ASSUME Same, s6.pc \in {"ask", "diff"}, s6.pc = "ask" => s6.asked = {},
             \A id \in s6.rows : ~Summary!Committed(id) =>
               /\ id \in s6.always => s1[id].hash = s6'.hash
               /\ s1[id].hash = s6'.hash => id \in s6.near,
             s6'.clock = 2 => s6'.git # "runs" /\ ~s6'.driver
      PROVE  Summary!SummaryFits'
  <2>1. Summary!SummaryTypes' /\ Summary!WatchFits' /\ Summary!FreshFits'
    BY <1>1, <1>2, <1>3 DEF Summary!SummaryTypes, Summary!WatchFits, Summary!FreshFits
  <2>2. Summary!KeptFits'
    BY <1>1, <1>2, <1>3 DEF Summary!KeptFits
  <2>3. Summary!StagedFits' /\ Summary!SummaryIsHonest'
    BY <1>2, <1>3 DEF Summary!StagedFits, Summary!SummaryIsHonest
  <2> QED
    BY <2>1, <2>2, <2>3 DEF Summary!SummaryFits
<1>4. CASE Summary!SpawnStagedDiff
  <2>1. PICK driver \in BOOLEAN :
          s6' = [s6 EXCEPT !.pc = "diff", !.git = "runs", !.driver = driver, !.hash = s4]
    BY <1>4 DEF Summary!SpawnStagedDiff
  <2>2. Same /\ s6'.hash = s4 /\ s6'.clock = s6.clock
    BY <1>1, <2>1
  <2>3. s6.pc = "ask" /\ s6.asked = {} /\ s6.clock = 0
    BY <1>1, <1>4 DEF Summary!SpawnStagedDiff, Summary!StagedFits
  <2>4. ASSUME NEW id \in s6.rows, ~Summary!Committed(id)
        PROVE  /\ id \in s6.always => s1[id].hash = s4
               /\ s1[id].hash = s4 => id \in s6.near
    <3>1. id \in 1..Len(s1) /\ Summary!Near \subseteq s6.near /\ s6.always \subseteq Summary!Near
      BY <1>1, <2>3 DEF Summary!KeptFits, Summary!WatchFits
    <3> QED
      BY <2>4, <3>1 DEF Summary!Near, Summary!Staged, Summary!Reaches
  <2> HIDE DEF Same
  <2> QED
    BY <1>3, <2>2, <2>3, <2>4
<1>5. ASSUME Summary!GitEnds \/ Summary!DriverEnds \/ Summary!TimeIsUp \/ Summary!Backstop
      PROVE  Summary!SummaryFits'
  <2>1. s6.pc = "diff"
    BY <1>5 DEF Summary!GitEnds, Summary!DriverEnds, Summary!TimeIsUp, Summary!Backstop
  <2>2. Same /\ s6'.hash = s6.hash /\ (s6'.clock = 2 => s6'.git # "runs" /\ ~s6'.driver)
    <3>1. CASE Summary!GitEnds
      <4>1. PICK end \in {"printed", "failed"} : s6' = [s6 EXCEPT !.git = end]
        BY <3>1 DEF Summary!GitEnds
      <4>2. s6'.git = end /\ s6'.clock = s6.clock /\ s6'.driver = s6.driver
        BY <1>1, <4>1
      <4> QED
        BY <1>1, <2>1, <4>1, <4>2 DEF Summary!SummaryIsHonest
    <3>2. CASE Summary!DriverEnds
      <4>1. s6' = [s6 EXCEPT !.driver = FALSE]
        BY <3>2 DEF Summary!DriverEnds
      <4>2. s6'.git = s6.git /\ s6'.clock = s6.clock /\ s6'.driver = FALSE
        BY <1>1, <4>1
      <4> QED
        BY <1>1, <2>1, <4>1, <4>2 DEF Summary!SummaryIsHonest
    <3>3. CASE Summary!TimeIsUp
      <4>1. s6' = [s6 EXCEPT !.clock = 1, !.git = "killed"]
        BY <3>3 DEF Summary!TimeIsUp
      <4> QED
        BY <1>1, <2>1, <4>1
    <3>4. CASE Summary!Backstop
      <4>1. s6' = [[s6 EXCEPT !.git = "killed", !.driver = FALSE] EXCEPT !.clock = 2]
        BY <3>4 DEF Summary!Backstop, Summary!KillTree
      <4> QED
        BY <1>1, <2>1, <4>1
    <3> QED
      BY <1>5, <3>1, <3>2, <3>3, <3>4
  <2>3. \A id \in s6.rows : ~Summary!Committed(id) =>
               /\ id \in s6.always => s1[id].hash = s6'.hash
               /\ s1[id].hash = s6'.hash => id \in s6.near
    BY <1>1, <2>1, <2>2 DEF Summary!StagedFits
  <2> HIDE DEF Same
  <2> QED
    BY <1>3, <2>1, <2>2, <2>3
<1> QED
  BY <1>4, <1>5

LEMMA StagedSettled ==
  ASSUME Summary!SummaryFits, Summary!StagedDiffSettles
  PROVE  Summary!SummaryFits'
<1> USE DEF Summary!Fields
<1>1. /\ Summary!SummaryTypes /\ Summary!WatchFits /\ Summary!KeptFits /\ Summary!StagedFits
      /\ Summary!SummaryIsHonest /\ DOMAIN s6 = Summary!Fields /\ s6.pc = "diff"
  BY DEF Summary!SummaryFits, Summary!SummaryTypes, Summary!StagedDiffSettles
<1>2. /\ s1' = s1 /\ Summary!Live' = Summary!Live /\ Summary!Near' = Summary!Near
      /\ \A id : Summary!Committed(id)' <=> Summary!Committed(id)
  BY WorldStands DEF Summary!StagedDiffSettles
<1> DEFINE admitted == {id \in Summary!StagedRows : s1[id].hash = s6.hash}
           Same == /\ DOMAIN s6' = Summary!Fields /\ s6'.pc = "sum" /\ s6'.all = s6.all
                   /\ s6'.rows = s6.rows /\ s6'.open = s6.open
                   /\ s6'.near = s6.near /\ s6'.always = s6.always /\ s6'.gaveUp = s6.gaveUp
                   /\ s6'.git = s6.git /\ s6'.driver = s6.driver /\ s6'.clock = s6.clock
<1>3. \/ Same /\ s6'.kept = s6.kept \cup admitted /\ s6'.logged = s6.logged
      \/ Same /\ s6'.kept = s6.kept /\ s6'.logged = s6.logged \cup {"staged"}
  <2> HIDE DEF admitted
  <2>1. \/ s6' = [s6 EXCEPT !.pc = "sum", !.kept = s6.kept \cup admitted]
        \/ s6' = [s6 EXCEPT !.pc = "sum", !.logged = s6.logged \cup {"staged"}]
    BY <1>1 DEF Summary!StagedDiffSettles, admitted
  <2> QED
    BY <1>1, <2>1
<1>4. /\ s6.always \subseteq s6.rows /\ s6.rows \subseteq s6.open /\ s6.rows \subseteq 1..Len(s1)
      /\ s6.kept \subseteq {id \in s6.rows : id \in s6.near \/ (s6.all /\ Summary!Committed(id))}
      /\ \A id \in s6.always : Summary!Committed(id) => id \in s6.kept \/ s1[id].commit \in s6.gaveUp
  BY <1>1 DEF Summary!KeptFits
<1>5. /\ admitted \subseteq s6.rows /\ admitted \subseteq s6.near
      /\ \A id \in s6.always : ~Summary!Committed(id) => id \in admitted
  BY <1>1, <1>4 DEF Summary!StagedRows, Summary!StagedFits
<1> HIDE DEF admitted
<1>6. Summary!SummaryTypes' /\ Summary!WatchFits' /\ Summary!FreshFits'
  BY <1>1, <1>2, <1>3 DEF Summary!SummaryTypes, Summary!WatchFits, Summary!FreshFits
<1>7. Summary!KeptFits'
  <2>1. s6'.kept \subseteq {id \in s6'.rows : id \in s6'.near \/ (s6'.all /\ Summary!Committed(id)')}
    BY <1>2, <1>3, <1>4, <1>5
  <2>2. s6'.always \subseteq s6'.rows /\ s6'.rows \subseteq s6'.open /\ s6'.rows \subseteq 1..Len(s1')
    BY <1>2, <1>3, <1>4
  <2>3. \A id \in s6'.always : Summary!Committed(id)' => id \in s6'.kept \/ s1'[id].commit \in s6'.gaveUp
    BY <1>2, <1>3, <1>4
  <2> QED
    BY <2>1, <2>2, <2>3 DEF Summary!KeptFits
<1>8. Summary!StagedFits'
  BY <1>2, <1>3, <1>5 DEF Summary!StagedFits
<1>9. Summary!SummaryIsHonest'
  BY <1>1, <1>3 DEF Summary!SummaryIsHonest
<1> QED
  BY <1>6, <1>7, <1>8, <1>9 DEF Summary!SummaryFits

LEMMA SeverityType ==
  ASSUME s1 \in Seq(Summary!Observations), NEW id \in 1..Len(s1)
  PROVE  s1[id].severity \in Nat \ {0}
<1>1. s1[id] \in Summary!Observations
  OBVIOUS
<1>2. s1[id].severity \in Severities
  BY <1>1 DEF Summary!Observations
<1> QED
  BY <1>2, SummaryAssumption

(* The severity that a summary names is the highest of the latest rows.     *)
LEMMA HighestIsOne ==
  ASSUME s1 \in Seq(Summary!Observations), NEW S \in SUBSET (1..Len(s1)), S # {}
  PROVE  \E id \in S : Summary!Highest(Summary!Latest(S)) = s1[id].severity
<1>1. IsFiniteSet(1..Len(s1))
  BY FS_Interval
<1>2. IsFiniteSet(S) /\ IsFiniteSet(Summary!Latest(S))
  BY <1>1, FS_Subset DEF Summary!Latest
<1>3. \E m \in S : \A x \in S : x <= m
  <2> DEFINE f == [x \in S |-> x]
  <2>1. \A x \in S : f[x] \in Nat
    OBVIOUS
  <2>2. \E m \in S : \A x \in S : f[x] <= f[m]
    <3> HIDE DEF f
    <3> QED
      BY <1>2, <2>1, HighestExists
  <2> QED
    BY <2>2
<1>4. Summary!Latest(S) # {}
  BY <1>3 DEF Summary!Latest
<1> DEFINE g == [x \in Summary!Latest(S) |-> s1[x].severity]
<1>5. \A x \in Summary!Latest(S) : g[x] \in Nat /\ g[x] = s1[x].severity
  BY SeverityType DEF Summary!Latest
<1>6. \E m \in Summary!Latest(S) : \A x \in Summary!Latest(S) : s1[x].severity <= s1[m].severity
  <2>1. \E m \in Summary!Latest(S) : \A x \in Summary!Latest(S) : g[x] <= g[m]
    <3> HIDE DEF g
    <3> QED
      BY <1>2, <1>4, <1>5, HighestExists
  <2> QED
    BY <1>5, <2>1
<1>7. Summary!Highest(Summary!Latest(S)) \in {s1[id].severity : id \in Summary!Latest(S)}
  BY <1>6 DEF Summary!Highest
<1> QED
  BY <1>7 DEF Summary!Latest

LEMMA Summarized ==
  ASSUME Summary!SummaryFits, Summary!Summarize
  PROVE  Summary!SummaryFits'
<1> USE DEF Summary!Fields
<1>1. /\ Summary!SummaryTypes /\ Summary!WatchFits /\ Summary!KeptFits /\ Summary!StagedFits
      /\ Summary!SummaryIsHonest /\ DOMAIN s6 = Summary!Fields /\ s6.pc \in {"sum", "ask"}
      /\ s1 \in Seq(Summary!Observations)
  BY DEF Summary!SummaryFits, Summary!SummaryTypes, Summary!Summarize
<1>2. s1' = s1 /\ \A id : Summary!Committed(id)' <=> Summary!Committed(id)
  BY WorldStands DEF Summary!Summarize
<1> DEFINE answer == IF s6.kept = {} THEN Summary!Empty
                     ELSE [told |-> Summary!Ids(s6.kept), top |-> Summary!Highest(Summary!Latest(s6.kept))]
<1>3. s6' = [s6 EXCEPT !.pc = "done", !.answer = answer]
  BY DEF Summary!Summarize
<1>4. /\ DOMAIN s6' = Summary!Fields /\ s6'.pc = "done" /\ s6'.answer = answer
      /\ s6'.all = s6.all /\ s6'.open = s6.open /\ s6'.near = s6.near /\ s6'.always = s6.always
      /\ s6'.gaveUp = s6.gaveUp /\ s6'.logged = s6.logged /\ s6'.git = s6.git
      /\ s6'.driver = s6.driver /\ s6'.clock = s6.clock
  <2> HIDE DEF answer
  <2> QED
    BY <1>1, <1>3
<1>5. /\ s6.kept \subseteq {id \in s6.rows : id \in s6.near \/ (s6.all /\ Summary!Committed(id))}
      /\ s6.always \subseteq s6.rows /\ s6.rows \subseteq s6.open /\ s6.rows \subseteq 1..Len(s1)
  BY <1>1 DEF Summary!KeptFits
<1>6. s6.kept \subseteq Summary!Candidates /\ s6.kept \subseteq 1..Len(s1)
  BY <1>5 DEF Summary!Candidates
<1>7. Summary!Owed \subseteq s6.kept
  <2>1. ASSUME NEW id \in s6.always, Summary!Committed(id), s1[id].commit \notin s6.gaveUp
        PROVE  id \in s6.kept
    BY <1>1, <2>1 DEF Summary!KeptFits, Summary!Summarize
  <2>2. ASSUME NEW id \in s6.always, ~Summary!Committed(id), "staged" \notin s6.logged
        PROVE  id \in s6.kept
    <3>1. CASE s6.pc = "sum"
      BY <1>1, <2>2, <3>1 DEF Summary!StagedFits
    <3>2. CASE s6.pc = "ask"
      BY <1>5, <2>2, <3>2 DEF Summary!Summarize, Summary!StagedRows
    <3> QED
      BY <1>1, <3>1, <3>2
  <2> QED
    BY <2>1, <2>2 DEF Summary!Owed
<1>8. /\ answer.told = Summary!Ids(s6.kept)
      /\ s6.kept = {} => answer.top = 0
      /\ s6.kept # {} => \E id \in s6.kept : answer.top = s1[id].severity
  <2>1. CASE s6.kept = {}
    BY <2>1 DEF Summary!Empty, Summary!Ids
  <2>2. CASE s6.kept # {}
    BY <1>1, <1>6, <2>2, HighestIsOne
  <2> QED
    BY <2>1, <2>2
<1> HIDE DEF answer
<1>9. /\ Summary!Owed' = Summary!Owed /\ Summary!Candidates' = Summary!Candidates
      /\ Summary!Ids(Summary!Owed)' = Summary!Ids(Summary!Owed)
      /\ Summary!Ids(Summary!Candidates)' = Summary!Ids(Summary!Candidates)
  <2>1. /\ Summary!Owed' = Summary!Owed /\ Summary!Candidates' = Summary!Candidates
    BY <1>2, <1>4 DEF Summary!Owed, Summary!Candidates
  <2> QED
    BY <1>2, <2>1 DEF Summary!Ids
<1>10. /\ Summary!Ids(Summary!Owed) \subseteq answer.told /\ answer.told \subseteq Summary!Ids(Summary!Candidates)
       /\ answer.top \in {0} \cup {s1[id].severity : id \in Summary!Candidates}
       /\ answer.top = 0 <=> answer.told = {}
  <2>1. /\ Summary!Ids(Summary!Owed) \subseteq answer.told /\ answer.told \subseteq Summary!Ids(Summary!Candidates)
        /\ answer.top \in {0} \cup {s1[id].severity : id \in Summary!Candidates}
    BY <1>6, <1>7, <1>8 DEF Summary!Ids
  <2>2. \A id \in s6.kept : s1[id].severity # 0
    BY <1>1, <1>6, SeverityType
  <2>3. s6.kept = {} <=> answer.told = {}
    BY <1>8 DEF Summary!Ids
  <2> QED
    BY <1>8, <2>1, <2>2, <2>3
<1>11. s6.logged \cap {"unreadable", "reachability"} = {}
  BY <1>1 DEF Summary!WatchFits
<1>12. Summary!SummaryIsHonest'
  BY <1>1, <1>2, <1>4, <1>9, <1>10, <1>11 DEF Summary!SummaryIsHonest
<1>13. Summary!SummaryTypes'
  BY <1>1, <1>2, <1>4 DEF Summary!SummaryTypes
<1> QED
  BY <1>4, <1>12, <1>13 DEF Summary!SummaryFits, Summary!WatchFits, Summary!FreshFits,
    Summary!KeptFits, Summary!StagedFits

LEMMA SummaryKeeps ==
  ASSUME Summary!SummaryFits, Summary!SummaryNext
  PROVE  Summary!SummaryFits'
BY WorldSteps, QueryBegins, ReachabilityKnown, DiffGoesOn, StagedSettled, Summarized DEF Summary!SummaryNext

SummaryInv == part = "summary" => Summary!SummaryFits

LEMMA SummaryInductive == PartsSpec => []SummaryInv
<1>1. PartsInit => SummaryInv
  BY SummaryStarts DEF PartsInit, SummaryInv
<1>2. SummaryInv /\ [PartsNext]_partsVars => SummaryInv'
  <2>1. ASSUME SummaryInv, PartsNext
        PROVE  SummaryInv'
    BY <2>1, PartStays, SummaryAlone, SummaryKeeps DEF SummaryInv
  <2>2. ASSUME SummaryInv, UNCHANGED partsVars
        PROVE  SummaryInv'
    <3>1. s1' = s1 /\ s2' = s2 /\ s3' = s3 /\ s4' = s4 /\ s5' = s5 /\ s6' = s6 /\ part' = part
      BY <2>2 DEF partsVars
    <3>2. Summary!SummaryFits => Summary!SummaryFits'
      BY <3>1 DEF Summary!SummaryFits, Summary!SummaryTypes, Summary!WatchFits,
        Summary!FreshFits, Summary!KeptFits, Summary!StagedFits, Summary!SummaryIsHonest,
        Summary!Fields, Summary!Observations, Summary!Live, Summary!Near,
        Summary!Committed, Summary!Reaches, Summary!Staged, Summary!Owed,
        Summary!Candidates, Summary!Ids, Summary!Unresolved, Summary!Empty
    <3> QED
      BY <2>2, <3>1, <3>2 DEF SummaryInv
  <2> QED
    BY <2>1, <2>2
<1> QED
  BY <1>1, <1>2, PTL DEF PartsSpec

(* However signals, failures and the drain of output race, the exit code,   *)
(* the output and the state of a review command agree; and a summary tells  *)
(* only of findings that were open and near, or reachable, at some moment of*)
(* the query, and its severity is that of one of these (CommandsAreTrue;     *)
(* src/cli.ts:425, state/findings-summary.ts:190).                          *)
THEOREM AnswersAreTrue == PartsSpec => []CommandsAreTrue
<1>1. CommandInv /\ SummaryInv => CommandsAreTrue
  BY DEF CommandInv, SummaryInv, CommandsAreTrue, Command!CommandFits, Summary!SummaryFits
<1> QED
  BY <1>1, CommandInductive, SummaryInductive, PTL

-----------------------------------------------------------------------------
(* The telemetry of an attempt                                              *)

(* A set of numbers has a least one.                                        *)
LEMMA LeastOfNumbers ==
  ASSUME NEW K \in SUBSET Nat, K # {}
  PROVE  \E n \in K : \A k \in K : n <= k
<1> DEFINE T == {1..n : n \in K}
<1>1. T \subseteq FiniteSubsetsOf(Nat) /\ T # {}
  <2>1. ASSUME NEW n \in K PROVE 1..n \in FiniteSubsetsOf(Nat)
    <3>1. n \in Int /\ 1 \in Int /\ (1..n) \subseteq Nat
      OBVIOUS
    <3> QED
      BY <3>1, FS_Interval DEF FiniteSubsetsOf
  <2> QED
    BY <2>1
<1>2. PICK x \in T : \A y \in T : <<y, x>> \notin StrictSubsetOrdering(Nat)
  <2> HIDE DEF T
  <2> QED
    BY <1>1, FS_StrictSubsetOrderingWellFounded, WFMin
<1>3. PICK n \in K : x = 1..n
  OBVIOUS
<1>4. ASSUME NEW k \in K PROVE n <= k
  <2>1. SUFFICES ASSUME k < n PROVE FALSE
    OBVIOUS
  <2>2. (1..k) \subseteq (1..n) /\ n \in 1..n /\ n \notin 1..k
    BY <2>1
  <2>3. <<1..k, 1..n>> \in StrictSubsetOrdering(Nat)
    BY <2>2 DEF StrictSubsetOrdering
  <2> QED
    BY <1>2, <1>3, <2>3
<1> QED
  BY <1>4

(* f has the sums of the first numbers of g.                                *)
Summed(f, n, g) ==
  /\ f \in [0..n -> Int] /\ f[0] = 0
  /\ \A i \in 1..n : f[i] = f[i - 1] + g[i]

LEMMA SumGoesOn ==
  ASSUME NEW n \in Nat, NEW f, NEW g, Summed(f, n, g), NEW i \in 1..n
  PROVE  f[i] = f[i - 1] + g[i] /\ f[i - 1] \in Int /\ f[i] \in Int
<1>1. i - 1 \in 0..n /\ i \in 0..n
  OBVIOUS
<1> QED
  BY <1>1 DEF Summed

LEMMA SumExists ==
  ASSUME NEW n \in Nat, NEW g, \A i \in 1..n : g[i] \in Int
  PROVE  \E f : Summed(f, n, g)
<1> DEFINE bad == {k \in 0..n : ~\E f : Summed(f, k, g)}
<1>1. SUFFICES ASSUME bad # {} PROVE FALSE
  OBVIOUS
<1>2. PICK k \in bad : \A i \in bad : k <= i
  <2>1. bad \in SUBSET Nat
    OBVIOUS
  <2> HIDE DEF bad
  <2> QED
    BY <1>1, <2>1, LeastOfNumbers
<1>3. k # 0
  <2> DEFINE zero == [i \in 0..0 |-> 0]
  <2>1. zero[0] = 0 /\ zero \in [0..0 -> Int]
    OBVIOUS
  <2>2. 1..0 = {}
    OBVIOUS
  <2>3. Summed(zero, 0, g)
    <3> HIDE DEF zero
    <3> QED
      BY <2>1, <2>2 DEF Summed
  <2> QED
    BY <2>3
<1>4. PICK f : Summed(f, k - 1, g)
  BY <1>2, <1>3
<1> DEFINE h == [i \in 0..k |-> IF i = k THEN f[k - 1] + g[k] ELSE f[i]]
<1>5. /\ k \in Nat /\ k - 1 \in Nat /\ h[k] = f[k - 1] + g[k]
      /\ \A i \in 0 .. k - 1 : h[i] = f[i]
  BY <1>2, <1>3
<1>6. h[0] = 0 /\ h \in [0..k -> Int]
  <2>1. f[0] = 0 /\ \A i \in 0 .. k - 1 : f[i] \in Int
    BY <1>4, <1>5 DEF Summed
  <2>2. g[k] \in Int
    BY <1>2, <1>3
  <2> QED
    BY <1>5, <2>1, <2>2
<1>7. ASSUME NEW i \in 1..k PROVE h[i] = h[i - 1] + g[i]
  <2>1. CASE i = k
    BY <1>5, <2>1
  <2>2. CASE i # k
    <3>1. i \in 1 .. k - 1 /\ i - 1 \in 0 .. k - 1 /\ i \in 0 .. k - 1
      BY <1>5, <2>2
    <3> HIDE DEF h
    <3> QED
      BY <1>4, <1>5, <3>1, SumGoesOn
  <2> QED
    BY <2>1, <2>2
<1>8. Summed(h, k, g)
  <2> HIDE DEF h
  <2> QED
    BY <1>5, <1>6, <1>7 DEF Summed
<1> QED
  BY <1>8

LEMMA SumsAgree ==
  ASSUME NEW n \in Nat, NEW m \in Nat, NEW f, NEW g, NEW h, NEW e,
         Summed(f, n, g), Summed(h, m, e),
         NEW k \in Nat, k <= n, k <= m, \A i \in 1..k : g[i] = e[i]
  PROVE  f[k] = h[k]
<1> DEFINE bad == {i \in 0..k : f[i] # h[i]}
<1>1. SUFFICES ASSUME bad # {} PROVE FALSE
  OBVIOUS
<1>2. PICK j \in bad : \A i \in bad : j <= i
  <2>1. bad \in SUBSET Nat
    OBVIOUS
  <2> HIDE DEF bad
  <2> QED
    BY <1>1, <2>1, LeastOfNumbers
<1>3. j # 0
  BY DEF Summed
<1>4. f[j - 1] = h[j - 1]
  BY <1>2, <1>3
<1>5. j \in 1..n /\ j \in 1..m /\ j \in 1..k /\ f[j] # h[j]
  BY <1>2, <1>3
<1>6. f[j] = f[j - 1] + g[j] /\ h[j] = h[j - 1] + e[j]
  BY <1>5, SumGoesOn
<1> QED
  BY <1>4, <1>5, <1>6

Part(list, S) == [i \in 1 .. Len(list) |-> IF i \in S THEN list[i].lasted ELSE 0]

LEMMA SumsAre ==
  ASSUME NEW list \in Seq(Telemetry!Transition), NEW S
  PROVE  /\ Summed(Telemetry!Sums(list, S), Len(list), Part(list, S))
         /\ \A i \in 1 .. Len(list) : Part(list, S)[i] = IF i \in S THEN list[i].lasted ELSE 0
         /\ \A i \in 1 .. Len(list) : Part(list, S)[i] \in Int
<1> DEFINE n == Len(list)
           g == Part(list, S)
           over(f) == [i \in 0 .. Len(list) |->
                         IF i = 0 THEN 0 ELSE f[i - 1] + (IF i \in S THEN list[i].lasted ELSE 0)]
<1>1. n \in Nat /\ \A i \in 1..n : list[i].lasted \in Nat
  <2>1. n \in Nat /\ \A i \in 1..n : list[i] \in Telemetry!Transition
    OBVIOUS
  <2> HIDE DEF n
  <2> QED
    BY <2>1 DEF Telemetry!Transition
<1>2. \A i \in 1..n : g[i] = (IF i \in S THEN list[i].lasted ELSE 0) /\ g[i] \in Int
  BY <1>1 DEF Part
<1>3. PICK f : Summed(f, n, g)
  <2> HIDE DEF n, g
  <2> QED
    BY <1>1, <1>2, SumExists
<1>4. f = over(f)
  <2>1. ASSUME NEW i \in 0..n PROVE over(f)[i] = f[i]
    <3>1. over(f)[i] = IF i = 0 THEN 0 ELSE f[i - 1] + (IF i \in S THEN list[i].lasted ELSE 0)
      OBVIOUS
    <3> HIDE DEF n, over, g
    <3>2. CASE i = 0
      BY <1>3, <3>1, <3>2 DEF Summed
    <3>3. CASE i # 0
      <4>1. i \in 1..n
        BY <1>1, <3>3
      <4>2. f[i] = f[i - 1] + g[i]
        BY <1>1, <1>3, <4>1, SumGoesOn
      <4> QED
        BY <1>2, <3>1, <3>3, <4>1, <4>2
    <3> QED
      BY <3>2, <3>3
  <2>2. over(f) = [i \in 0..n |-> over(f)[i]]
    OBVIOUS
  <2>3. f = [i \in 0..n |-> f[i]]
    BY <1>3 DEF Summed
  <2> HIDE DEF over, n
  <2> QED
    BY <2>1, <2>2, <2>3
<1> DEFINE s == Telemetry!Sums(list, S)
<1>5. s = over(s)
  BY <1>4 DEF Telemetry!Sums
<1> HIDE DEF s
<1>6. s = [i \in 0..n |-> s[i]] /\ s[0] = 0 /\ \A i \in 1..n : s[i] = s[i - 1] + g[i]
  <2>1. \A i \in 0..n : over(s)[i] =
           IF i = 0 THEN 0 ELSE s[i - 1] + (IF i \in S THEN list[i].lasted ELSE 0)
    OBVIOUS
  <2>2. over(s) = [i \in 0..n |-> over(s)[i]]
    OBVIOUS
  <2>3. \A i \in 0..n : s[i] =
           IF i = 0 THEN 0 ELSE s[i - 1] + (IF i \in S THEN list[i].lasted ELSE 0)
    <3> HIDE DEF over, n
    <3> QED
      BY <1>5, <2>1
  <2>4. s = [i \in 0..n |-> s[i]]
    <3> HIDE DEF over, n
    <3> QED
      BY <1>5, <2>2
  <2> HIDE DEF g, over, n
  <2>5. s[0] = 0
    BY <1>1, <2>3
  <2>6. ASSUME NEW i \in 1..n PROVE s[i] = s[i - 1] + g[i]
    <3>1. i \in 0..n /\ i # 0
      BY <1>1
    <3> QED
      BY <1>2, <2>3, <3>1
  <2> QED
    BY <2>4, <2>5, <2>6
<1>7. \A i \in 0..n : s[i] \in Int
  <2> DEFINE bad == {i \in 0..n : s[i] \notin Int}
  <2>1. SUFFICES ASSUME bad # {} PROVE FALSE
    OBVIOUS
  <2>2. PICK j \in bad : \A i \in bad : j <= i
    <3>1. bad \in SUBSET Nat
      OBVIOUS
    <3> HIDE DEF bad
    <3> QED
      BY <2>1, <3>1, LeastOfNumbers
  <2>3. j # 0
    BY <1>6
  <2>4. s[j - 1] \in Int /\ j \in 1..n /\ s[j] \notin Int
    BY <2>2, <2>3
  <2> HIDE DEF g, n, bad
  <2>5. s[j] = s[j - 1] + g[j] /\ g[j] \in Int
    BY <1>2, <1>6, <2>4
  <2> QED
    BY <2>4, <2>5
<1>8. Summed(s, n, g)
  <2> HIDE DEF n, g
  <2> QED
    BY <1>6, <1>7 DEF Summed
<1> QED
  BY <1>2, <1>8 DEF s

(* The last of a list of transitions took another time.                     *)
LEMMA LastIsRelasted ==
  ASSUME NEW list \in Seq(Telemetry!Transition), NEW other \in Seq(Telemetry!Transition),
         Len(list) # 0, Len(other) = Len(list),
         \A i \in 1 .. Len(list) : other[i].phase = list[i].phase,
         \A i \in 1 .. Len(list) - 1 : other[i].lasted = list[i].lasted,
         NEW S
  PROVE  /\ Telemetry!Provider(other) = Telemetry!Provider(list)
         /\ Telemetry!Total(other, S) = Telemetry!Total(list, S)
              + (IF Len(list) \in S THEN other[Len(list)].lasted - list[Len(list)].lasted ELSE 0)
         /\ Telemetry!Total(other, S) \in Int /\ Telemetry!Total(list, S) \in Int
<1> DEFINE n == Len(list)
           f == Telemetry!Sums(list, S)
           h == Telemetry!Sums(other, S)
           g == Part(list, S)
           e == Part(other, S)
<1>1. n \in Nat /\ n # 0
  OBVIOUS
<1>2. Telemetry!Provider(other) = Telemetry!Provider(list)
  <2>1. DOMAIN list = 1..n /\ DOMAIN other = 1..n /\ \A i \in 1..n : other[i].phase = list[i].phase
    OBVIOUS
  <2> HIDE DEF n
  <2>2. ASSUME NEW i \in 1..n
        PROVE  i \in Telemetry!Provider(other) <=> i \in Telemetry!Provider(list)
    <3>1. \A j \in 1..i : j \in 1..n /\ \A k \in (j + 1)..i : k \in 1..n
      BY <1>1
    <3> QED
      BY <2>1, <3>1 DEF Telemetry!Provider
  <2>3. Telemetry!Provider(other) \subseteq 1..n /\ Telemetry!Provider(list) \subseteq 1..n
    BY <2>1 DEF Telemetry!Provider
  <2> QED
    BY <2>2, <2>3
<1>3. Summed(f, n, g) /\ Summed(h, n, e)
  BY SumsAre
<1>4. \A i \in 1..n : g[i] = (IF i \in S THEN list[i].lasted ELSE 0)
                      /\ e[i] = (IF i \in S THEN other[i].lasted ELSE 0)
  BY SumsAre
<1>5. Telemetry!Total(list, S) = f[n] /\ Telemetry!Total(other, S) = h[n]
  BY DEF Telemetry!Total
<1>6. list[n].lasted \in Nat /\ other[n].lasted \in Nat
  <2>1. list[n] \in Telemetry!Transition /\ other[n] \in Telemetry!Transition
    OBVIOUS
  <2> HIDE DEF n
  <2> QED
    BY <2>1 DEF Telemetry!Transition
<1>7. \A i \in 1 .. n - 1 : g[i] = e[i]
  <2>1. \A i \in 1 .. n - 1 : other[i].lasted = list[i].lasted
    OBVIOUS
  <2> HIDE DEF n, f, g, h, e
  <2> QED
    BY <1>1, <1>4, <2>1
<1> HIDE DEF n, f, g, h, e
<1>8. f[n - 1] = h[n - 1] /\ n - 1 \in Nat
  BY <1>1, <1>3, <1>7, SumsAgree
<1>9. f[n] = f[n - 1] + g[n] /\ h[n] = h[n - 1] + e[n] /\ f[n - 1] \in Int
  <2>1. n \in 1..n
    BY <1>1
  <2> QED
    BY <1>1, <1>3, <2>1, SumGoesOn
<1>10. h[n] = f[n] + (IF n \in S THEN other[n].lasted - list[n].lasted ELSE 0) /\ h[n] \in Int /\ f[n] \in Int
  BY <1>1, <1>4, <1>6, <1>8, <1>9
<1> QED
  BY <1>2, <1>5, <1>10 DEF n

(* A transition is put at the end of a list.                                *)
LEMMA TransitionIsAdded ==
  ASSUME NEW list \in Seq(Telemetry!Transition), Len(list) # 0, NEW r \in Telemetry!Transition,
         NEW S, NEW T, \A i \in 1 .. Len(list) : i \in S <=> i \in T
  PROVE  LET other == Append(list, r) n == Len(list) + 1 IN
         /\ Telemetry!Total(other, T) = Telemetry!Total(list, S) + (IF n \in T THEN r.lasted ELSE 0)
         /\ \A i \in 1 .. Len(list) : i \in Telemetry!Provider(list) <=> i \in Telemetry!Provider(other)
         /\ n \in Telemetry!Provider(other) <=>
              \/ r.phase = "turn-start"
              \/ Len(list) \in Telemetry!Provider(list) /\ r.phase \notin Telemetry!Closing
<1> DEFINE m == Len(list)
           n == m + 1
           other == Append(list, r)
           f == Telemetry!Sums(list, S)
           h == Telemetry!Sums(other, T)
           g == Part(list, S)
           e == Part(other, T)
<1>1. /\ m \in Nat /\ other \in Seq(Telemetry!Transition) /\ Len(other) = n
      /\ other[n] = r /\ \A i \in 1..m : other[i] = list[i]
  OBVIOUS
<1>2. Summed(f, m, g) /\ Summed(h, n, e)
  <2>1. Summed(f, Len(list), g)
    BY SumsAre
  <2>2. Summed(h, Len(other), e)
    BY <1>1, SumsAre
  <2> QED
    BY <1>1, <2>1, <2>2
<1>3. /\ \A i \in 1..m : g[i] = (IF i \in S THEN list[i].lasted ELSE 0)
      /\ \A i \in 1..n : e[i] = (IF i \in T THEN other[i].lasted ELSE 0)
  <2>1. \A i \in 1..m : g[i] = (IF i \in S THEN list[i].lasted ELSE 0)
    BY SumsAre
  <2>2. \A i \in 1 .. Len(other) : e[i] = (IF i \in T THEN other[i].lasted ELSE 0)
    BY <1>1, SumsAre
  <2> HIDE DEF e, g, other
  <2> QED
    BY <1>1, <2>1, <2>2
<1>4. Telemetry!Total(list, S) = f[m] /\ Telemetry!Total(other, T) = h[n]
  BY <1>1 DEF Telemetry!Total
<1>5. h[n] = f[m] + (IF n \in T THEN r.lasted ELSE 0)
  <2>1. \A i \in 1..m : i \in S <=> i \in T
    OBVIOUS
  <2> HIDE DEF m, f, g, h, e, other
  <2>2. \A i \in 1..m : g[i] = e[i]
    BY <1>1, <1>3, <2>1
  <2>3. f[m] = h[m]
    BY <1>1, <1>2, <2>2, SumsAgree
  <2>4. h[n] = h[m] + e[n]
    <3>1. n \in Nat /\ n \in 1..n /\ n - 1 = m
      BY <1>1
    <3>2. h[n] = h[n - 1] + e[n]
      BY <1>2, <3>1, SumGoesOn
    <3> QED
      BY <3>1, <3>2
  <2>5. e[n] = IF n \in T THEN r.lasted ELSE 0
    BY <1>1, <1>3
  <2> QED
    BY <2>3, <2>4, <2>5
<1>6. \A i \in 1..m : i \in Telemetry!Provider(list) <=> i \in Telemetry!Provider(other)
  BY <1>1 DEF Telemetry!Provider
<1>7. n \in Telemetry!Provider(other) <=>
        \/ r.phase = "turn-start"
        \/ m \in Telemetry!Provider(list) /\ r.phase \notin Telemetry!Closing
  <2>1. n \in Telemetry!Provider(other) <=> \E j \in 1..n :
          other[j].phase = "turn-start" /\ \A k \in (j + 1)..n : other[k].phase \notin Telemetry!Closing
    BY <1>1 DEF Telemetry!Provider
  <2>2. m \in Telemetry!Provider(list) <=> \E j \in 1..m :
          list[j].phase = "turn-start" /\ \A k \in (j + 1)..m : list[k].phase \notin Telemetry!Closing
    BY DEF Telemetry!Provider
  <2> HIDE DEF m, other
  <2>3. \A j \in 1..m : (\A k \in (j + 1)..n : other[k].phase \notin Telemetry!Closing) <=>
          r.phase \notin Telemetry!Closing /\ \A k \in (j + 1)..m : list[k].phase \notin Telemetry!Closing
    <3> SUFFICES ASSUME NEW j \in 1..m
                 PROVE  (\A k \in (j + 1)..n : other[k].phase \notin Telemetry!Closing) <=>
                          r.phase \notin Telemetry!Closing /\ \A k \in (j + 1)..m : list[k].phase \notin Telemetry!Closing
      OBVIOUS
    <3>1. (j + 1)..n = ((j + 1)..m) \cup {n}
      BY <1>1
    <3>2. \A k \in (j + 1)..m : other[k] = list[k]
      BY <1>1
    <3>3. other[n] = r
      BY <1>1
    <3> HIDE DEF n
    <3> QED
      BY <3>1, <3>2, <3>3
  <2>4. (n + 1)..n = {} /\ 1..n = (1..m) \cup {n}
    BY <1>1
  <2>5. (\E j \in 1..n :
           other[j].phase = "turn-start" /\ \A k \in (j + 1)..n : other[k].phase \notin Telemetry!Closing)
        <=> \/ r.phase = "turn-start"
            \/ r.phase \notin Telemetry!Closing /\ \E j \in 1..m :
                 list[j].phase = "turn-start" /\ \A k \in (j + 1)..m : list[k].phase \notin Telemetry!Closing
    BY <1>1, <2>3, <2>4
  <2> QED
    BY <2>1, <2>2, <2>5
<1> QED
  BY <1>4, <1>5, <1>6, <1>7

(* The phase that goes on, and the window that is open, up to a moment.     *)
UpTo(list, w, from, to, t) ==
  /\ Telemetry!Accounts(Telemetry!Lasting(list, t), t,
                        Telemetry!Waited(w, from, t), Telemetry!Served(w, to, t))
  /\ Len(Telemetry!Lasting(list, t)) = Len(list) /\ Telemetry!Last(Telemetry!Lasting(list, t)).at <= t
  /\ Telemetry!IsOpen(w, Telemetry!Lasting(list, t))
  /\ Telemetry!Waited(w, from, t) \in Nat /\ Telemetry!Served(w, to, t) \in Nat
  /\ Telemetry!Waited(w, from, t) + Telemetry!Served(w, to, t) =
       from + to + (IF w.kind = "closed" THEN 0 ELSE t - w.since)

LEMMA TimeGoesOn ==
  ASSUME NEW a \in Int, NEW b \in Int, NEW c \in Int, NEW d \in Int, NEW e \in Int
  PROVE  a + (b + (c - d)) + (e - c) = a + b + (e - d)
OBVIOUS

LEMMA MomentIsAccounted ==
  ASSUME NEW list, NEW w, NEW from, NEW to, NEW now, NEW t \in Nat, now <= t,
         Telemetry!GoesOn(list, w, from, to, now)
  PROVE  UpTo(list, w, from, to, t)
<1> DEFINE n == Len(list)
           l == list[n]
           r == [l EXCEPT !.lasted = t - l.at]
           other == Telemetry!Lasting(list, t)
           W == Telemetry!Waited(w, from, t)
           V == Telemetry!Served(w, to, t)
<1>1. /\ list \in Seq(Telemetry!Transition) /\ n \in Nat /\ n # 0
      /\ now \in Nat /\ l.at <= now /\ l.lasted = 0
      /\ from \in Nat /\ to \in Nat /\ w \in Telemetry!Windows /\ w.since <= now
      /\ Telemetry!IsOpen(w, list)
  BY DEF Telemetry!GoesOn, Telemetry!Accounts, Telemetry!Last
<1>2. /\ Telemetry!Total(list, DOMAIN list) = l.at
      /\ Telemetry!Total(list, Telemetry!Provider(list)) =
           from + (to + IF w.kind = "closed" THEN 0 ELSE l.at - w.since)
  BY DEF Telemetry!GoesOn, Telemetry!Accounts, Telemetry!Last
<1>3. /\ DOMAIN list = 1..n /\ n \in 1..n
      /\ l \in Telemetry!Transition /\ \A i \in 1..n : list[i] \in Telemetry!Transition
  BY <1>1
<1>4. r \in Telemetry!Transition /\ r.phase = l.phase /\ r.lasted = t - l.at /\ l.at \in Nat /\ r.at = l.at
  <2> HIDE DEF l, n
  <2>1. l.at \in Nat
    BY <1>3 DEF Telemetry!Transition
  <2>2. t - l.at \in Nat
    BY <1>1, <2>1
  <2> QED
    BY <1>3, <2>1, <2>2 DEF Telemetry!Transition
<1>5. other = [i \in 1..n |-> IF i = n THEN r ELSE list[i]]
  BY <1>3 DEF Telemetry!Lasting
<1>6. other \in Seq(Telemetry!Transition) /\ Len(other) = n
  <2> HIDE DEF n, l, r, other
  <2> QED
    BY <1>1, <1>3, <1>4, <1>5
<1>7. DOMAIN other = 1..n /\ other[n] = r /\ \A i \in 1..n : i # n => other[i] = list[i]
  <2> HIDE DEF n, l, r, other
  <2> QED
    BY <1>3, <1>5
<1>8. /\ \A i \in 1..n : other[i].phase = list[i].phase
      /\ \A i \in 1 .. n - 1 : other[i].lasted = list[i].lasted
  <2>1. l = list[n]
    OBVIOUS
  <2> HIDE DEF n, l, r, other
  <2> QED
    BY SMTT(20), <1>1, <1>4, <1>7, <2>1
<1>9. ASSUME NEW S
      PROVE  /\ Telemetry!Provider(other) = Telemetry!Provider(list)
             /\ Telemetry!Total(other, S) = Telemetry!Total(list, S)
                  + (IF n \in S THEN t - l.at ELSE 0)
             /\ Telemetry!Total(other, S) \in Int /\ Telemetry!Total(list, S) \in Int
  <2>1. /\ Telemetry!Provider(other) = Telemetry!Provider(list)
        /\ Telemetry!Total(other, S) = Telemetry!Total(list, S)
                  + (IF Len(list) \in S THEN other[Len(list)].lasted - list[Len(list)].lasted ELSE 0)
        /\ Telemetry!Total(other, S) \in Int /\ Telemetry!Total(list, S) \in Int
    <3> HIDE DEF other, r, l
    <3> QED
      BY <1>1, <1>6, <1>8, LastIsRelasted
  <2>2. other[n].lasted - list[n].lasted = t - l.at
    <3>1. l = list[n]
      OBVIOUS
    <3> HIDE DEF n, l, r, other
    <3> QED
      BY <1>1, <1>4, <1>7, <3>1
  <2> HIDE DEF other, r, l
  <2> QED
    BY <2>1, <2>2
<1>10. w.kind \in {"closed", "queued", "active"} /\ w.since \in Nat
  BY <1>1 DEF Telemetry!Windows
<1>11. W \in Nat /\ V \in Nat /\ W + V = from + to + (IF w.kind = "closed" THEN 0 ELSE t - w.since)
  <2>1. t - w.since \in Nat
    BY <1>1, <1>10
  <2>2. /\ W = IF w.kind = "queued" THEN t - w.since + from ELSE from
        /\ V = IF w.kind = "active" THEN t - w.since + to ELSE to
    BY DEF Telemetry!Waited, Telemetry!Served
  <2> HIDE DEF W, V, n, l, r, other
  <2>3. CASE w.kind = "closed"
    BY <1>1, <2>1, <2>2, <2>3
  <2>4. CASE w.kind = "queued"
    BY <1>1, <2>1, <2>2, <2>4
  <2>5. CASE w.kind = "active"
    BY <1>1, <2>1, <2>2, <2>5
  <2> QED
    BY <1>10, <2>3, <2>4, <2>5
<1> HIDE DEF n, l, r, other, W, V
<1>12. Telemetry!Total(other, DOMAIN other) = t
  BY <1>2, <1>3, <1>4, <1>7, <1>9
<1>13. w.kind # "closed" <=> n \in Telemetry!Provider(list)
  BY <1>1 DEF Telemetry!IsOpen, n
<1>14. Telemetry!Total(other, Telemetry!Provider(other)) = W + V
  <2>1. Telemetry!Total(other, Telemetry!Provider(other)) =
          from + (to + IF w.kind = "closed" THEN 0 ELSE l.at - w.since)
            + (IF w.kind = "closed" THEN 0 ELSE t - l.at)
    BY <1>2, <1>9, <1>13
  <2>2. t - w.since \in Int /\ l.at - w.since \in Int /\ t - l.at \in Int
    BY SMTT(20), <1>1, <1>4, <1>10
  <2>3. CASE w.kind = "closed"
    BY <1>1, <1>11, <2>1, <2>3
  <2>4. CASE w.kind # "closed"
    <3>0. from \in Int /\ to \in Int /\ l.at \in Int /\ w.since \in Int /\ t \in Int
      BY <1>1, <1>4, <1>10
    <3>1. from + (to + (l.at - w.since)) + (t - l.at) = from + to + (t - w.since)
      <4> DEFINE at == l.at
                 since == w.since
      <4>1. at \in Int /\ since \in Int
        BY <3>0
      <4> HIDE DEF at, since
      <4>2. from + (to + (at - since)) + (t - at) = from + to + (t - since)
        BY ONLY <3>0, <4>1
      <4> QED
        BY <4>2 DEF at, since
    <3>2. W + V = from + to + (t - w.since)
      BY <1>11, <2>4
    <3>3. Telemetry!Total(other, Telemetry!Provider(other)) =
            from + (to + (l.at - w.since)) + (t - l.at)
      BY <2>1, <2>4
    <3> QED
      BY <3>1, <3>2, <3>3
  <2> QED
    BY <2>3, <2>4
<1>15. Telemetry!IsOpen(w, other)
  BY <1>6, <1>9, <1>13 DEF Telemetry!IsOpen
<1>16. Telemetry!Accounts(other, t, W, V)
  BY <1>1, <1>6, <1>12, <1>14 DEF Telemetry!Accounts
<1>17. Telemetry!Last(other).at <= t
  <2>1. Telemetry!Last(other) = r /\ r.at <= now /\ r.at \in Nat
    BY <1>1, <1>4, <1>6, <1>7 DEF Telemetry!Last
  <2> QED
    BY <1>1, <2>1
<1> QED
  BY <1>6, <1>11, <1>15, <1>16, <1>17 DEF UpTo, n, other, W, V

LEMMA TelemetryAlone == part = "telemetry" /\ PartsNext => Telemetry!TelemetryNext
BY DEF PartsNext, OpenDatabase, InstallHook, SetUpAgent, ChoosePreference,
  FindStateRoot, KeepFindings, SuggestDuplicate, SummariseFindings, GatherContext,
  ReadDiff, ReadDocument, PublishFindings, RecordTelemetry, RunCommand, CheckProtocol,
  ScoreCase, RunEvaluation, RunVerification, Runs, Rest

(* The first phase has taken no time, and is not the provider's.            *)
LEMMA TelemetryStarts ==
  ASSUME Telemetry!TelemetryInit
  PROVE  Telemetry!TelemetryFits
<1> DEFINE r == [phase |-> "context-build", attempt |-> 0, at |-> 0, lasted |-> 0]
           list == <<r>>
<1>1. s1 = 0 /\ s2 = list /\ s3 = Telemetry!Closed /\ s4 = 0 /\ s5 = 0 /\ s7 = FALSE /\ s9 = "running"
  BY DEF Telemetry!TelemetryInit
<1>2. s8 = [at |-> 0, lived |-> 0, phases |-> list, window |-> Telemetry!Closed, waited |-> 0, served |-> 0]
  BY DEF Telemetry!TelemetryInit
<1>3. r \in Telemetry!Transition /\ r.phase = "context-build" /\ r.at = 0 /\ r.lasted = 0
  BY DEF Telemetry!Transition, Telemetry!Phases
<1>4. /\ list \in Seq(Telemetry!Transition) /\ Len(list) = 1 /\ list[1] = r
      /\ DOMAIN list = 1..1 /\ 1..1 = {1}
  BY <1>3
<1> HIDE DEF r, list
<1>5. Telemetry!Provider(list) = {}
  BY <1>3, <1>4 DEF Telemetry!Provider
<1>6. ASSUME NEW S PROVE Telemetry!Total(list, S) = 0
  <2> DEFINE f == Telemetry!Sums(list, S)
             g == Part(list, S)
  <2>1. Summed(f, 1, g) /\ g[1] = IF 1 \in S THEN list[1].lasted ELSE 0
    <3>1. /\ Summed(f, Len(list), g)
          /\ \A i \in 1 .. Len(list) : g[i] = IF i \in S THEN list[i].lasted ELSE 0
      BY <1>4, SumsAre
    <3> HIDE DEF f, g
    <3> QED
      BY <1>4, <3>1
  <2>2. Telemetry!Total(list, S) = f[1]
    BY <1>4 DEF Telemetry!Total
  <2> HIDE DEF f, g
  <2>3. f[1] = f[0] + g[1] /\ f[0] = 0
    <3>1. f[1] = f[1 - 1] + g[1]
      BY <2>1, SumGoesOn
    <3> QED
      BY <2>1, <3>1 DEF Summed
  <2> QED
    BY <1>3, <1>4, <2>1, <2>2, <2>3
<1>7. Telemetry!Accounts(list, 0, 0, 0) /\ Telemetry!IsOpen(Telemetry!Closed, list)
  BY <1>4, <1>5, <1>6 DEF Telemetry!Accounts, Telemetry!IsOpen, Telemetry!Closed
<1>8. /\ Telemetry!Closed \in Telemetry!Windows /\ Telemetry!Closed.kind = "closed"
      /\ Telemetry!Closed.since = 0
  BY DEF Telemetry!Closed, Telemetry!Windows
<1>9. Telemetry!GoesOn(list, Telemetry!Closed, 0, 0, 0)
  BY <1>3, <1>4, <1>7, <1>8 DEF Telemetry!GoesOn, Telemetry!Last
<1>10. Telemetry!TrackerFits
  BY <1>1, <1>9 DEF Telemetry!TrackerFits
<1>11. Telemetry!KeptFits
  <2>1. Telemetry!Span(s8) = 0 /\ Telemetry!Last(list).at <= 0
    BY <1>2, <1>3, <1>4 DEF Telemetry!Span, Telemetry!Last
  <2> QED
    BY <1>2, <1>7, <1>8, <2>1 DEF Telemetry!KeptFits
<1> QED
  BY <1>10, <1>11 DEF Telemetry!TelemetryFits

(* Whether it is kept or not, the record of an attempt that goes on fits.   *)
LEMMA AnyRecordFits ==
  ASSUME Telemetry!KeptFits, NEW t \in Nat, Telemetry!MayKeep(t),
         s9' = s9, s7' = FALSE, Telemetry!GoesOn(s2', s3', s4', s5', t)
  PROVE  Telemetry!KeptFits'
<1>1. CASE s8' = s8
  BY <1>1 DEF Telemetry!KeptFits
<1>2. CASE s8' # s8
  <2> DEFINE list == Telemetry!Lasting(s2', t)
             W == Telemetry!Waited(s3', s4', t)
             V == Telemetry!Served(s3', s5', t)
  <2>1. /\ Telemetry!Accounts(list, t, W, V) /\ Telemetry!IsOpen(s3', list)
        /\ W \in Nat /\ V \in Nat /\ Telemetry!Last(list).at <= t
    <3>1. UpTo(s2', s3', s4', s5', t)
      BY MomentIsAccounted
    <3> QED
      BY <3>1 DEF UpTo
  <2>2. s3' \in Telemetry!Windows
    BY DEF Telemetry!GoesOn
  <2>3. s8' = [at |-> t, lived |-> t, phases |-> list, window |-> s3', waited |-> W, served |-> V]
    BY <1>2 DEF Telemetry!MayKeep, Telemetry!Snapshot
  <2> HIDE DEF list, W, V
  <2>4. Telemetry!Span(s8') = t
    BY <2>3 DEF Telemetry!Span
  <2> QED
    BY <2>1, <2>2, <2>3, <2>4 DEF Telemetry!KeptFits
<1> QED
  BY <1>1, <1>2

LEMMA PhaseIsRecorded ==
  ASSUME Telemetry!TelemetryFits, Telemetry!RecordPhase
  PROVE  Telemetry!TelemetryFits'
<1>1. PICK phase \in Telemetry!Phases, t \in 0..MaxTime :
        \E attempt \in IF phase = "turn-start" THEN {1, 2} ELSE {0} :
          /\ t \in s1..MaxTime /\ s1' = t
          /\ Telemetry!Entered(phase, attempt, t)
          /\ Telemetry!MayKeep(t)
  BY DEF Telemetry!RecordPhase, Telemetry!Read
<1>2. PICK attempt \in IF phase = "turn-start" THEN {1, 2} ELSE {0} :
          /\ t \in s1..MaxTime /\ s1' = t
          /\ Telemetry!Entered(phase, attempt, t)
          /\ Telemetry!MayKeep(t)
  BY <1>1
<1>3. s7 = FALSE /\ s7' = FALSE /\ s9' = s9
  BY DEF Telemetry!RecordPhase, Telemetry!TelemetryFits, Telemetry!TrackerFits
<1>4. Telemetry!GoesOn(s2, s3, s4, s5, s1) /\ Telemetry!KeptFits
  BY <1>3 DEF Telemetry!TelemetryFits, Telemetry!TrackerFits
<1>5. s1 \in Nat /\ t \in Nat /\ s1 <= t /\ attempt \in Nat
  BY <1>1, <1>2, <1>4 DEF Telemetry!GoesOn
<1>25. /\ Telemetry!Accounts(Telemetry!Lasting(s2, t), t,
                             Telemetry!Waited(s3, s4, t), Telemetry!Served(s3, s5, t))
       /\ Telemetry!IsOpen(s3, Telemetry!Lasting(s2, t))
       /\ Telemetry!Waited(s3, s4, t) \in Nat /\ Telemetry!Served(s3, s5, t) \in Nat
       /\ Telemetry!Waited(s3, s4, t) + Telemetry!Served(s3, s5, t) =
            s4 + s5 + (IF s3.kind = "closed" THEN 0 ELSE t - s3.since)
  <2>1. UpTo(s2, s3, s4, s5, t)
    BY <1>4, <1>5, MomentIsAccounted
  <2> QED
    BY <2>1 DEF UpTo
<1> DEFINE list == Telemetry!Lasting(s2, t)
           n == Len(list)
           r == [phase |-> phase, attempt |-> attempt, at |-> t, lasted |-> 0]
           other == Append(list, r)
           W == Telemetry!Waited(s3, s4, t)
           V == Telemetry!Served(s3, s5, t)
<1>6. /\ Telemetry!Accounts(list, t, W, V) /\ Telemetry!IsOpen(s3, list)
      /\ W \in Nat /\ V \in Nat
      /\ W + V = s4 + s5 + (IF s3.kind = "closed" THEN 0 ELSE t - s3.since)
  BY <1>25
<1>7. r \in Telemetry!Transition /\ r.phase = phase /\ r.at = t /\ r.lasted = 0
  BY <1>5 DEF Telemetry!Transition
<1>8. /\ s2' = other
      /\ IF phase = "turn-start" \/ phase \in Telemetry!Closing
           THEN /\ s3' = IF phase = "turn-start"
                           THEN [kind |-> "queued", attempt |-> attempt, since |-> t]
                           ELSE Telemetry!Closed
                /\ s4' = W /\ s5' = V
           ELSE s3' = s3 /\ s4' = s4 /\ s5' = s5
  BY <1>2 DEF Telemetry!Entered
<1>9. /\ list \in Seq(Telemetry!Transition) /\ n # 0 /\ n \in Nat
      /\ Telemetry!Total(list, DOMAIN list) = t /\ DOMAIN list = 1..n
      /\ Telemetry!Total(list, Telemetry!Provider(list)) = W + V
      /\ s3.kind # "closed" <=> n \in Telemetry!Provider(list)
  <2> HIDE DEF list, W, V
  <2> QED
    BY <1>6 DEF Telemetry!Accounts, Telemetry!IsOpen
<1>10. s3 \in Telemetry!Windows /\ s3.since <= s1 /\ s4 \in Nat /\ s5 \in Nat /\ s3.since \in Nat
  <2>1. s3 \in Telemetry!Windows /\ s3.since <= s1 /\ s4 \in Nat /\ s5 \in Nat
    BY <1>4 DEF Telemetry!GoesOn
  <2> QED
    BY <2>1 DEF Telemetry!Windows
<1> HIDE DEF list, r, W, V
<1>11. /\ other \in Seq(Telemetry!Transition) /\ Len(other) = n + 1 /\ other[n + 1] = r
       /\ DOMAIN other = 1 .. n + 1
  BY <1>7, <1>9
<1>12. Telemetry!Total(other, DOMAIN other) = t
  <2>1. \A i \in 1..n : i \in DOMAIN list <=> i \in DOMAIN other
    BY <1>9, <1>11
  <2>2. Telemetry!Total(other, DOMAIN other) =
          Telemetry!Total(list, DOMAIN list) + (IF n + 1 \in DOMAIN other THEN r.lasted ELSE 0)
    <3> HIDE DEF other
    <3> QED
      BY <1>7, <1>9, <2>1, TransitionIsAdded DEF other
  <2> QED
    BY <1>5, <1>7, <1>9, <2>2
<1>13. \A i \in 1..n : i \in Telemetry!Provider(list) <=> i \in Telemetry!Provider(other)
  BY <1>7, <1>9, TransitionIsAdded
<1>14. n + 1 \in Telemetry!Provider(other) <=>
         \/ phase = "turn-start"
         \/ n \in Telemetry!Provider(list) /\ phase \notin Telemetry!Closing
  BY <1>7, <1>9, TransitionIsAdded
<1>15. Telemetry!Total(other, Telemetry!Provider(other)) = W + V
  <2>1. Telemetry!Total(other, Telemetry!Provider(other)) =
          Telemetry!Total(list, Telemetry!Provider(list))
            + (IF n + 1 \in Telemetry!Provider(other) THEN r.lasted ELSE 0)
    BY <1>7, <1>9, <1>13, TransitionIsAdded
  <2> QED
    BY <1>6, <1>7, <1>9, <2>1
<1>16. "turn-start" \notin Telemetry!Closing
  BY DEF Telemetry!Closing
<1> DEFINE v == s3'
<1>17. /\ v \in Telemetry!Windows /\ v.since <= t
       /\ v.kind # "closed" <=> n + 1 \in Telemetry!Provider(other)
       /\ s4' \in Nat /\ s5' \in Nat
       /\ W + V = s4' + (s5' + IF v.kind = "closed" THEN 0 ELSE t - v.since)
  <2>1. CASE phase = "turn-start"
    <3>1. v = [kind |-> "queued", attempt |-> attempt, since |-> t] /\ s4' = W /\ s5' = V
      BY <1>8, <2>1
    <3>2. v.kind = "queued" /\ v.since = t /\ v \in Telemetry!Windows
      BY <1>5, <3>1 DEF Telemetry!Windows
    <3> HIDE DEF v, other
    <3> QED
      BY <1>5, <1>6, <1>14, <2>1, <3>1, <3>2
  <2>2. CASE phase \in Telemetry!Closing
    <3>1. v = Telemetry!Closed /\ s4' = W /\ s5' = V
      BY <1>8, <1>16, <2>2
    <3>2. v.kind = "closed" /\ v.since = 0 /\ v \in Telemetry!Windows
      BY <3>1 DEF Telemetry!Windows, Telemetry!Closed
    <3> HIDE DEF v, other
    <3> QED
      BY <1>5, <1>6, <1>14, <1>16, <2>2, <3>1, <3>2
  <2>3. CASE phase # "turn-start" /\ phase \notin Telemetry!Closing
    <3>1. v = s3 /\ s4' = s4 /\ s5' = s5
      BY <1>8, <2>3
    <3> HIDE DEF v, other
    <3> QED
      BY SMTT(20), <1>5, <1>6, <1>9, <1>10, <1>14, <2>3, <3>1
  <2> QED
    BY <2>1, <2>2, <2>3
<1>18. Telemetry!GoesOn(other, v, s4', s5', t)
  <2>1. Telemetry!Last(other) = r
    BY <1>11 DEF Telemetry!Last
  <2>2. Telemetry!Accounts(other, t, s4', s5' + IF v.kind = "closed" THEN 0 ELSE t - v.since)
    <3> HIDE DEF v, other, n
    <3> QED
      BY <1>9, <1>11, <1>12, <1>15, <1>17 DEF Telemetry!Accounts
  <2>3. Telemetry!IsOpen(v, other)
    <3> HIDE DEF v, other
    <3> QED
      BY <1>11, <1>17 DEF Telemetry!IsOpen
  <2> HIDE DEF v, other
  <2> QED
    BY <1>5, <1>7, <1>17, <2>1, <2>2, <2>3 DEF Telemetry!GoesOn
<1>19. Telemetry!GoesOn(s2', s3', s4', s5', t)
  BY <1>8, <1>18
<1>20. Telemetry!TrackerFits'
  BY <1>2, <1>3, <1>19 DEF Telemetry!TrackerFits
<1>21. Telemetry!KeptFits'
  BY <1>2, <1>3, <1>4, <1>5, <1>19, AnyRecordFits
<1> QED
  BY <1>20, <1>21 DEF Telemetry!TelemetryFits

LEMMA ActivityIsRecorded ==
  ASSUME Telemetry!TelemetryFits, Telemetry!RecordActivity
  PROVE  Telemetry!TelemetryFits'
<1>1. PICK t \in 0..MaxTime :
          /\ t \in s1..MaxTime /\ s1' = t /\ Telemetry!MayKeep(t)
          /\ IF s3.kind = "queued"
               THEN s4' = s4 + t - s3.since /\ s3' = [s3 EXCEPT !.kind = "active", !.since = t]
               ELSE s4' = s4 /\ s3' = s3
          /\ s2' = s2 /\ s5' = s5
  BY DEF Telemetry!RecordActivity, Telemetry!Read
<1>2. s7 = FALSE /\ s7' = FALSE /\ s9' = s9
  BY DEF Telemetry!RecordActivity, Telemetry!TelemetryFits, Telemetry!TrackerFits
<1>3. Telemetry!GoesOn(s2, s3, s4, s5, s1) /\ Telemetry!KeptFits
  BY <1>2 DEF Telemetry!TelemetryFits, Telemetry!TrackerFits
<1>4. s1 \in Nat /\ t \in Nat /\ s1 <= t
  BY <1>1, <1>3 DEF Telemetry!GoesOn
<1> DEFINE l == Telemetry!Last(s2)
<1>5. /\ s3 \in Telemetry!Windows /\ s3.since <= s1 /\ s4 \in Nat /\ s5 \in Nat
      /\ l.at <= s1 /\ l.lasted = 0
  BY <1>3 DEF Telemetry!GoesOn
<1>6. /\ s2 \in Seq(Telemetry!Transition) /\ Len(s2) # 0
      /\ Telemetry!Total(s2, DOMAIN s2) = l.at
      /\ Telemetry!Total(s2, Telemetry!Provider(s2)) =
           s4 + (s5 + IF s3.kind = "closed" THEN 0 ELSE l.at - s3.since)
      /\ s3.kind # "closed" <=> Len(s2) \in Telemetry!Provider(s2)
  BY <1>3 DEF Telemetry!GoesOn, Telemetry!Accounts, Telemetry!IsOpen
<1>7. l.at \in Nat
  <2>1. s2[Len(s2)] \in Telemetry!Transition
    BY <1>6
  <2> QED
    BY <2>1 DEF Telemetry!Last, Telemetry!Transition
<1>8. s3.since \in Nat /\ s3.kind \in {"closed", "queued", "active"}
  BY <1>5 DEF Telemetry!Windows
<1> DEFINE v == s3'
<1>9. /\ v \in Telemetry!Windows /\ v.since <= t /\ v.since \in Nat /\ s4' \in Nat
      /\ v.kind # "closed" <=> s3.kind # "closed"
      /\ s4' + (s5 + IF v.kind = "closed" THEN 0 ELSE l.at - v.since) =
           s4 + (s5 + IF s3.kind = "closed" THEN 0 ELSE l.at - s3.since)
  <2> HIDE DEF l
  <2>1. CASE s3.kind = "queued"
    <3>1. v.kind = "active" /\ v.since = t /\ v \in Telemetry!Windows /\ s4' = s4 + t - s3.since
      BY <1>1, <1>4, <1>5, <2>1 DEF Telemetry!Windows
    <3> HIDE DEF v
    <3> QED
      BY <1>4, <1>5, <1>7, <1>8, <2>1, <3>1
  <2>2. CASE s3.kind # "queued"
    <3>1. v = s3 /\ s4' = s4
      BY <1>1, <2>2
    <3> HIDE DEF v
    <3> QED
      BY <1>4, <1>5, <1>8, <3>1
  <2> QED
    BY <2>1, <2>2
<1>10. Telemetry!GoesOn(s2, v, s4', s5, t)
  <2> HIDE DEF v, l
  <2>1. Telemetry!Accounts(s2, l.at, s4', s5 + IF v.kind = "closed" THEN 0 ELSE l.at - v.since)
    BY <1>6, <1>9 DEF Telemetry!Accounts
  <2>2. Telemetry!IsOpen(v, s2)
    BY <1>6, <1>9 DEF Telemetry!IsOpen
  <2>3. l.at <= t
    BY <1>4, <1>5, <1>7
  <2> QED
    BY <1>4, <1>5, <1>9, <2>1, <2>2, <2>3 DEF Telemetry!GoesOn, l
<1>11. Telemetry!GoesOn(s2', s3', s4', s5', t)
  BY <1>1, <1>10
<1>12. Telemetry!TrackerFits'
  BY <1>1, <1>2, <1>11 DEF Telemetry!TrackerFits
<1>13. Telemetry!KeptFits'
  BY <1>1, <1>2, <1>3, <1>4, <1>11, AnyRecordFits
<1> QED
  BY <1>12, <1>13 DEF Telemetry!TelemetryFits

(* The terminal event closes the window; the record then accounts for all.  *)
LEMMA TerminalIsRecorded ==
  ASSUME Telemetry!TelemetryFits, Telemetry!RecordTerminal
  PROVE  Telemetry!TelemetryFits'
<1>1. PICK t \in 0..MaxTime :
          /\ t \in s1..MaxTime /\ s2' = Telemetry!Lasting(s2, t)
          /\ s4' = Telemetry!Waited(s3, s4, t) /\ s5' = Telemetry!Served(s3, s5, t)
          /\ s3' = Telemetry!Closed
          /\ \/ s8' = Telemetry!Snapshot(t)' /\ s9' = "done"
             \/ s8' = s8 /\ s9' = s9
  BY DEF Telemetry!RecordTerminal, Telemetry!Read
<1>2. s7 = FALSE /\ s7' = TRUE
  BY DEF Telemetry!RecordTerminal, Telemetry!TelemetryFits, Telemetry!TrackerFits
<1>3. Telemetry!GoesOn(s2, s3, s4, s5, s1) /\ Telemetry!KeptFits
  BY <1>2 DEF Telemetry!TelemetryFits, Telemetry!TrackerFits
<1>4. s1 \in Nat /\ t \in Nat /\ s1 <= t
  BY <1>1, <1>3 DEF Telemetry!GoesOn
<1>5. Telemetry!Accounts(s2', t, s4', s5') /\ s4' \in Nat /\ s5' \in Nat
  <2>1. UpTo(s2, s3, s4, s5, t)
    BY <1>3, <1>4, MomentIsAccounted
  <2> QED
    BY <1>1, <2>1 DEF UpTo
<1>6. Telemetry!TrackerFits'
  BY <1>2 DEF Telemetry!TrackerFits
<1>7. Telemetry!KeptFits'
  <2>1. CASE s8' = Telemetry!Snapshot(t)' /\ s9' = "done"
    <3>1. Telemetry!Waited(Telemetry!Closed, s4', t) = s4' /\ Telemetry!Served(Telemetry!Closed, s5', t) = s5'
      BY DEF Telemetry!Waited, Telemetry!Served, Telemetry!Closed
    <3>2. s8' = [at |-> t, lived |-> t, phases |-> s2', window |-> s3', waited |-> s4', served |-> s5']
      BY <1>1, <1>2, <2>1, <3>1 DEF Telemetry!Snapshot
    <3>3. Telemetry!Span(s8') = t
      BY <3>2 DEF Telemetry!Span
    <3> QED
      BY <1>4, <1>5, <2>1, <3>2, <3>3 DEF Telemetry!KeptFits
  <2>2. CASE s8' = s8 /\ s9' = s9
    BY <1>3, <2>2 DEF Telemetry!KeptFits
  <2> QED
    BY <1>1, <2>1, <2>2
<1> QED
  BY <1>6, <1>7 DEF Telemetry!TelemetryFits

(* Whatever its clock says, another process accounts for all it adds.       *)
LEMMA RecordIsFinished ==
  ASSUME Telemetry!TelemetryFits, Telemetry!Sweep
  PROVE  Telemetry!TelemetryFits'
<1>1. PICK t \in -MaxTime..MaxTime : s8' = Telemetry!FinishedAt(s8, t)
  BY DEF Telemetry!Sweep
<1>2. s9 = "gone" /\ s9' = "done" /\ s1' = s1 /\ s2' = s2 /\ s3' = s3 /\ s4' = s4 /\ s5' = s5 /\ s7' = s7
  BY DEF Telemetry!Sweep
<1>3. Telemetry!TrackerFits'
  BY <1>2 DEF Telemetry!TelemetryFits, Telemetry!TrackerFits
<1> DEFINE list == s8.phases
           n == Len(list)
           end == IF t > Telemetry!Last(list).at THEN t ELSE Telemetry!Last(list).at
           more == IF end > s8.at THEN end - s8.at ELSE 0
           l == list[n]
           r == [l EXCEPT !.lasted = @ + more]
           other == [i \in DOMAIN list |-> IF i = n THEN r ELSE list[i]]
<1>4. /\ s8.at \in Nat /\ s8.at = s8.lived /\ s8.waited \in Nat /\ s8.served \in Nat
      /\ list \in Seq(Telemetry!Transition) /\ n # 0 /\ Telemetry!Last(list).at <= s8.at
      /\ Telemetry!Total(list, DOMAIN list) = s8.at
      /\ Telemetry!Total(list, Telemetry!Provider(list)) = s8.waited + s8.served
      /\ s8.window \in Telemetry!Windows
      /\ s8.window.kind # "closed" <=> n \in Telemetry!Provider(list)
  <2>1. s8.at \in Nat /\ s8.at = s8.lived /\ Telemetry!Span(s8) = s8.at
    BY <1>2 DEF Telemetry!TelemetryFits, Telemetry!KeptFits, Telemetry!Span
  <2> QED
    BY <1>2, <2>1 DEF Telemetry!TelemetryFits, Telemetry!KeptFits, Telemetry!Accounts, Telemetry!IsOpen
<1>5. n \in Nat /\ DOMAIN list = 1..n /\ l \in Telemetry!Transition
      /\ \A i \in 1..n : list[i] \in Telemetry!Transition
  BY <1>4
<1>6. l.at \in Nat /\ l.lasted \in Nat
  <2> HIDE DEF l
  <2> QED
    BY <1>5 DEF Telemetry!Transition
<1>7. more \in Nat
  <2>1. t \in Int /\ Telemetry!Last(list) = l
    BY DEF Telemetry!Last
  <2>2. end \in Int
    <3> HIDE DEF l
    <3> QED
      BY <1>6, <2>1
  <2> HIDE DEF end
  <2> QED
    BY <1>4, <2>2
<1>8. r \in Telemetry!Transition /\ r.phase = l.phase /\ r.lasted = l.lasted + more
  <2> HIDE DEF l, more
  <2> QED
    BY <1>5, <1>6, <1>7 DEF Telemetry!Transition
<1>9. s8' = [at |-> t, lived |-> s8.lived, phases |-> other, window |-> Telemetry!Closed,
             waited |-> s8.waited + (IF s8.window.kind = "queued" THEN more ELSE 0),
             served |-> s8.served + (IF s8.window.kind = "active" THEN more ELSE 0)]
  BY <1>1 DEF Telemetry!FinishedAt
<1>20. s8.at + more = IF t > s8.lived THEN t ELSE s8.lived
  <2>1. t \in Int /\ Telemetry!Last(list) = l
    BY DEF Telemetry!Last
  <2> HIDE DEF list, l
  <2> QED
    BY <1>4, <1>6, <2>1
<1> HIDE DEF more, r
<1>10. /\ other \in Seq(Telemetry!Transition) /\ Len(other) = n /\ DOMAIN other = 1..n
       /\ other[n] = r /\ \A i \in 1..n : i # n => other[i] = list[i]
  <2> HIDE DEF n, l, list
  <2> QED
    BY <1>4, <1>5, <1>8
<1> HIDE DEF other
<1>11. /\ \A i \in 1..n : other[i].phase = list[i].phase
       /\ \A i \in 1 .. n - 1 : other[i].lasted = list[i].lasted
       /\ other[n].lasted - list[n].lasted = more
  <2>1. l = list[n]
    BY Zenon
  <2> HIDE DEF n, l, list
  <2> QED
    BY SMTT(20), <1>4, <1>5, <1>6, <1>7, <1>8, <1>10, <2>1
<1>12. ASSUME NEW S
       PROVE  /\ Telemetry!Provider(other) = Telemetry!Provider(list)
              /\ Telemetry!Total(other, S) = Telemetry!Total(list, S) + (IF n \in S THEN more ELSE 0)
  <2> HIDE DEF list
  <2> QED
    BY ZenonT(40), <1>4, <1>10, <1>11, LastIsRelasted
<1> DEFINE W == s8.waited + (IF s8.window.kind = "queued" THEN more ELSE 0)
           V == s8.served + (IF s8.window.kind = "active" THEN more ELSE 0)
<1> HIDE DEF n, l, list
<1>13. s8.window.kind \in {"closed", "queued", "active"}
  BY <1>4 DEF Telemetry!Windows
<1>14. W \in Nat /\ V \in Nat
       /\ W + V = s8.waited + s8.served + (IF s8.window.kind = "closed" THEN 0 ELSE more)
  BY SMTT(20), <1>4, <1>7, <1>13
<1>15. Telemetry!Total(other, DOMAIN other) = s8.at + more
  BY <1>4, <1>5, <1>10, <1>12
<1>16. Telemetry!Total(other, Telemetry!Provider(other)) = W + V
  <2> HIDE DEF W, V
  <2> QED
    BY <1>4, <1>7, <1>12, <1>14
<1>17. Telemetry!Accounts(other, s8.at + more, W, V)
  <2> HIDE DEF W, V
  <2> QED
    BY <1>4, <1>10, <1>15, <1>16 DEF Telemetry!Accounts
<1>18. Telemetry!KeptFits'
  <2>1. s8.at + more \in Nat
    BY <1>4, <1>7
  <2>2. s8' = [at |-> t, lived |-> s8.lived, phases |-> other, window |-> Telemetry!Closed, waited |-> W, served |-> V]
    BY <1>9
  <2> HIDE DEF W, V
  <2>3. Telemetry!Span(s8') = s8.at + more
    BY <1>20, <2>2 DEF Telemetry!Span
  <2> QED
    BY <1>2, <1>4, <1>14, <1>17, <2>1, <2>2, <2>3 DEF Telemetry!KeptFits
<1> QED
  BY <1>3, <1>18 DEF Telemetry!TelemetryFits

LEMMA TelemetryKeeps ==
  ASSUME Telemetry!TelemetryFits, Telemetry!TelemetryNext
  PROVE  Telemetry!TelemetryFits'
<1>1. CASE Telemetry!Die
  BY <1>1 DEF Telemetry!Die, Telemetry!TelemetryFits, Telemetry!TrackerFits, Telemetry!KeptFits
<1> QED
  BY <1>1, PhaseIsRecorded, ActivityIsRecorded, TerminalIsRecorded, RecordIsFinished
  DEF Telemetry!TelemetryNext

TelemetryInv == part = "telemetry" => Telemetry!TelemetryFits

LEMMA TelemetryInductive == PartsSpec => []TelemetryInv
<1>1. PartsInit => TelemetryInv
  BY TelemetryStarts DEF PartsInit, TelemetryInv
<1>2. TelemetryInv /\ [PartsNext]_partsVars => TelemetryInv'
  <2>1. ASSUME TelemetryInv, PartsNext
        PROVE  TelemetryInv'
    BY <2>1, PartStays, TelemetryAlone, TelemetryKeeps DEF TelemetryInv
  <2>2. ASSUME TelemetryInv, UNCHANGED partsVars
        PROVE  TelemetryInv'
    <3>1. /\ s1' = s1 /\ s2' = s2 /\ s3' = s3 /\ s4' = s4 /\ s5' = s5
          /\ s7' = s7 /\ s8' = s8 /\ s9' = s9 /\ part' = part
      BY <2>2 DEF partsVars
    <3>2. Telemetry!TelemetryFits => Telemetry!TelemetryFits'
      BY <3>1 DEF Telemetry!TelemetryFits, Telemetry!TrackerFits, Telemetry!KeptFits
    <3> QED
      BY <2>2, <3>1, <3>2 DEF TelemetryInv
  <2> QED
    BY <2>1, <2>2
<1> QED
  BY <1>1, <1>2, PTL DEF PartsSpec

(* The record of an attempt accounts for every moment of it once, wherever  *)
(* the process was killed: up to the recorded end, or up to the last sign   *)
(* of life where the clock that finished it was behind and put down an      *)
(* earlier end (TimeIsWhole; src/review/execution-telemetry.ts:130).        *)
THEOREM TimeIsAccounted == PartsSpec => []TimeIsWhole
<1>1. Telemetry!TelemetryFits => Telemetry!TimeAddsUp
  <2>1. SUFFICES ASSUME Telemetry!TelemetryFits PROVE Telemetry!TimeAddsUp
    OBVIOUS
  <2> DEFINE list == s8.phases
  <2>2. /\ list \in Seq(Telemetry!Transition)
        /\ Telemetry!Total(list, DOMAIN list) = Telemetry!Span(s8)
        /\ Telemetry!Total(list, Telemetry!Provider(list)) = s8.waited + s8.served
    BY <2>1 DEF Telemetry!TelemetryFits, Telemetry!KeptFits, Telemetry!Accounts
  <2>3. ASSUME NEW i \in DOMAIN list PROVE list[i].lasted >= 0
    <3>1. list[i] \in Telemetry!Transition
      BY <2>2
    <3> HIDE DEF list
    <3> QED
      BY <3>1 DEF Telemetry!Transition
  <2> QED
    BY <2>2, <2>3 DEF Telemetry!TimeAddsUp
<1>2. TelemetryInv => TimeIsWhole
  BY <1>1 DEF TelemetryInv, TimeIsWhole
<1> QED
  BY <1>2, TelemetryInductive, PTL

-----------------------------------------------------------------------------
(* The findings of an answer                                                *)

LEMMA AnswerCounts == ASSUME NEW S PROVE Answer!Cardinality(S) = Cardinality(S)
BY DEF Answer!Cardinality, Cardinality

(* The places of a set have one rank each.                                  *)
LEMMA PlacesAreRanked ==
  ASSUME NEW m \in Nat, NEW at \in SUBSET (1..m)
  PROVE  /\ IsFiniteSet(at) /\ Cardinality(at) \in Nat
         /\ \A n \in 1 .. Cardinality(at) : Answer!Place(at, n) \in at
         /\ \A n, k \in 1 .. Cardinality(at) : Answer!Place(at, n) = Answer!Place(at, k) => n = k
         /\ \A i \in at : \E n \in 1 .. Cardinality(at) : Answer!Place(at, n) = i
<1> DEFINE c == Cardinality(at)
           Up(i) == {j \in at : j <= i}
           r == [i \in at |-> Cardinality(Up(i))]
<1>1. IsFiniteSet(at) /\ c \in Nat
  <2>1. IsFiniteSet(1..m)
    BY FS_Interval
  <2>2. IsFiniteSet(at)
    BY <2>1, FS_Subset
  <2> QED
    BY <2>2, FS_CardinalityType
<1>2. ASSUME NEW i \in at
      PROVE  IsFiniteSet(Up(i)) /\ Cardinality(Up(i)) \in 1..c
  <2>1. Up(i) \subseteq at /\ i \in Up(i)
    OBVIOUS
  <2> HIDE DEF Up
  <2>2. IsFiniteSet(Up(i)) /\ Cardinality(Up(i)) <= c
    BY <1>1, <2>1, FS_Subset
  <2>3. Cardinality(Up(i)) \in Nat /\ Cardinality(Up(i)) # 0
    BY <2>1, <2>2, FS_CardinalityType, FS_EmptySet
  <2> HIDE DEF c
  <2> QED
    BY <1>1, <2>2, <2>3
<1>3. ASSUME NEW i \in at, NEW j \in at, i < j
      PROVE  Cardinality(Up(i)) < Cardinality(Up(j))
  <2>1. Up(i) \subseteq Up(j) /\ j \in Up(j) /\ j \notin Up(i)
    <3>1. i \in Int /\ j \in Int /\ \A k \in at : k \in Int
      OBVIOUS
    <3>2. j <= j /\ ~(j <= i) /\ \A k \in at : k <= i => k <= j
      BY <1>3, <3>1
    <3> QED
      BY <3>2
  <2>2. IsFiniteSet(Up(i)) /\ IsFiniteSet(Up(j))
    BY <1>2
  <2> HIDE DEF Up
  <2>3. Cardinality(Up(i)) <= Cardinality(Up(j)) /\ Cardinality(Up(i)) # Cardinality(Up(j))
    BY <2>1, <2>2, FS_Subset
  <2>4. Cardinality(Up(i)) \in Nat /\ Cardinality(Up(j)) \in Nat
    BY <2>2, FS_CardinalityType
  <2> QED
    BY <2>3, <2>4
<1>4. r \in Injection(at, 1..c)
  <2>1. ASSUME NEW i \in at, NEW j \in at, Cardinality(Up(i)) = Cardinality(Up(j)) PROVE i = j
    <3>1. ~(i < j) /\ ~(j < i)
      <4>1. Cardinality(Up(i)) \in 1..c /\ Cardinality(Up(j)) \in 1..c
        BY <1>2
      <4> HIDE DEF Up, c
      <4> QED
        BY <1>1, <1>3, <2>1, <4>1
    <3> QED
      BY <3>1
  <2> HIDE DEF Up, c
  <2>2. r \in [at -> 1..c]
    BY <1>2
  <2> QED
    BY <2>1, <2>2 DEF Injection, IsInjective
<1>5. r \in Surjection(at, 1..c)
  <2>1. IsFiniteSet(1..c) /\ Cardinality(1..c) = c
    BY <1>1, FS_Interval
  <2> HIDE DEF r
  <2>2. Cardinality(1..c) = Cardinality(at)
    BY <2>1
  <2> HIDE DEF c
  <2> QED
    BY <1>4, <2>1, <2>2, FS_Injection
<1>6. ASSUME NEW n \in 1..c
      PROVE  Answer!Place(at, n) \in at /\ Cardinality(Up(Answer!Place(at, n))) = n
  <2>1. PICK i \in at : Cardinality(Up(i)) = n
    BY <1>5 DEF Surjection
  <2>2. \E k \in at : Answer!Cardinality({j \in at : j <= k}) = n
    BY <2>1, AnswerCounts
  <2>3. Answer!Place(at, n) \in at
        /\ Answer!Cardinality({j \in at : j <= Answer!Place(at, n)}) = n
    BY <2>2 DEF Answer!Place
  <2> QED
    BY <2>3, AnswerCounts
<1>7. ASSUME NEW i \in at PROVE \E n \in 1..c : Answer!Place(at, n) = i
  <2>1. Cardinality(Up(i)) \in 1..c
    BY <1>2
  <2>2. Answer!Place(at, Cardinality(Up(i))) \in at
        /\ Cardinality(Up(Answer!Place(at, Cardinality(Up(i))))) = Cardinality(Up(i))
    BY <1>6, <2>1
  <2>3. \A k \in at : Cardinality(Up(k)) = Cardinality(Up(i)) => k = i
    <3> HIDE DEF Up, c
    <3> QED
      BY <1>4 DEF Injection, IsInjective
  <2> HIDE DEF Up, c
  <2> QED
    BY <2>1, <2>2, <2>3
<1> HIDE DEF Up
<1> QED
  BY <1>1, <1>6, <1>7

(* No two findings of a list have the same words.                           *)
Apart(s) == \A i, j \in 1..Len(s) : s[i].words = s[j].words => i = j

LEMMA KeptIs ==
  ASSUME NEW T, NEW s \in Seq(T), NEW at \in SUBSET (1..Len(s))
  PROVE  /\ Answer!Kept(s, at) \in Seq(T) /\ Len(Answer!Kept(s, at)) = Cardinality(at)
         /\ Answer!Elements(Answer!Kept(s, at)) = {s[i] : i \in at}
         /\ (\A i, j \in at : s[i].words = s[j].words => i = j) => Apart(Answer!Kept(s, at))
<1> DEFINE c == Cardinality(at)
           k == Answer!Kept(s, at)
<1>1. /\ c \in Nat /\ \A n \in 1..c : Answer!Place(at, n) \in at
      /\ \A n, p \in 1..c : Answer!Place(at, n) = Answer!Place(at, p) => n = p
      /\ \A i \in at : \E n \in 1..c : Answer!Place(at, n) = i
  <2>1. Len(s) \in Nat
    OBVIOUS
  <2> QED
    BY <2>1, PlacesAreRanked
<1>2. k = [n \in 1..c |-> s[Answer!Place(at, n)]]
  BY AnswerCounts DEF Answer!Kept
<1>3. \A i \in at : i \in 1..Len(s) /\ s[i] \in T
  OBVIOUS
<1> HIDE DEF c, k
<1>4. k \in Seq(T) /\ Len(k) = c
  <2>1. \A n \in 1..c : s[Answer!Place(at, n)] \in T
    BY <1>1, <1>3
  <2>2. k \in [1..c -> T]
    BY <1>2, <2>1
  <2> QED
    BY <1>1, <2>2
<1>5. \A n \in 1..c : k[n] = s[Answer!Place(at, n)]
  BY <1>2
<1>6. Answer!Elements(k) = {s[i] : i \in at}
  <2>1. ASSUME NEW n \in 1..c PROVE k[n] \in {s[i] : i \in at}
    BY <1>1, <1>5
  <2>2. ASSUME NEW i \in at PROVE \E n \in 1..c : k[n] = s[i]
    BY <1>1, <1>5
  <2> QED
    BY <1>4, <2>1, <2>2 DEF Answer!Elements
<1>7. ASSUME \A i, j \in at : s[i].words = s[j].words => i = j PROVE Apart(k)
  <2>1. ASSUME NEW i \in 1..c, NEW j \in 1..c, k[i].words = k[j].words PROVE i = j
    <3>1. s[Answer!Place(at, i)].words = s[Answer!Place(at, j)].words
      BY <1>5, <2>1
    <3>2. Answer!Place(at, i) = Answer!Place(at, j)
      BY <1>1, <1>7, <3>1
    <3> QED
      BY <1>1, <3>2
  <2> QED
    BY <1>4, <2>1 DEF Apart
<1> QED
  BY <1>4, <1>6, <1>7 DEF c, k

LEMMA PickedIs ==
  ASSUME NEW T, NEW s \in Seq(T), NEW S
  PROVE  /\ Answer!Picked(s, S) \in Seq(T)
         /\ Answer!Elements(Answer!Picked(s, S)) = Answer!Elements(s) \cap S
         /\ Apart(s) => Apart(Answer!Picked(s, S))
<1> DEFINE at == {i \in 1..Len(s) : s[i] \in S}
<1>1. at \in SUBSET (1..Len(s)) /\ Answer!Picked(s, S) = Answer!Kept(s, at)
  BY DEF Answer!Picked
<1>2. {s[i] : i \in at} = Answer!Elements(s) \cap S
  BY DEF Answer!Elements
<1>3. Apart(s) => \A i, j \in at : s[i].words = s[j].words => i = j
  BY DEF Apart
<1> HIDE DEF at
<1>4. /\ Answer!Kept(s, at) \in Seq(T) /\ Answer!Elements(Answer!Kept(s, at)) = {s[i] : i \in at}
      /\ (\A i, j \in at : s[i].words = s[j].words => i = j) => Apart(Answer!Kept(s, at))
  BY <1>1, KeptIs
<1> QED
  BY <1>1, <1>2, <1>3, <1>4

(* The first places of values have one value each, and every value one.     *)
LEMMA FirstPlaces ==
  ASSUME NEW m \in Nat, NEW v, DOMAIN v = 1..m
  PROVE  /\ Answer!FirstOf(v) \in SUBSET (1..m)
         /\ \A i, j \in Answer!FirstOf(v) : v[i] = v[j] => i = j
         /\ \A i \in 1..m : \E j \in Answer!FirstOf(v) : v[j] = v[i]
<1>1. Answer!FirstOf(v) = {i \in 1..m : ~\E j \in 1 .. i - 1 : v[j] = v[i]}
  BY DEF Answer!FirstOf
<1>2. ASSUME NEW i \in Answer!FirstOf(v), NEW j \in Answer!FirstOf(v), v[i] = v[j], i < j PROVE FALSE
  <2>1. i \in 1 .. j - 1
    BY <1>1, <1>2
  <2> QED
    BY <1>1, <1>2, <2>1
<1>3. ASSUME NEW i \in 1..m PROVE \E j \in Answer!FirstOf(v) : v[j] = v[i]
  <2> DEFINE same == {j \in 1..m : v[j] = v[i]}
  <2>1. same \in SUBSET Nat /\ same # {}
    OBVIOUS
  <2>2. PICK j \in same : \A k \in same : j <= k
    <3> HIDE DEF same
    <3> QED
      BY <2>1, LeastOfNumbers
  <2>3. \A k \in 1 .. j - 1 : k \in 1..m /\ ~(j <= k)
    OBVIOUS
  <2>4. \A k \in 1 .. j - 1 : v[k] # v[j]
    BY <2>2, <2>3
  <2> QED
    BY <1>1, <2>2, <2>4
<1>4. \A i, j \in Answer!FirstOf(v) : v[i] = v[j] => i = j
  <2> SUFFICES ASSUME NEW i \in Answer!FirstOf(v), NEW j \in Answer!FirstOf(v), v[i] = v[j] PROVE i = j
    OBVIOUS
  <2>1. ~(i < j) /\ ~(j < i)
    BY <1>2
  <2>2. i \in Int /\ j \in Int
    BY <1>1
  <2> QED
    BY <2>1, <2>2
<1> QED
  BY <1>1, <1>3, <1>4

LEMMA SameWords ==
  ASSUME NEW s, Apart(s), NEW f \in Answer!Elements(s), NEW g \in Answer!Elements(s), f.words = g.words
  PROVE  f = g
BY DEF Apart, Answer!Elements

(* A list without repeated words is counted by its findings.                *)
LEMMA ApartCount ==
  ASSUME NEW T, NEW s \in Seq(T), Apart(s)
  PROVE  /\ Len(s) = Cardinality(Answer!Elements(s)) /\ Len(s) \in Nat
         /\ Cardinality({f.words : f \in Answer!Elements(s)}) = Len(s)
<1> DEFINE n == Len(s)
           E == Answer!Elements(s)
           W == {f.words : f \in E}
           g == [i \in 1..n |-> s[i]]
           h == [i \in 1..n |-> s[i].words]
<1>1. n \in Nat /\ IsFiniteSet(1..n) /\ Cardinality(1..n) = n
  <2>1. n \in Nat
    OBVIOUS
  <2> HIDE DEF n
  <2> QED
    BY <2>1, FS_Interval
<1>2. g \in Bijection(1..n, E)
  BY DEF Apart, Answer!Elements, Bijection, Injection, Surjection, IsInjective
<1>3. h \in Bijection(1..n, W)
  BY DEF Apart, Answer!Elements, Bijection, Injection, Surjection, IsInjective
<1> HIDE DEF n, E, W, g, h
<1>4. Cardinality(E) = n
  BY <1>1, <1>2, FS_Bijection DEF ExistsBijection
<1>5. Cardinality(W) = n
  BY <1>1, <1>3, FS_Bijection DEF ExistsBijection
<1> QED
  BY <1>1, <1>4, <1>5 DEF n, E, W

LEMMA Joined ==
  ASSUME NEW T, NEW s \in Seq(T), NEW t \in Seq(T), Apart(s), Apart(t),
         \A f \in Answer!Elements(s), g \in Answer!Elements(t) : f.words # g.words
  PROVE  /\ s \o t \in Seq(T) /\ Len(s \o t) = Len(s) + Len(t) /\ Apart(s \o t)
         /\ Answer!Elements(s \o t) = Answer!Elements(s) \cup Answer!Elements(t)
<1> DEFINE n == Len(s)
           m == Len(t)
           j == s \o t
<1>1. /\ n \in Nat /\ m \in Nat /\ j \in Seq(T) /\ Len(j) = n + m
      /\ \A i \in 1..n : j[i] = s[i]
      /\ \A i \in 1..m : j[n + i] = t[i]
  OBVIOUS
<1>2. /\ \A i \in 1..n : s[i] \in Answer!Elements(s)
      /\ \A i \in 1..m : t[i] \in Answer!Elements(t)
      /\ \A f \in Answer!Elements(s) : \E i \in 1..n : f = s[i]
      /\ \A f \in Answer!Elements(t) : \E i \in 1..m : f = t[i]
  BY DEF Answer!Elements
<1> HIDE DEF n, m, j
<1>3. ASSUME NEW i \in 1 .. n + m
      PROVE  \/ i \in 1..n /\ j[i] = s[i]
             \/ i - n \in 1..m /\ j[i] = t[i - n] /\ i = n + (i - n)
  <2>1. CASE i <= n
    BY <1>1, <2>1
  <2>2. CASE ~(i <= n)
    <3>1. i - n \in 1..m /\ n + (i - n) = i
      BY <1>1, <2>2
    <3> QED
      BY <1>1, <3>1
  <2> QED
    BY <2>1, <2>2
<1>4. Answer!Elements(j) = Answer!Elements(s) \cup Answer!Elements(t)
  <2>1. ASSUME NEW i \in 1 .. n + m PROVE j[i] \in Answer!Elements(s) \cup Answer!Elements(t)
    BY <1>2, <1>3
  <2>2. ASSUME NEW f \in Answer!Elements(s) PROVE \E i \in 1 .. n + m : f = j[i]
    <3>1. PICK i \in 1..n : f = s[i]
      BY <1>2
    <3>2. i \in 1 .. n + m
      BY <1>1
    <3> QED
      BY <1>1, <3>1, <3>2
  <2>3. ASSUME NEW f \in Answer!Elements(t) PROVE \E i \in 1 .. n + m : f = j[i]
    <3>1. PICK i \in 1..m : f = t[i]
      BY <1>2
    <3>2. n + i \in 1 .. n + m
      BY <1>1
    <3> QED
      BY <1>1, <3>1, <3>2
  <2>4. Answer!Elements(j) = {j[i] : i \in 1 .. n + m}
    BY <1>1 DEF Answer!Elements
  <2> QED
    BY <2>1, <2>2, <2>3, <2>4
<1>5. Apart(j)
  <2>1. ASSUME NEW i \in 1 .. n + m, NEW k \in 1 .. n + m, j[i].words = j[k].words PROVE i = k
    <3>1. \A a, b \in 1..n : s[a].words = s[b].words => a = b
      BY DEF Apart, n
    <3>2. \A a, b \in 1..m : t[a].words = t[b].words => a = b
      BY DEF Apart, m
    <3>3. \A a \in 1..n, b \in 1..m : s[a].words # t[b].words
      BY <1>2
    <3>4. CASE i \in 1..n /\ j[i] = s[i] /\ k \in 1..n /\ j[k] = s[k]
      BY <2>1, <3>1, <3>4
    <3>5. CASE i - n \in 1..m /\ j[i] = t[i - n] /\ k - n \in 1..m /\ j[k] = t[k - n]
      <4>1. i - n = k - n
        BY <2>1, <3>2, <3>5
      <4> QED
        BY <1>1, <4>1
    <3> QED
      BY <1>3, <2>1, <3>3, <3>4, <3>5
  <2> QED
    BY <1>1, <2>1 DEF Apart
<1> QED
  BY <1>1, <1>4, <1>5 DEF n, m, j

LEMMA AnswerAlone == part = "answer" /\ PartsNext =>
  \/ Answer!Publish
  \/ \E doc \in Answer!CheckerDocuments : Answer!CheckerAnswers(doc)
BY DEF PartsNext, OpenDatabase, InstallHook, SetUpAgent, ChoosePreference,
  FindStateRoot, KeepFindings, SuggestDuplicate, SummariseFindings, GatherContext,
  ReadDiff, ReadDocument, PublishFindings, RecordTelemetry, RunCommand, CheckProtocol,
  ScoreCase, RunEvaluation, RunVerification, Runs, Rest, Answer!FindingsNext

LEMMA AnswerStarts ==
  ASSUME Answer!FindingsInit
  PROVE  Answer!FindingsFit
<1>1. s1 \in Seq(Raised)
  <2>1. ASSUME NEW n \in 0..MaxRaised, s1 \in [1..n -> Raised] PROVE s1 \in Seq(Raised)
    <3>1. n \in Nat
      OBVIOUS
    <3> QED
      BY <2>1, <3>1
  <2>2. s1 = <<>> => s1 \in Seq(Raised)
    OBVIOUS
  <2> QED
    BY <2>1, <2>2 DEF Answer!FindingsInit
<1>2. s2 \in [Anchors -> Answer!Statuses]
  BY DEF Answer!FindingsInit, Answer!Statuses
<1>3. Len(s3) = 1 /\ s7.kind = "none" /\ s5 \in {"observe", "confirmed-only"}
  BY DEF Answer!FindingsInit
<1> QED
  BY <1>1, <1>2, <1>3 DEF Answer!FindingsFit, Answer!FindingsAreKept, Answer!EachFindingAccounted,
    Answer!WithheldOnEvidence

(* The findings of a document, merged.                                      *)
Accounts(s, D, R, M, I, J) ==
  /\ M \in Seq(Raised) /\ Apart(M)
  /\ Cardinality({f.words : f \in Answer!Elements(s)}) = Len(M) + (Len(D) - Len(R)) + (Len(I) - Len(J))
  /\ Len(D) \in Nat /\ Len(R) \in Nat /\ Len(I) \in Nat /\ Len(J) \in Nat
  /\ \A f \in Answer!Elements(D) :
       \/ ~f.sure \/ ~f.inDiff \/ f \in Answer!Elements(M)
       \/ f.anchor # "none" /\ \E g \in Answer!Elements(M) : g.anchor = f.anchor

LEMMA MergedAccounts ==
  ASSUME NEW s \in Seq(Raised)
  PROVE  LET D == Answer!Distinct(s)
             R == Answer!InDiff(Answer!Sure(D))
             M == Answer!Merged(R)
         IN Accounts(s, D, R, M, Answer!Identifiable(R), Answer!Identifiable(M))
<1> DEFINE D == Answer!Distinct(s)
           S == Answer!Sure(D)
           R == Answer!InDiff(S)
           I == Answer!Identifiable(R)
           U == Answer!Untracked(R)
           K == Answer!Deduplicated(I)
           M == Answer!Merged(R)
           J == Answer!Identifiable(M)
           E(q) == Answer!Elements(q)
<1>1. D \in Seq(Raised) /\ Apart(D) /\ {f.words : f \in E(D)} = {f.words : f \in E(s)}
  <2> DEFINE v == [i \in 1..Len(s) |-> s[i].words]
             at == Answer!FirstOf(v)
  <2>1. Len(s) \in Nat /\ DOMAIN v = 1..Len(s) /\ \A i \in 1..Len(s) : v[i] = s[i].words
    OBVIOUS
  <2>2. D = Answer!Kept(s, at)
    BY DEF Answer!Distinct
  <2> HIDE DEF v, D
  <2>3. /\ at \in SUBSET (1..Len(s)) /\ \A i, j \in at : v[i] = v[j] => i = j
        /\ \A i \in 1..Len(s) : \E j \in at : v[j] = v[i]
    BY <2>1, FirstPlaces
  <2> HIDE DEF at
  <2>4. \A i, j \in at : s[i].words = s[j].words => i = j
    BY <2>1, <2>3
  <2>5. D \in Seq(Raised) /\ Apart(D) /\ E(D) = {s[i] : i \in at}
    BY <2>2, <2>3, <2>4, KeptIs
  <2>6. E(s) = {s[i] : i \in 1..Len(s)}
    BY DEF Answer!Elements
  <2> HIDE DEF E
  <2>7. ASSUME NEW f \in E(s) PROVE \E g \in E(D) : f.words = g.words
    <3>1. PICK i \in 1..Len(s) : f = s[i]
      BY <2>6
    <3>2. PICK j \in at : v[j] = v[i]
      BY <2>3
    <3>3. j \in 1..Len(s)
      BY <2>3
    <3>4. s[j].words = f.words
      BY <2>1, <3>1, <3>2, <3>3
    <3> QED
      BY <2>5, <3>4
  <2>8. E(D) \subseteq E(s)
    BY <2>3, <2>5, <2>6
  <2> QED
    BY <2>5, <2>7, <2>8
<1>2. /\ R \in Seq(Raised) /\ Apart(R)
      /\ E(R) = {f \in E(D) : f \in Raised /\ f.sure /\ f.inDiff}
  <2> HIDE DEF D
  <2>1. S \in Seq(Raised) /\ Apart(S) /\ E(S) = E(D) \cap {f \in Raised : f.sure}
    <3> HIDE DEF E
    <3> QED
      BY <1>1, PickedIs DEF Answer!Sure, E
  <2> HIDE DEF S
  <2>2. R \in Seq(Raised) /\ Apart(R) /\ E(R) = E(S) \cap {f \in Raised : f.inDiff}
    <3> HIDE DEF E
    <3> QED
      BY <2>1, PickedIs DEF Answer!InDiff, E
  <2> HIDE DEF E, R
  <2> QED
    BY <2>1, <2>2
<1>3. \A q \in Seq(Raised) : E(q) \subseteq Raised
  BY DEF Answer!Elements
<1> HIDE DEF D, S, R
<1>4. /\ I \in Seq(Raised) /\ Apart(I) /\ E(I) = {f \in E(R) : f.anchor # "none"}
      /\ U \in Seq(Raised) /\ Apart(U) /\ E(U) = {f \in E(R) : f.anchor = "none"}
  <2>1. /\ I \in Seq(Raised) /\ Apart(I) /\ E(I) = E(R) \cap {f \in Raised : f.anchor # "none"}
    <3> HIDE DEF E
    <3> QED
      BY <1>2, PickedIs DEF Answer!Identifiable, E
  <2>2. /\ U \in Seq(Raised) /\ Apart(U) /\ E(U) = E(R) \cap {f \in Raised : f.anchor = "none"}
    <3> HIDE DEF E
    <3> QED
      BY <1>2, PickedIs DEF Answer!Untracked, E
  <2> HIDE DEF E, I, U
  <2> QED
    BY <1>2, <1>3, <2>1, <2>2
<1> HIDE DEF I, U
<1>5. /\ K \in Seq(Raised) /\ Apart(K) /\ E(K) \subseteq E(I)
      /\ \A f \in E(I) : \E g \in E(K) : g.anchor = f.anchor
  <2> DEFINE v == [i \in 1..Len(I) |-> I[i].anchor]
             at == Answer!FirstOf(v)
  <2>1. Len(I) \in Nat /\ DOMAIN v = 1..Len(I) /\ \A i \in 1..Len(I) : v[i] = I[i].anchor
    BY <1>4
  <2>2. K = Answer!Kept(I, at)
    BY DEF Answer!Deduplicated
  <2> HIDE DEF v, K
  <2>3. /\ at \in SUBSET (1..Len(I))
        /\ \A i \in 1..Len(I) : \E j \in at : v[j] = v[i]
    BY <2>1, FirstPlaces
  <2> HIDE DEF at
  <2>4. \A i, j \in at : I[i].words = I[j].words => i = j
    BY <1>4, <2>3 DEF Apart
  <2>5. K \in Seq(Raised) /\ Apart(K) /\ E(K) = {I[i] : i \in at}
    <3>1. I \in Seq(Raised)
      BY <1>4
    <3> HIDE DEF E
    <3>2. at \in SUBSET (1..Len(I))
      BY <2>3
    <3>3. /\ Answer!Kept(I, at) \in Seq(Raised)
          /\ Answer!Elements(Answer!Kept(I, at)) = {I[i] : i \in at}
          /\ (\A i, j \in at : I[i].words = I[j].words => i = j) => Apart(Answer!Kept(I, at))
      BY ONLY <3>1, <3>2, KeptIs
    <3> QED
      BY <2>2, <2>4, <3>3 DEF E
  <2>6. E(I) = {I[i] : i \in 1..Len(I)}
    BY DEF Answer!Elements
  <2> HIDE DEF E
  <2>7. ASSUME NEW f \in E(I) PROVE \E g \in E(K) : g.anchor = f.anchor
    <3>1. PICK i \in 1..Len(I) : f = I[i]
      BY <2>6
    <3>2. PICK j \in at : v[j] = v[i]
      BY <2>3
    <3>3. j \in 1..Len(I)
      BY <2>3
    <3>4. I[j].anchor = f.anchor
      BY <2>1, <3>1, <3>2, <3>3
    <3> QED
      BY <2>5, <3>4
  <2>8. E(K) \subseteq E(I)
    BY <2>3, <2>5, <2>6
  <2> QED
    BY <2>5, <2>7, <2>8
<1>6. \A f, g \in E(R) : f.words = g.words => f = g
  BY <1>2, SameWords
<1>7. M = K \o U
  BY DEF Answer!Merged, K, I, U
<1> HIDE DEF K, M, E
<1>8. M \in Seq(Raised) /\ Len(M) = Len(K) + Len(U) /\ Apart(M) /\ E(M) = E(K) \cup E(U)
  <2>1. \A f \in E(K), g \in E(U) : f.words # g.words
    BY <1>4, <1>5, <1>6
  <2> QED
    BY <1>4, <1>5, <1>7, <2>1, Joined DEF E
<1>9. Len(R) = Len(I) + Len(U)
  <2>1. \A f \in E(I), g \in E(U) : f.words # g.words
    BY <1>4, <1>6
  <2>2. I \o U \in Seq(Raised) /\ Len(I \o U) = Len(I) + Len(U) /\ Apart(I \o U)
        /\ E(I \o U) = E(I) \cup E(U)
    BY <1>4, <2>1, Joined DEF E
  <2>3. E(I \o U) = E(R)
    BY <1>4, <2>2
  <2>4. Len(I \o U) = Cardinality(E(I \o U)) /\ Len(R) = Cardinality(E(R))
    BY <1>2, <2>2, ApartCount DEF E
  <2> QED
    BY <2>2, <2>3, <2>4
<1>10. J \in Seq(Raised) /\ Len(J) = Len(K)
  <2>1. J \in Seq(Raised) /\ Apart(J) /\ E(J) = E(M) \cap {f \in Raised : f.anchor # "none"}
    BY <1>8, PickedIs DEF Answer!Identifiable, E
  <2> HIDE DEF J
  <2>2. E(J) = E(K)
    BY <1>2, <1>3, <1>4, <1>5, <1>8, <2>1
  <2>3. Len(J) = Cardinality(E(J)) /\ Len(K) = Cardinality(E(K))
    BY <1>5, <2>1, ApartCount DEF E
  <2> QED
    BY <2>1, <2>2, <2>3
<1> HIDE DEF J
<1>11. Cardinality({f.words : f \in E(D)}) = Len(D)
  BY <1>1, ApartCount DEF E
<1>12. /\ Len(D) \in Nat /\ Len(R) \in Nat /\ Len(I) \in Nat /\ Len(J) \in Nat
       /\ Len(K) \in Nat /\ Len(U) \in Nat
  BY <1>1, <1>2, <1>4, <1>5, <1>10
<1>13. Cardinality({f.words : f \in E(s)}) = Len(M) + (Len(D) - Len(R)) + (Len(I) - Len(J))
  <2>1. Cardinality({f.words : f \in E(s)}) = Len(D)
    BY <1>1, <1>11
  <2>2. \A d, r, i, u, k \in Nat : d = (k + u) + (d - (i + u)) + (i - k)
    OBVIOUS
  <2> QED
    BY <1>8, <1>9, <1>10, <1>12, <2>1, <2>2
<1>14. \A f \in E(D) :
         \/ ~f.sure \/ ~f.inDiff \/ f \in E(M)
         \/ f.anchor # "none" /\ \E g \in E(M) : g.anchor = f.anchor
  BY <1>1, <1>2, <1>3, <1>4, <1>5, <1>8
<1> QED
  <2>1. Accounts(s, D, R, M, I, J)
    BY <1>8, <1>12, <1>13, <1>14 DEF Accounts, E
  <2> QED
    BY <2>1 DEF D, S, R, I, M, J

LEMMA PublishKeeps ==
  ASSUME Answer!FindingsFit, Answer!Publish
  PROVE  Answer!FindingsFit'
<1> DEFINE D == Answer!Distinct(s1)
           R == Answer!InDiff(Answer!Sure(D))
           M == Answer!Merged(R)
           A == Answer!Picked(M, {f \in Raised : ~Answer!Suppressed(f, s2)})
           B == Answer!Picked(M, {f \in Raised : Answer!Suppressed(f, s2)})
           I == Answer!Identifiable(R)
           J == Answer!Identifiable(M)
           x == Len(D) - Len(R)
           y == Len(I) - Len(J)
           z == Len(Answer!Untracked(M))
           E(q) == Answer!Elements(q)
<1>1. /\ s3' = <<A, B, x, y, z>> /\ s2' = Answer!Reconciled(M, s2)
      /\ s1' = s1 /\ s5' = s5 /\ s6' = s6 /\ s7' = s7
  BY DEF Answer!Publish
<1>2. s1 \in Seq(Raised) /\ s2 \in [Anchors -> Answer!Statuses] /\ s5 \in {"observe", "confirmed-only"}
      /\ Answer!WithheldOnEvidence
  BY DEF Answer!FindingsFit, Answer!FindingsAreKept
<1>3. /\ M \in Seq(Raised) /\ Apart(M)
      /\ Cardinality({f.words : f \in E(s1)}) = Len(M) + x + y
      /\ x \in Int /\ y \in Int
      /\ \A f \in E(D) :
                 \/ ~f.sure \/ ~f.inDiff \/ f \in E(M)
                 \/ f.anchor # "none" /\ \E g \in E(M) : g.anchor = f.anchor
  <2>1. Accounts(s1, D, R, M, I, J)
    BY <1>2, MergedAccounts
  <2> HIDE DEF D, R, M, I, J
  <2> QED
    BY <2>1 DEF Accounts
<1> HIDE DEF M, R, I, J, x, y, z
<1>4. /\ A \in Seq(Raised) /\ Apart(A) /\ E(A) = {f \in E(M) : ~Answer!Suppressed(f, s2)}
      /\ B \in Seq(Raised) /\ Apart(B) /\ E(B) = {f \in E(M) : Answer!Suppressed(f, s2)}
      /\ E(M) \subseteq Raised
  <2>1. E(M) \subseteq Raised
    BY <1>3 DEF Answer!Elements
  <2> HIDE DEF E
  <2> QED
    BY <1>3, <2>1, PickedIs DEF E
<1> HIDE DEF A, B
<1>5. \A f, g \in E(M) : f.words = g.words => f = g
  BY <1>3, SameWords
<1> HIDE DEF E
<1>6. /\ A \o B \in Seq(Raised) /\ Apart(A \o B) /\ E(A \o B) = E(M)
      /\ Len(A \o B) = Len(M)
      /\ Cardinality({f.words : f \in E(A \o B)}) = Len(A \o B)
  <2>1. \A f \in E(A), g \in E(B) : f.words # g.words
    BY <1>4, <1>5
  <2>2. /\ A \o B \in Seq(Raised) /\ Apart(A \o B) /\ E(A \o B) = E(A) \cup E(B)
    BY <1>4, <2>1, Joined DEF E
  <2>3. E(A \o B) = E(M)
    BY <1>4, <2>2
  <2>4. Len(A \o B) = Cardinality(E(A \o B)) /\ Len(M) = Cardinality(E(M))
        /\ Cardinality({f.words : f \in E(A \o B)}) = Len(A \o B)
    BY <1>3, <2>2, ApartCount DEF E
  <2> QED
    BY <2>2, <2>3, <2>4
<1>7. s2' \in [Anchors -> Answer!Statuses]
  BY <1>1, <1>2 DEF Answer!Reconciled, Answer!Statuses
<1>8. ASSUME NEW f \in E(M), f.anchor # "none"
      PROVE  /\ f.anchor \in Anchors /\ s2[f.anchor] \in Answer!Statuses
             /\ s2'[f.anchor] = IF s2[f.anchor] = "none" THEN "open"
                                ELSE IF s2[f.anchor] = "fixed" THEN "regressed" ELSE s2[f.anchor]
  <2>1. f.anchor \in Anchors
    BY <1>4, <1>8, AnswerAssumption
  <2>2. \E i \in 1..Len(M) : M[i].anchor = f.anchor
    BY DEF E, Answer!Elements
  <2> QED
    BY <1>1, <1>2, <2>1, <2>2 DEF Answer!Reconciled
<1>9. \A f \in E(A) : f.anchor # "none" => s2'[f.anchor] \in {"open", "regressed"}
  BY <1>4, <1>8 DEF Answer!Suppressed, Answer!Statuses
<1>10. \A f \in E(B) : s2'[f.anchor] \in {"dismissed", "deferred"}
  BY <1>4, <1>8 DEF Answer!Suppressed
<1>11. /\ Len(s3') = 5 /\ s3'[1] = A /\ s3'[2] = B /\ s3'[3] = x /\ s3'[4] = y
  BY <1>1
<1>12. Answer!Cardinality({f.words : f \in E(s1)}) = Len(A \o B) + x + y
  BY <1>3, <1>6, AnswerCounts
<1>13. Answer!Cardinality({f.words : f \in E(A \o B)}) = Len(A \o B)
  BY <1>6, AnswerCounts
<1>14. Answer!EachFindingAccounted'
  BY <1>1, <1>3, <1>6, <1>9, <1>10, <1>11, <1>12, <1>13 DEF Answer!EachFindingAccounted, E, D
<1>15. Answer!WithheldOnEvidence'
  BY <1>1, <1>2 DEF Answer!WithheldOnEvidence
<1> QED
  BY <1>1, <1>2, <1>7, <1>14, <1>15 DEF Answer!FindingsFit, Answer!FindingsAreKept

(* A valid document says something of every claim once.                     *)
LEMMA CheckerKeeps ==
  ASSUME Answer!FindingsFit, NEW doc \in Answer!CheckerDocuments, Answer!CheckerAnswers(doc)
  PROVE  Answer!FindingsFit'
<1>1. s1' = s1 /\ s2' = s2 /\ s3' = s3 /\ s5' = s5 /\ s7.kind = "none"
  BY DEF Answer!CheckerAnswers
<1>2. s1 \in Seq(Raised) /\ s2 \in [Anchors -> Answer!Statuses] /\ s5 \in {"observe", "confirmed-only"}
      /\ Answer!EachFindingAccounted
  BY DEF Answer!FindingsFit, Answer!FindingsAreKept
<1>3. Answer!EachFindingAccounted'
  BY <1>1, <1>2 DEF Answer!EachFindingAccounted
<1>4. Answer!WithheldOnEvidence'
  <2>1. CASE s7' = s7
    BY <1>1, <2>1 DEF Answer!WithheldOnEvidence
  <2>2. CASE s7' = Answer!Settled(doc)
    <3>1. s7'.published = Claims
      BY <2>2 DEF Answer!Settled
    <3> QED
      BY <3>1 DEF Answer!WithheldOnEvidence
  <2>3. CASE Answer!Valid(doc) /\ s6' = doc /\ s7' = Answer!Accepted(doc)
    <3> DEFINE n == Len(doc)
               g == [i \in 1..n |-> doc[i].finding]
    <3>1. n \in Nat
      <4>1. PICK m \in 0..MaxOutcomes : doc \in [1..m -> Answer!Outcomes]
        BY DEF Answer!CheckerDocuments
      <4>2. m \in Nat
        OBVIOUS
      <4> QED
        BY <4>1, <4>2
    <3>2. {doc[i].finding : i \in 1..n} = Claims /\ n = Cardinality(Claims)
      BY <2>3, AnswerCounts DEF Answer!Valid
    <3>3. g \in Surjection(1..n, Claims)
      BY <3>2 DEF Surjection
    <3>4. IsFiniteSet(1..n) /\ Cardinality(1..n) = n
      <4> HIDE DEF n
      <4> QED
        BY <3>1, FS_Interval
    <3>5. \A i, j \in 1..n : doc[i].finding = doc[j].finding => i = j
      <4>1. g \in Injection(1..n, Claims)
        <5> HIDE DEF n, g
        <5> QED
          BY <3>2, <3>3, <3>4, FS_Surjection
      <4>2. \A i, j \in 1..n : g[i] = g[j] => i = j
        <5> HIDE DEF n, g
        <5> QED
          BY <4>1 DEF Injection, IsInjective
      <4> QED
        BY <4>2
    <3>6. s7'.published = {doc[i].finding : i \in {j \in 1..n : s5 = "observe" \/ doc[j].verdict = "confirmed"}}
      BY <2>3 DEF Answer!Accepted
    <3>7. s7'.published \subseteq Claims
      BY <3>2, <3>6
    <3>8. ASSUME NEW f \in Claims \ s7'.published
          PROVE  /\ s5 = "confirmed-only"
                 /\ Cardinality({i \in 1..n : doc[i].finding = f}) = 1
                 /\ \A i \in 1..n : doc[i].finding = f => doc[i].verdict # "confirmed"
      <4> HIDE DEF n
      <4>1. PICK i \in 1..n : doc[i].finding = f
        BY <3>2
      <4>2. {j \in 1..n : doc[j].finding = f} = {i}
        BY <3>5, <4>1
      <4>3. Cardinality({i}) = 1
        BY FS_Singleton
      <4> QED
        BY <1>2, <3>6, <4>1, <4>2, <4>3
    <3> HIDE DEF n
    <3> QED
      BY <1>1, <2>3, <3>7, <3>8, AnswerCounts DEF Answer!WithheldOnEvidence, n
  <2> QED
    BY <2>1, <2>2, <2>3 DEF Answer!CheckerAnswers
<1> QED
  BY <1>1, <1>2, <1>3, <1>4 DEF Answer!FindingsFit, Answer!FindingsAreKept

AnswerInv == part = "answer" => Answer!FindingsFit

LEMMA AnswerInductive == PartsSpec => []AnswerInv
<1>1. PartsInit => AnswerInv
  BY AnswerStarts DEF PartsInit, AnswerInv
<1>2. AnswerInv /\ [PartsNext]_partsVars => AnswerInv'
  <2>1. ASSUME AnswerInv, PartsNext
        PROVE  AnswerInv'
    BY <2>1, PartStays, AnswerAlone, PublishKeeps, CheckerKeeps DEF AnswerInv
  <2>2. ASSUME AnswerInv, UNCHANGED partsVars
        PROVE  AnswerInv'
    <3>1. /\ s1' = s1 /\ s2' = s2 /\ s3' = s3 /\ s4' = s4 /\ s5' = s5
          /\ s6' = s6 /\ s7' = s7 /\ part' = part
      BY <2>2 DEF partsVars
    <3>2. Answer!EachFindingAccounted' <=> Answer!EachFindingAccounted
      BY <3>1 DEF Answer!EachFindingAccounted
    <3>3. Answer!WithheldOnEvidence' <=> Answer!WithheldOnEvidence
      BY <3>1 DEF Answer!WithheldOnEvidence
    <3>4. Answer!FindingsFit => Answer!FindingsFit'
      BY <3>1, <3>2, <3>3 DEF Answer!FindingsFit, Answer!FindingsAreKept
    <3> QED
      BY <2>2, <3>1, <3>4 DEF AnswerInv
  <2> QED
    BY <2>1, <2>2
<1> QED
  BY <1>1, <1>2, PTL DEF PartsSpec

-----------------------------------------------------------------------------
(* Numbers that are computed step by step                                   *)

(* What holds of 0 and goes on from one number to the next holds up to m.   *)
LEMMA GoesUp ==
  ASSUME NEW m \in Nat, NEW Good, 0 \in Good, \A n \in 1..m : n - 1 \in Good => n \in Good
  PROVE  \A n \in 0..m : n \in Good
<1> DEFINE bad == {n \in 0..m : n \notin Good}
<1> SUFFICES ASSUME NEW z \in 0..m, z \notin Good PROVE FALSE
  OBVIOUS
<1>1. bad # {} /\ bad \in SUBSET Nat
  OBVIOUS
<1>2. PICK n \in bad : \A k \in bad : n <= k
  <2> HIDE DEF bad
  <2> QED
    BY <1>1, LeastOfNumbers
<1>3. n \in 1..m /\ n - 1 \in 0..m /\ ~(n <= n - 1)
  OBVIOUS
<1>4. n - 1 \notin bad
  BY <1>2, <1>3
<1> QED
  BY <1>3, <1>4

(* What is computed step by step from a value exists.                       *)
Iterates(f, m, start, step) == f[0] = start /\ \A n \in 1..m : f[n] = step[n][f[n - 1]]
Iterated(m, T, start, step) == \E f \in [0..m -> T] : Iterates(f, m, start, step)
LEMMA StepByStep ==
  ASSUME NEW m \in Nat, NEW T, NEW start \in T, NEW step \in [1..m -> [T -> T]]
  PROVE  Iterated(m, T, start, step)
<1> DEFINE Follows(f, k) == Iterates(f, k, start, step)
           Done == {k \in 0..m : \E f \in [0..k -> T] : Follows(f, k)}
<1>1. 0 \in Done
  <2> DEFINE f == [i \in 0..0 |-> start]
  <2>1. f \in [0..0 -> T] /\ f[0] = start /\ 1..0 = {}
    OBVIOUS
  <2> HIDE DEF f
  <2>2. Follows(f, 0) /\ 0 \in 0..m
    BY <2>1 DEF Iterates
  <2> QED
    BY <2>1, <2>2
<1>2. ASSUME NEW k \in 1..m, k - 1 \in Done PROVE k \in Done
  <2>1. PICK f \in [0..(k - 1) -> T] : Follows(f, k - 1)
    BY <1>2
  <2> DEFINE g == [i \in 0..k |-> IF i = k THEN step[k][f[k - 1]] ELSE f[i]]
  <2>2. f[k - 1] \in T /\ step[k][f[k - 1]] \in T
    OBVIOUS
  <2>3. g \in [0..k -> T]
    BY <2>2
  <2>4. g[0] = start
    BY <2>1 DEF Iterates
  <2>5. ASSUME NEW n \in 1..k PROVE g[n] = step[n][g[n - 1]]
    <3>1. n - 1 \in 0..k /\ n - 1 # k /\ n \in 0..k
      OBVIOUS
    <3>2. g[n - 1] = f[n - 1] /\ g[n] = IF n = k THEN step[k][f[k - 1]] ELSE f[n]
      BY <3>1
    <3>3. n # k => n \in 1..(k - 1)
      OBVIOUS
    <3> HIDE DEF g
    <3> QED
      BY <2>1, <3>2, <3>3 DEF Iterates
  <2>6. Follows(g, k)
    BY <2>4, <2>5 DEF Iterates
  <2> HIDE DEF g
  <2> QED
    BY <2>3, <2>6
<1> HIDE DEF Done
<1>3. \A k \in 0..m : k \in Done
  BY <1>1, <1>2, GoesUp
<1>4. m \in 0..m
  OBVIOUS
<1> QED
  BY <1>3, <1>4 DEF Done, Iterated

-----------------------------------------------------------------------------
(* The scores of an evaluation                                              *)

Anchored == Scoring!Expectations({1, 2}, BOOLEAN)
Reported == Scoring!Reports({1, 2}, {"p", "q", "none"})
Pairs(reports) == (DOMAIN s2) \X (DOMAIN reports)
Share(c, d) == c[1] = d[1] \/ c[2] = d[2]

LEMMA ScoredCounts == ASSUME NEW S PROVE Scoring!Cardinality(S) = Cardinality(S)
BY DEF Scoring!Cardinality, Cardinality

LEMMA PairFits ==
  ASSUME s2 \in Seq(Anchored), NEW reports \in Seq(Reported), NEW c \in Pairs(reports)
  PROVE  /\ c[1] \in 1..Len(s2) /\ c[2] \in 1..Len(reports) /\ c = <<c[1], c[2]>>
         /\ Scoring!Near(s2, reports, c) \in Nat /\ Scoring!Rank(reports, c) \in {1, 2}
<1>1. c[1] \in 1..Len(s2) /\ c[2] \in 1..Len(reports) /\ c = <<c[1], c[2]>>
  BY DEF Pairs
<1>2. s2[c[1]] \in Anchored /\ reports[c[2]] \in Reported
  BY <1>1
<1>3. /\ s2[c[1]].line \in Nat /\ reports[c[2]].line \in Nat
      /\ reports[c[2]].rank \in {1, 2}
  BY <1>2, ScoringAssumption DEF Anchored, Reported, Scoring!Expectations, Scoring!Reports
<1> QED
  BY <1>1, <1>3 DEF Scoring!Near, Scoring!Rank, Scoring!Distance

(* The order of the candidates is total.                                    *)
LEMMA CandidatesAreOrdered ==
  ASSUME s2 \in Seq(Anchored), NEW reports \in Seq(Reported),
         NEW c \in Pairs(reports), NEW d \in Pairs(reports), NEW e \in Pairs(reports)
  PROVE  /\ ~Scoring!Before(s2, reports, c, c)
         /\ Scoring!Before(s2, reports, c, d) /\ Scoring!Before(s2, reports, d, e) => Scoring!Before(s2, reports, c, e)
         /\ c = d \/ Scoring!Before(s2, reports, c, d) \/ Scoring!Before(s2, reports, d, c)
<1>1. \A x \in {c, d, e} :
        /\ x[1] \in Nat /\ x[2] \in Nat /\ x = <<x[1], x[2]>>
        /\ Scoring!Near(s2, reports, x) \in Nat /\ Scoring!Rank(reports, x) \in Nat
  <2>1. \A x \in Pairs(reports) :
        /\ x[1] \in 1..Len(s2) /\ x[2] \in 1..Len(reports) /\ x = <<x[1], x[2]>>
        /\ Scoring!Near(s2, reports, x) \in Nat /\ Scoring!Rank(reports, x) \in {1, 2}
    BY PairFits
  <2> QED
    BY <2>1
<1>2. ~Scoring!Before(s2, reports, c, c)
  BY <1>1 DEF Scoring!Before
<1>3. Scoring!Before(s2, reports, c, d) /\ Scoring!Before(s2, reports, d, e) => Scoring!Before(s2, reports, c, e)
  BY <1>1 DEF Scoring!Before
<1>4. c[1] = d[1] /\ c[2] = d[2] => c = d
  BY <1>1
<1>5. c = d \/ Scoring!Before(s2, reports, c, d) \/ Scoring!Before(s2, reports, d, c)
  BY <1>1, <1>4 DEF Scoring!Before
<1> QED
  BY <1>2, <1>3, <1>5

LEMMA FirstIsLeast ==
  ASSUME s2 \in Seq(Anchored), NEW reports \in Seq(Reported),
         NEW free \in SUBSET Pairs(reports), free # {}
  PROVE  /\ Scoring!First(s2, reports, free) \in free
         /\ \A d \in free : d = Scoring!First(s2, reports, free)
                            \/ Scoring!Before(s2, reports, Scoring!First(s2, reports, free), d)
<1> DEFINE near(c) == Scoring!Near(s2, reports, c)
           worse(c) == 2 - Scoring!Rank(reports, c)
<1>1. \A x \in free :
        /\ x[1] \in Nat /\ x[2] \in Nat /\ x = <<x[1], x[2]>>
        /\ near(x) \in Nat /\ worse(x) \in Nat /\ Scoring!Rank(reports, x) \in Nat
  <2>1. \A x \in Pairs(reports) :
        /\ x[1] \in 1..Len(s2) /\ x[2] \in 1..Len(reports) /\ x = <<x[1], x[2]>>
        /\ Scoring!Near(s2, reports, x) \in Nat /\ Scoring!Rank(reports, x) \in {1, 2}
    BY PairFits
  <2> QED
    BY <2>1
<1>2. \A c, d \in free :
        Scoring!Before(s2, reports, c, d) <=>
          \/ near(c) < near(d)
          \/ near(c) = near(d) /\ worse(c) < worse(d)
          \/ near(c) = near(d) /\ worse(c) = worse(d) /\ c[1] < d[1]
          \/ near(c) = near(d) /\ worse(c) = worse(d) /\ c[1] = d[1] /\ c[2] < d[2]
  <2> SUFFICES ASSUME NEW c \in free, NEW d \in free
               PROVE  Scoring!Before(s2, reports, c, d) <=>
                        \/ near(c) < near(d)
                        \/ near(c) = near(d) /\ worse(c) < worse(d)
                        \/ near(c) = near(d) /\ worse(c) = worse(d) /\ c[1] < d[1]
                        \/ near(c) = near(d) /\ worse(c) = worse(d) /\ c[1] = d[1] /\ c[2] < d[2]
    OBVIOUS
  <2>1. /\ worse(c) < worse(d) <=> Scoring!Rank(reports, c) > Scoring!Rank(reports, d)
        /\ worse(c) = worse(d) <=> Scoring!Rank(reports, c) = Scoring!Rank(reports, d)
    <3>1. Scoring!Rank(reports, c) \in Nat /\ Scoring!Rank(reports, d) \in Nat
      BY <1>1
    <3> QED
      BY <3>1 DEF worse
  <2> HIDE DEF worse
  <2> QED
    BY <2>1 DEF Scoring!Before
<1> HIDE DEF near, worse
<1>3. PICK a \in free : \A d \in free : near(a) <= near(d)
  <2> DEFINE K == {near(d) : d \in free}
  <2>1. K \in SUBSET Nat /\ K # {}
    BY <1>1
  <2>2. PICK n \in K : \A k \in K : n <= k
    <3> HIDE DEF K
    <3> QED
      BY <2>1, LeastOfNumbers
  <2> QED
    BY <2>2
<1> DEFINE A == {d \in free : near(d) = near(a)}
<1>4. PICK b \in A : \A d \in A : worse(b) <= worse(d)
  <2> DEFINE K == {worse(d) : d \in A}
  <2>1. K \in SUBSET Nat /\ K # {}
    BY <1>1
  <2>2. PICK n \in K : \A k \in K : n <= k
    <3> HIDE DEF K
    <3> QED
      BY <2>1, LeastOfNumbers
  <2> QED
    BY <2>2
<1> DEFINE B == {d \in A : worse(d) = worse(b)}
<1>5. PICK g \in B : \A d \in B : g[1] <= d[1]
  <2> DEFINE K == {d[1] : d \in B}
  <2>1. K \in SUBSET Nat /\ K # {}
    BY <1>1
  <2>2. PICK n \in K : \A k \in K : n <= k
    <3> HIDE DEF K
    <3> QED
      BY <2>1, LeastOfNumbers
  <2> QED
    BY <2>2
<1> DEFINE G == {d \in B : d[1] = g[1]}
<1>6. PICK h \in G : \A d \in G : h[2] <= d[2]
  <2> DEFINE K == {d[2] : d \in G}
  <2>1. K \in SUBSET Nat /\ K # {}
    BY <1>1
  <2>2. PICK n \in K : \A k \in K : n <= k
    <3> HIDE DEF K
    <3> QED
      BY <2>1, LeastOfNumbers
  <2> QED
    BY <2>2
<1>7. ASSUME NEW d \in free PROVE d = h \/ Scoring!Before(s2, reports, h, d)
  <2>1. /\ h \in free /\ near(h) = near(a) /\ worse(h) = worse(b) /\ h[1] = g[1]
        /\ near(a) <= near(d)
        /\ near(d) = near(a) => worse(b) <= worse(d)
        /\ near(d) = near(a) /\ worse(d) = worse(b) => g[1] <= d[1]
        /\ near(d) = near(a) /\ worse(d) = worse(b) /\ d[1] = g[1] => h[2] <= d[2]
    BY <1>3, <1>4, <1>5, <1>6
  <2>2. h[1] = d[1] /\ h[2] = d[2] => d = h
    BY <1>1, <2>1
  <2>3. /\ near(h) \in Nat /\ worse(h) \in Nat /\ h[1] \in Nat /\ h[2] \in Nat
        /\ near(d) \in Nat /\ worse(d) \in Nat /\ d[1] \in Nat /\ d[2] \in Nat
    BY <1>1, <2>1
  <2> QED
    BY <1>2, <2>1, <2>2, <2>3
<1>8. \E c \in free : \A d \in free : d = c \/ Scoring!Before(s2, reports, c, d)
  BY <1>7
<1> QED
  BY <1>8 DEF Scoring!First

(* The hits after some candidates: none shares a finding with another, and  *)
(* a candidate that is no longer free gave way to an earlier one.           *)
Assigned(reports, n, used) ==
  /\ used \subseteq Scoring!Candidates(s2, reports)
  /\ \A u, v \in used : Share(u, v) => u = v
  /\ \A c \in Scoring!Candidates(s2, reports) \ used :
       c \in Scoring!Free(s2, reports, used) \/ \E u \in used : Share(u, c) /\ Scoring!Before(s2, reports, u, c)
  /\ Scoring!Free(s2, reports, used) = {} \/ Cardinality(Scoring!Found(used)) = n
Settled(reports, used) ==
  /\ used \subseteq Scoring!Candidates(s2, reports)
  /\ \A u, v \in used : Share(u, v) => u = v
  /\ \A c \in Scoring!Candidates(s2, reports) \ used :
       \E u \in used : Share(u, c) /\ Scoring!Before(s2, reports, u, c)

LEMMA CandidatesArePairs ==
  ASSUME NEW reports PROVE Scoring!Candidates(s2, reports) \in SUBSET Pairs(reports)
BY DEF Scoring!Candidates, Pairs

LEMMA FreeIs ==
  ASSUME NEW reports, NEW used
  PROVE  Scoring!Free(s2, reports, used) =
           {c \in Scoring!Candidates(s2, reports) : \A u \in used : ~Share(u, c)}
BY DEF Scoring!Free, Share

LEMMA FoundIsFinite ==
  ASSUME s2 \in Seq(Anchored), NEW reports, NEW used \in SUBSET Scoring!Candidates(s2, reports)
  PROVE  /\ Scoring!Found(used) \in SUBSET (1..Len(s2)) /\ IsFiniteSet(Scoring!Found(used))
         /\ Cardinality(Scoring!Found(used)) \in Nat
         /\ Cardinality(Scoring!Found(used)) = Len(s2) => Scoring!Found(used) = 1..Len(s2)
<1>1. Scoring!Found(used) \in SUBSET (1..Len(s2)) /\ Len(s2) \in Nat
  BY DEF Scoring!Found, Scoring!Candidates
<1>2. IsFiniteSet(1..Len(s2)) /\ Cardinality(1..Len(s2)) = Len(s2)
  <2>1. 1 \in Int /\ Len(s2) \in Int /\ Len(s2) - 1 + 1 = Len(s2) /\ (1 > Len(s2) => Len(s2) = 0)
    BY <1>1
  <2> HIDE DEF Anchored
  <2> QED
    BY <1>1, <2>1, FS_Interval
<1> QED
  BY <1>1, <1>2, FS_Subset, FS_CardinalityType

LEMMA HitIsAssigned ==
  ASSUME s2 \in Seq(Anchored), NEW reports \in Seq(Reported), NEW n \in 1..Len(s2), NEW used,
         Assigned(reports, n - 1, used)
  PROVE  Assigned(reports, n, Scoring!Hit(s2, reports, used))
<1> DEFINE C == Scoring!Candidates(s2, reports)
           free == Scoring!Free(s2, reports, used)
           x == Scoring!First(s2, reports, free)
           next == used \cup {x}
<1>1. CASE free = {}
  <2>1. Scoring!Hit(s2, reports, used) = used
    BY <1>1 DEF Scoring!Hit
  <2> QED
    BY <1>1, <2>1 DEF Assigned
<1>2. CASE free # {}
  <2>1. Scoring!Hit(s2, reports, used) = next
    BY <1>2 DEF Scoring!Hit
  <2>2. C \in SUBSET Pairs(reports) /\ free = {c \in C : \A u \in used : ~Share(u, c)}
    BY CandidatesArePairs, FreeIs
  <2>3. x \in free /\ \A d \in free : d = x \/ Scoring!Before(s2, reports, x, d)
    <3>1. free \in SUBSET Pairs(reports)
      BY <2>2
    <3> HIDE DEF free
    <3> QED
      BY <1>2, <3>1, FirstIsLeast
  <2>4. Scoring!Free(s2, reports, next) = {c \in C : \A u \in next : ~Share(u, c)}
    BY FreeIs
  <2>5. used \in SUBSET C /\ next \in SUBSET C /\ Cardinality(Scoring!Found(used)) = n - 1
    BY <1>2, <2>2, <2>3 DEF Assigned
  <2> HIDE DEF x, free
  <2>6. \A u, v \in next : Share(u, v) => u = v
    <3>1. \A u \in used : ~Share(u, x) /\ ~Share(x, u)
      BY <2>2, <2>3 DEF Share
    <3> QED
      BY <3>1 DEF Assigned
  <2>7. ASSUME NEW c \in C \ next
        PROVE  c \in Scoring!Free(s2, reports, next) \/ \E u \in next : Share(u, c) /\ Scoring!Before(s2, reports, u, c)
    <3>1. CASE c \in free
      BY <2>2, <2>3, <2>4, <3>1
    <3>2. CASE c \notin free
      BY <3>2 DEF Assigned, free
    <3> QED
      BY <3>1, <3>2
  <2>8. Cardinality(Scoring!Found(next)) = n
    <3>1. Scoring!Found(next) = Scoring!Found(used) \cup {x[1]}
      BY DEF Scoring!Found
    <3>2. x[1] \notin Scoring!Found(used)
      BY <2>2, <2>3 DEF Scoring!Found, Share
    <3>3. IsFiniteSet(Scoring!Found(used))
      BY <2>5, FoundIsFinite
    <3>4. Cardinality(Scoring!Found(next)) = Cardinality(Scoring!Found(used)) + 1
      BY <3>1, <3>2, <3>3, FS_AddElement
    <3> QED
      BY <2>5, <3>4
  <2> HIDE DEF next
  <2> QED
    BY <2>1, <2>5, <2>6, <2>7, <2>8 DEF Assigned
<1> QED
  BY <1>1, <1>2

LEMMA HitsAreSettled ==
  ASSUME s2 \in Seq(Anchored), NEW reports \in Seq(Reported)
  PROVE  Settled(reports, Scoring!TruePositives(s2, reports))
<1> DEFINE m == Len(s2)
           Over(f) == [n \in 0..m |-> IF n = 0 THEN {} ELSE Scoring!Hit(s2, reports, f[n - 1])]
           Hits == SUBSET Scoring!Candidates(s2, reports)
           F == CHOOSE f : f = Over(f)
<1>1. m \in Nat
  OBVIOUS
<1>2. \A used \in Hits : Scoring!Hit(s2, reports, used) \in Hits
  <2> SUFFICES ASSUME NEW used \in Hits PROVE Scoring!Hit(s2, reports, used) \in Hits
    OBVIOUS
  <2>1. CASE Scoring!Free(s2, reports, used) = {}
    BY <2>1 DEF Scoring!Hit
  <2>2. CASE Scoring!Free(s2, reports, used) # {}
    <3>1. Scoring!Free(s2, reports, used) \in SUBSET Pairs(reports)
      BY CandidatesArePairs, FreeIs
    <3>2. Scoring!First(s2, reports, Scoring!Free(s2, reports, used)) \in Scoring!Free(s2, reports, used)
      BY <2>2, <3>1, FirstIsLeast
    <3>3. Scoring!Free(s2, reports, used) \in Hits
      BY FreeIs
    <3> QED
      BY <2>2, <3>2, <3>3 DEF Scoring!Hit
  <2> QED
    BY <2>1, <2>2
<1>3. F = Over(F)
  <2> DEFINE step == [n \in 1..m |-> [used \in Hits |-> Scoring!Hit(s2, reports, used)]]
             none == {}
  <2>1. step \in [1..m -> [Hits -> Hits]] /\ none \in Hits
    BY <1>2
  <2>2. PICK f \in [0..m -> Hits] : f[0] = {} /\ \A n \in 1..m : f[n] = step[n][f[n - 1]]
    <3> HIDE DEF m, Hits, step, none
    <3>1. Iterated(m, Hits, none, step)
      BY <1>1, <2>1, StepByStep
    <3> QED
      BY <3>1 DEF none, Iterated, Iterates
  <2>3. \A n \in 1..m : f[n] = Scoring!Hit(s2, reports, f[n - 1])
    <3> SUFFICES ASSUME NEW n \in 1..m PROVE f[n] = Scoring!Hit(s2, reports, f[n - 1])
      OBVIOUS
    <3>1. n - 1 \in 0..m
      OBVIOUS
    <3>2. f[n - 1] \in Hits
      BY <3>1
    <3> HIDE DEF m, Hits
    <3> QED
      BY <2>2, <3>2
  <2> HIDE DEF Hits, step, m
  <2>4. \A n \in 0..m : f[n] = IF n = 0 THEN {} ELSE Scoring!Hit(s2, reports, f[n - 1])
    <3>1. \A n \in 0..m : n = 0 \/ n \in 1..m
      BY <1>1
    <3> QED
      BY <2>2, <2>3, <3>1
  <2>5. f = Over(f)
    BY <2>4
  <2> HIDE DEF Over
  <2> QED
    BY <2>5
<1>4. Scoring!TruePositives(s2, reports) = F[m]
  BY DEF Scoring!TruePositives
<1> HIDE DEF F
<1> DEFINE Good == {n \in 0..m : Assigned(reports, n, F[n])}
<1>5. 0 \in Good
  <2>1. F[0] = {}
    <3>1. Over(F)[0] = {}
      BY <1>1
    <3> HIDE DEF Over
    <3> QED
      BY <1>3, <3>1
  <2>2. Scoring!Found({}) = {} /\ Cardinality(Scoring!Found({})) = 0
    BY FS_EmptySet DEF Scoring!Found
  <2>3. Assigned(reports, 0, {})
    BY <2>2, FreeIs DEF Assigned
  <2>4. 0 \in 0..m /\ Assigned(reports, 0, F[0])
    BY <1>1, <2>1, <2>3
  <2> QED
    BY <2>4
<1>6. ASSUME NEW n \in 1..m, n - 1 \in Good PROVE n \in Good
  <2>1. F[n] = Scoring!Hit(s2, reports, F[n - 1])
    <3>1. Over(F)[n] = Scoring!Hit(s2, reports, F[n - 1])
      BY <1>1
    <3> HIDE DEF Over
    <3> QED
      BY <1>3, <3>1
  <2>2. Assigned(reports, n - 1, F[n - 1])
    BY <1>6
  <2>3. Assigned(reports, n, F[n])
    BY <2>1, <2>2, HitIsAssigned
  <2> QED
    BY <2>3
<1>7. Assigned(reports, m, F[m])
  <2> HIDE DEF Good
  <2>1. \A n \in 0..m : n \in Good
    BY <1>1, <1>5, <1>6, GoesUp
  <2>2. m \in 0..m
    OBVIOUS
  <2> QED
    BY <2>1, <2>2 DEF Good
<1>8. Scoring!Free(s2, reports, F[m]) = {}
  <2>1. F[m] \in SUBSET Scoring!Candidates(s2, reports)
    BY <1>7 DEF Assigned
  <2>2. ASSUME Cardinality(Scoring!Found(F[m])) = m, NEW c \in Scoring!Free(s2, reports, F[m]) PROVE FALSE
    <3>1. Scoring!Found(F[m]) = 1..m
      BY <2>1, <2>2, FoundIsFinite
    <3>2. c \in Scoring!Candidates(s2, reports) /\ \A u \in F[m] : ~Share(u, c)
      BY <2>2, FreeIs
    <3>3. c[1] \in 1..m
      BY <3>2 DEF Scoring!Candidates
    <3>4. c[1] \in Scoring!Found(F[m])
      BY <3>1, <3>3
    <3> QED
      BY <3>2, <3>4 DEF Scoring!Found, Share
  <2> QED
    BY <1>7, <2>2 DEF Assigned
<1> QED
  BY <1>4, <1>7, <1>8 DEF Assigned, Settled

LEMMA HitsAreCounted ==
  ASSUME s2 \in Seq(Anchored), NEW reports \in Seq(Reported), NEW tp, Settled(reports, tp)
  PROVE  /\ IsFiniteSet(tp) /\ Cardinality(tp) \in Nat
         /\ Cardinality(Scoring!Found(tp)) = Cardinality(tp)
         /\ IsFiniteSet(Scoring!Taken(tp)) /\ Cardinality(Scoring!Taken(tp)) = Cardinality(tp)
         /\ Scoring!Taken(tp) \subseteq 1..Len(reports)
<1> DEFINE F == Scoring!Found(tp)
           T == Scoring!Taken(tp)
           f == [e \in F |-> CHOOSE p \in tp : p[1] = e]
           g == [p \in tp |-> p[2]]
<1>1. tp \in SUBSET Scoring!Candidates(s2, reports) /\ \A u, v \in tp : Share(u, v) => u = v
  BY DEF Settled
<1>2. \A e \in F : f[e] \in tp /\ f[e][1] = e
  BY DEF Scoring!Found
<1>3. f \in Bijection(F, tp)
  <2>1. f \in [F -> tp]
    BY <1>2
  <2>2. \A d, e \in F : f[d] = f[e] => d = e
    BY <1>2
  <2>3. \A p \in tp : p[1] \in F /\ f[p[1]] = p
    <3>1. \A p \in tp : p[1] \in F
      BY DEF Scoring!Found
    <3> HIDE DEF f
    <3> QED
      BY <1>1, <1>2, <3>1 DEF Share
  <2> HIDE DEF f, F
  <2> QED
    BY <2>1, <2>2, <2>3 DEF Bijection, Injection, Surjection, IsInjective
<1>4. g \in Bijection(tp, T)
  <2>1. g \in [tp -> T] /\ \A t \in T : \E p \in tp : g[p] = t
    BY DEF Scoring!Taken
  <2>2. \A p, q \in tp : g[p] = g[q] => p = q
    BY <1>1 DEF Share
  <2> HIDE DEF g, T
  <2> QED
    BY <2>1, <2>2 DEF Bijection, Injection, Surjection, IsInjective
<1>5. IsFiniteSet(F)
  BY <1>1, FoundIsFinite
<1>6. IsFiniteSet(tp) /\ Cardinality(tp) = Cardinality(F)
  <2> HIDE DEF f, F
  <2> QED
    BY <1>3, <1>5, FS_Bijection DEF ExistsBijection
<1>7. IsFiniteSet(T) /\ Cardinality(T) = Cardinality(tp)
  <2> HIDE DEF g, T
  <2> QED
    BY <1>4, <1>6, FS_Bijection DEF ExistsBijection
<1>8. T \subseteq 1..Len(reports)
  BY <1>1 DEF Scoring!Taken, Scoring!Candidates
<1> QED
  BY <1>6, <1>7, <1>8, FS_CardinalityType

(* Every report is a hit, a repetition or a false positive.                 *)
LEMMA ReportsAreCounted ==
  ASSUME s2 \in Seq(Anchored), s3 \in Seq(Reported), NEW tp, Settled(s3, tp), NEW strict \in BOOLEAN
  PROVE  LET s == Scoring!ScoredWith(s2, s3, tp, strict)
         IN  Cardinality(s.tp) + Cardinality(s.redundant) + Cardinality(s.fp) = Len(s3)
<1> DEFINE T == Scoring!Taken(tp)
           left == DOMAIN s3 \ T
           red == {i \in left : \E e \in Scoring!Found(tp) : Scoring!Matches(s2[e], s3[i])}
           fp == {i \in left : \A e \in DOMAIN s2 : ~Scoring!Matches(s2[e], s3[i])}
           n == Len(s3)
<1>1. /\ Scoring!ScoredWith(s2, s3, tp, strict).tp = tp /\ Scoring!ScoredWith(s2, s3, tp, strict).redundant = red
      /\ Scoring!ScoredWith(s2, s3, tp, strict).fp = fp
  BY DEF Scoring!ScoredWith
<1>2. IsFiniteSet(T) /\ Cardinality(T) = Cardinality(tp) /\ T \subseteq 1..n
  BY HitsAreCounted
<1>3. n \in Nat /\ DOMAIN s3 = 1..n /\ IsFiniteSet(1..n) /\ Cardinality(1..n) = n
  <2>1. n \in Nat /\ DOMAIN s3 = 1..n
    OBVIOUS
  <2>2. 1 \in Int /\ n \in Int /\ n - 1 + 1 = n /\ (1 > n => n = 0)
    BY <2>1
  <2> HIDE DEF n
  <2> QED
    BY <2>1, <2>2, FS_Interval
<1>4. tp \subseteq Scoring!Candidates(s2, s3)
  BY DEF Settled
<1>5. red \cap fp = {}
  <2>1. Scoring!Found(tp) \subseteq DOMAIN s2
    BY <1>4 DEF Scoring!Found, Scoring!Candidates
  <2> QED
    BY <2>1
<1>6. ASSUME NEW i \in left PROVE i \in red \/ i \in fp
  <2> SUFFICES ASSUME NEW e \in DOMAIN s2, Scoring!Matches(s2[e], s3[i]) PROVE i \in red
    OBVIOUS
  <2> DEFINE c == <<e, i>>
  <2>1. c \in Scoring!Candidates(s2, s3) /\ c \notin tp
    BY DEF Scoring!Candidates, Scoring!Taken
  <2>2. PICK u \in tp : Share(u, c)
    BY <2>1 DEF Settled
  <2>3. u[2] # i
    BY DEF Scoring!Taken
  <2>4. u[1] = e
    BY <2>2, <2>3 DEF Share
  <2>5. e \in Scoring!Found(tp)
    BY <2>4 DEF Scoring!Found
  <2> QED
    BY <2>5
<1>7. T \cup (red \cup fp) = 1..n /\ T \cap (red \cup fp) = {}
  BY <1>2, <1>3, <1>6
<1>8. red \subseteq 1..n /\ fp \subseteq 1..n
  BY <1>3
<1> HIDE DEF T, red, fp, n
<1>9. IsFiniteSet(red) /\ IsFiniteSet(fp)
  BY <1>3, <1>8, FS_Subset
<1>10. /\ IsFiniteSet(red \cup fp)
       /\ Cardinality(red \cup fp) = Cardinality(red) + Cardinality(fp) - Cardinality(red \cap fp)
  BY <1>9, FS_Union
<1>11. Cardinality(T \cup (red \cup fp)) =
         Cardinality(T) + Cardinality(red \cup fp) - Cardinality(T \cap (red \cup fp))
  BY <1>2, <1>10, FS_Union
<1>12. Cardinality(red \cap fp) = 0 /\ Cardinality(T \cap (red \cup fp)) = 0
  BY <1>5, <1>7, FS_EmptySet
<1>13. Cardinality(red) \in Nat /\ Cardinality(fp) \in Nat /\ Cardinality(T) \in Nat
       /\ Cardinality(red \cup fp) \in Nat
  BY <1>2, <1>9, <1>10, FS_CardinalityType
<1>14. Cardinality(T) + Cardinality(red) + Cardinality(fp) = n
  <2>1. Cardinality(T \cup (red \cup fp)) = n
    BY <1>3, <1>7
  <2>2. \A a, b, c, d \in Nat : d = b + c - 0 /\ n = a + d - 0 => a + b + c = n
    BY <1>3
  <2> QED
    BY <1>10, <1>11, <1>12, <1>13, <2>1, <2>2
<1> QED
  BY <1>1, <1>2, <1>14 DEF n

(* One more report takes nothing away: the earliest hit that had no         *)
(* counterpart as early would have lost its report to a finding that gave   *)
(* up a better one.                                                         *)
LEMMA OneMoreReport ==
  ASSUME s2 \in Seq(Anchored), NEW reports \in Seq(Reported), NEW r \in Reported
  PROVE  Scoring!Found(Scoring!TruePositives(s2, reports))
           \subseteq Scoring!Found(Scoring!TruePositives(s2, Append(reports, r)))
<1> DEFINE more == Append(reports, r)
           G == Scoring!TruePositives(s2, reports)
           H == Scoring!TruePositives(s2, more)
           Lost == {c \in G : \A d \in H : d[1] = c[1] => ~(d = c \/ Scoring!Before(s2, more, d, c))}
<1>1. more \in Seq(Reported) /\ Len(more) = Len(reports) + 1 /\ Len(reports) \in Nat
      /\ \A i \in 1..Len(reports) : more[i] = reports[i]
  OBVIOUS
<1>2. Settled(reports, G) /\ Settled(more, H)
  BY <1>1, HitsAreSettled
<1> HIDE DEF more
<1>3. Scoring!Candidates(s2, reports) \in SUBSET Pairs(reports) /\ Pairs(reports) \in SUBSET Pairs(more)
  <2>1. DOMAIN reports \subseteq DOMAIN more
    BY <1>1
  <2> QED
    BY <2>1, CandidatesArePairs DEF Pairs
<1>4. \A c \in Pairs(reports) :
        c[2] \in 1..Len(reports) /\ (c \in Scoring!Candidates(s2, more) <=> c \in Scoring!Candidates(s2, reports))
  <2> SUFFICES ASSUME NEW c \in Pairs(reports)
               PROVE  c[2] \in 1..Len(reports)
                      /\ (c \in Scoring!Candidates(s2, more) <=> c \in Scoring!Candidates(s2, reports))
    OBVIOUS
  <2>1. c[2] \in 1..Len(reports) /\ c \in Pairs(more)
    BY <1>3 DEF Pairs
  <2>2. more[c[2]] = reports[c[2]]
    BY <1>1, <2>1
  <2> QED
    BY <2>1, <2>2 DEF Scoring!Candidates, Pairs
<1>5. \A c, d \in Pairs(reports) : Scoring!Before(s2, more, c, d) <=> Scoring!Before(s2, reports, c, d)
  BY <1>1, <1>4 DEF Scoring!Before, Scoring!Near, Scoring!Rank
<1> HIDE DEF G, H
<1>6. /\ G \in SUBSET Pairs(reports) /\ G \in SUBSET Pairs(more) /\ H \in SUBSET Pairs(more)
      /\ Pairs(reports) \in SUBSET Pairs(more)
  BY <1>2, <1>3, CandidatesArePairs DEF Settled
<1>7. \A c, d, e \in Pairs(more) :
        /\ ~Scoring!Before(s2, more, c, c)
        /\ Scoring!Before(s2, more, c, d) /\ Scoring!Before(s2, more, d, e) => Scoring!Before(s2, more, c, e)
  BY <1>1, CandidatesAreOrdered
<1>8. ASSUME Lost # {} PROVE FALSE
  <2>1. Lost \in SUBSET Pairs(more)
    BY <1>6
  <2>2. PICK c \in Lost : \A d \in Lost : d = c \/ Scoring!Before(s2, more, c, d)
    <3> HIDE DEF Lost
    <3> QED
      BY <1>1, <1>8, <2>1, FirstIsLeast
  <2>3. /\ c \in G /\ c \in Pairs(reports) /\ c \in Pairs(more)
        /\ c \in Scoring!Candidates(s2, more) /\ c \notin H
    BY <1>2, <1>3, <1>4, <1>6, <2>2 DEF Settled
  <2>4. PICK u \in H : Share(u, c) /\ Scoring!Before(s2, more, u, c)
    BY <1>2, <2>3 DEF Settled
  <2>5. u[1] # c[1] /\ u[2] = c[2]
    BY <2>2, <2>4 DEF Share
  <2>6. u \in Pairs(reports) /\ u \in Pairs(more) /\ u \in Scoring!Candidates(s2, reports)
    <3>1. u \in Pairs(more) /\ u \in Scoring!Candidates(s2, more)
      BY <1>2, <1>6 DEF Settled
    <3>2. u \in Pairs(reports)
      BY <1>4, <2>3, <2>5, <3>1 DEF Pairs
    <3> QED
      BY <1>4, <3>1, <3>2
  <2>7. u \notin G
    BY <1>2, <2>3, <2>4, <2>5 DEF Settled
  <2>8. PICK v \in G : Share(v, u) /\ Scoring!Before(s2, reports, v, u)
    BY <1>2, <2>6, <2>7 DEF Settled
  <2>9. v \in Pairs(more) /\ Scoring!Before(s2, more, v, u)
    BY <1>5, <1>6, <2>6, <2>8
  <2>10. v[2] # u[2]
    <3>1. ASSUME v[2] = u[2] PROVE v = c
      BY <1>2, <2>3, <2>5, <3>1 DEF Settled, Share
    <3> QED
      BY <1>7, <2>3, <2>4, <2>6, <2>9, <3>1
  <2>11. v[1] = u[1]
    BY <2>8, <2>10 DEF Share
  <2>12. v \notin Lost
    BY <1>7, <2>2, <2>3, <2>4, <2>6, <2>9
  <2>13. PICK d \in H : d[1] = v[1] /\ (d = v \/ Scoring!Before(s2, more, d, v))
    BY <2>8, <2>12
  <2>14. d = u
    BY <1>2, <2>4, <2>11, <2>13 DEF Settled, Share
  <2> QED
    BY <1>7, <2>6, <2>9, <2>13, <2>14
<1>9. \A c \in G : \E d \in H : d[1] = c[1]
  BY <1>8
<1> QED
  BY <1>9 DEF Scoring!Found, G, H, more

LEMMA ScoresCountOnce ==
  ASSUME Scoring!ScoringFits
  PROVE  Scoring!ScoreCountsOnce
<1> SUFFICES ASSUME s1 = "score", s5 # <<>> PROVE Scoring!ScoreCountsOnce
  BY DEF Scoring!ScoreCountsOnce
<1>1. s2 \in Seq(Anchored) /\ s3 \in Seq(Reported)
  BY DEF Scoring!ScoringFits, Anchored, Reported, Scoring!Untracked
<1> DEFINE tp == Scoring!TruePositives(s2, s3)
<1>2. PICK strict \in BOOLEAN : s5 = <<Scoring!ScoredWith(s2, s3, tp, strict), strict>>
  BY DEF Scoring!ScoringFits, Scoring!Scored
<1> DEFINE s == Scoring!ScoredWith(s2, s3, tp, strict)
<1>3. s5[1] = s
  BY <1>2
<1>4. Settled(s3, tp)
  BY <1>1, HitsAreSettled
<1>5. s.tp = tp /\ s.fn \cap Scoring!Found(tp) = {}
  BY DEF Scoring!ScoredWith
<1>6. Cardinality(s.tp) + Cardinality(s.redundant) + Cardinality(s.fp) = Len(s3)
  <2> HIDE DEF tp
  <2> QED
    BY <1>1, <1>4, ReportsAreCounted
<1> HIDE DEF s, tp
<1>7. Cardinality(tp) = Cardinality(Scoring!Found(tp)) /\ Cardinality(tp) = Cardinality(Scoring!Taken(tp))
  BY <1>1, <1>4, HitsAreCounted
<1>8. ASSUME NEW e \in DOMAIN s2 \ Scoring!Found(tp), NEW i \in DOMAIN s3 \ Scoring!Taken(tp)
      PROVE  ~Scoring!Matches(s2[e], s3[i])
  <2> SUFFICES ASSUME Scoring!Matches(s2[e], s3[i]) PROVE FALSE
    OBVIOUS
  <2>1. <<e, i>> \in Scoring!Candidates(s2, s3) /\ <<e, i>> \notin tp
    BY DEF Scoring!Candidates, Scoring!Taken
  <2>2. PICK u \in tp : Share(u, <<e, i>>)
    BY <1>4, <2>1 DEF Settled
  <2> QED
    BY <2>2 DEF Share, Scoring!Found, Scoring!Taken
<1>9. ASSUME NEW r \in Scoring!Reports({1, 2}, {Scoring!Untracked})
      PROVE  Scoring!Found(tp) \subseteq Scoring!Found(Scoring!TruePositives(s2, Append(s3, r)))
  <2>1. r \in Reported
    BY DEF Reported, Scoring!Reports, Scoring!Untracked
  <2> QED
    BY <1>1, <2>1, OneMoreReport DEF tp
<1> QED
  BY <1>3, <1>5, <1>6, <1>7, <1>8, <1>9, ScoredCounts DEF Scoring!ScoreCountsOnce

-----------------------------------------------------------------------------
(* The identity of what was reported                                        *)

LEMMA FirstOfFree ==
  ASSUME s3 \in Seq(Reported), NEW free \in SUBSET (DOMAIN s3), free # {}, NEW actionable \in BOOLEAN
  PROVE  /\ Scoring!FirstOf(s3, free, actionable) \in free
         /\ \A j \in free : Scoring!Ahead(s3, Scoring!FirstOf(s3, free, actionable), j, actionable)
<1> DEFINE tracked == {i \in free : Scoring!Tracked(s3[i])}
           best == IF actionable /\ tracked # {} THEN tracked ELSE free
<1>1. free \in SUBSET Nat /\ best \in SUBSET Nat /\ best # {} /\ best \subseteq free
  OBVIOUS
<1>2. PICK i \in best : \A j \in best : i <= j
  <2> HIDE DEF best
  <2> QED
    BY <1>1, LeastOfNumbers
<1>3. ASSUME NEW j \in free PROVE Scoring!Ahead(s3, i, j, actionable)
  <2>1. \A k \in free : Scoring!Tracked(s3[k]) \in BOOLEAN
    BY DEF Scoring!Tracked
  <2>2. j \in best => i <= j
    BY <1>2
  <2>3. actionable /\ tracked # {} => Scoring!Tracked(s3[i])
    BY <1>2
  <2>4. actionable /\ j \notin best => tracked # {} /\ ~Scoring!Tracked(s3[j])
    OBVIOUS
  <2>5. ~actionable => j \in best
    OBVIOUS
  <2>6. actionable /\ Scoring!Tracked(s3[j]) => tracked # {} /\ j \in best
    OBVIOUS
  <2>7. i \in free
    BY <1>1
  <2> HIDE DEF best, tracked
  <2> QED
    BY <2>1, <2>2, <2>3, <2>4, <2>5, <2>6, <2>7 DEF Scoring!Ahead
<1>4. i \in free
  BY <1>1
<1> QED
  BY <1>3, <1>4 DEF Scoring!FirstOf

Spare(S, e, used) == {i \in S \ Scoring!Taken(used) : Scoring!Matches(s2[e], s3[i])}

MatchedAs(S, actionable, e, used, next) ==
  LET x == Scoring!FirstOf(s3, Spare(S, e, used), actionable) IN
  \/ next = used /\ (Spare(S, e, used) = {} \/ (actionable /\ ~Scoring!Tracked(s3[x])))
  \/ /\ next = used \cup {<<e, x>>} /\ x \in Spare(S, e, used)
     /\ actionable => Scoring!Tracked(s3[x])

LEMMA MatchedIs ==
  ASSUME s3 \in Seq(Reported), NEW S \in SUBSET (DOMAIN s3), NEW actionable \in BOOLEAN,
         NEW e \in DOMAIN s2, NEW used
  PROVE  MatchedAs(S, actionable, e, used, Scoring!Matched(s2, s3, S, actionable, e, used))
<1>1. Spare(S, e, used) \in SUBSET (DOMAIN s3)
  BY DEF Spare
<1>2. Spare(S, e, used) # {} => Scoring!FirstOf(s3, Spare(S, e, used), actionable) \in Spare(S, e, used)
  BY <1>1, FirstOfFree
<1> QED
  BY <1>2 DEF Scoring!Matched, Spare, MatchedAs

(* The matches anchor by anchor.                                            *)
Follows(F, S, actionable) ==
  /\ F[0] = {} /\ \A e \in 1..Len(s2) : F[e] = Scoring!Matched(s2, s3, S, actionable, e, F[e - 1])
  /\ F[Len(s2)] = Scoring!FirstMatches(s2, s3, S, actionable)

LEMMA MatchesFollow ==
  ASSUME s2 \in Seq(Anchored), s3 \in Seq(Reported), NEW S \in SUBSET (DOMAIN s3),
         NEW actionable \in BOOLEAN
  PROVE  \E F : Follows(F, S, actionable)
<1> DEFINE m == Len(s2)
           Over(f) == [e \in 0..m |-> IF e = 0 THEN {} ELSE Scoring!Matched(s2, s3, S, actionable, e, f[e - 1])]
           Sets == SUBSET Pairs(s3)
           F == CHOOSE f : f = Over(f)
<1>1. m \in Nat /\ DOMAIN s2 = 1..m
  OBVIOUS
<1>2. \A e \in 1..m, used \in Sets : Scoring!Matched(s2, s3, S, actionable, e, used) \in Sets
  <2> SUFFICES ASSUME NEW e \in 1..m, NEW used \in Sets
               PROVE  Scoring!Matched(s2, s3, S, actionable, e, used) \in Sets
    OBVIOUS
  <2>1. \A x \in Spare(S, e, used) : <<e, x>> \in Pairs(s3)
    BY DEF Spare, Pairs
  <2>2. e \in DOMAIN s2
    BY <1>1
  <2>3. MatchedAs(S, actionable, e, used, Scoring!Matched(s2, s3, S, actionable, e, used))
    BY <2>2, MatchedIs
  <2> QED
    BY <2>1, <2>3 DEF MatchedAs
<1>3. F = Over(F)
  <2> DEFINE step == [e \in 1..m |-> [used \in Sets |-> Scoring!Matched(s2, s3, S, actionable, e, used)]]
             none == {}
  <2>1. step \in [1..m -> [Sets -> Sets]] /\ none \in Sets
    BY <1>2
  <2>2. PICK f \in [0..m -> Sets] : f[0] = none /\ \A e \in 1..m : f[e] = step[e][f[e - 1]]
    <3> HIDE DEF m, Sets, step, none
    <3>1. Iterated(m, Sets, none, step)
      BY <1>1, <2>1, StepByStep
    <3> QED
      BY <3>1 DEF Iterated, Iterates
  <2>3. \A e \in 1..m : f[e] = Scoring!Matched(s2, s3, S, actionable, e, f[e - 1])
    <3> SUFFICES ASSUME NEW e \in 1..m PROVE f[e] = Scoring!Matched(s2, s3, S, actionable, e, f[e - 1])
      OBVIOUS
    <3>1. e - 1 \in 0..m
      BY <1>1
    <3>2. f[e - 1] \in Sets
      BY <3>1
    <3> HIDE DEF m, Sets
    <3> QED
      BY <2>2, <3>2
  <2> HIDE DEF Sets, step, m
  <2>4. \A e \in 0..m : f[e] = IF e = 0 THEN {} ELSE Scoring!Matched(s2, s3, S, actionable, e, f[e - 1])
    <3>1. \A e \in 0..m : e = 0 \/ e \in 1..m
      BY <1>1
    <3> QED
      BY <2>2, <2>3, <3>1
  <2>5. f = Over(f)
    BY <2>4
  <2> HIDE DEF Over
  <2> QED
    BY <2>5
<1>4. Scoring!FirstMatches(s2, s3, S, actionable) = F[m]
  BY DEF Scoring!FirstMatches
<1> HIDE DEF F, m
<1>5. \A e \in 0..m : F[e] = IF e = 0 THEN {} ELSE Scoring!Matched(s2, s3, S, actionable, e, F[e - 1])
  <2>1. \A e \in 0..m : Over(F)[e] = IF e = 0 THEN {} ELSE Scoring!Matched(s2, s3, S, actionable, e, F[e - 1])
    OBVIOUS
  <2> HIDE DEF Over
  <2> QED
    BY <1>3, <2>1
<1>6. 0 \in 0..m /\ \A e \in 1..m : e \in 0..m /\ e # 0
  BY <1>1
<1>7. F[0] = {} /\ \A e \in 1..m : F[e] = Scoring!Matched(s2, s3, S, actionable, e, F[e - 1])
  BY <1>5, <1>6
<1> QED
  BY <1>4, <1>7 DEF Follows, m

(* What is matched is matched once, with a report of the set.               *)
LEMMA MatchesAreApart ==
  ASSUME s2 \in Seq(Anchored), s3 \in Seq(Reported), NEW S \in SUBSET (DOMAIN s3),
         NEW actionable \in BOOLEAN
  PROVE  LET M == Scoring!FirstMatches(s2, s3, S, actionable)
         IN  /\ M \in SUBSET Pairs(s3)
             /\ \A p \in M : p[2] \in S /\ (actionable => Scoring!Tracked(s3[p[2]]))
             /\ \A p, q \in M : p[2] = q[2] => p = q
<1> DEFINE Fine(M) == /\ M \in SUBSET Pairs(s3)
                      /\ \A p \in M : p[2] \in S /\ (actionable => Scoring!Tracked(s3[p[2]]))
                      /\ \A p, q \in M : p[2] = q[2] => p = q
           m == Len(s2)
<1>1. m \in Nat /\ DOMAIN s2 = 1..m
  OBVIOUS
<1>2. PICK F : Follows(F, S, actionable)
  BY MatchesFollow
<1> DEFINE Good == {e \in 0..m : Fine(F[e])}
<1>3. 0 \in Good
  BY <1>1, <1>2 DEF Follows
<1>4. ASSUME NEW e \in 1..m, e - 1 \in Good PROVE e \in Good
  <2> DEFINE used == F[e - 1]
             x == Scoring!FirstOf(s3, Spare(S, e, used), actionable)
  <2>1. Fine(used) /\ F[e] = Scoring!Matched(s2, s3, S, actionable, e, used)
    BY <1>2, <1>4 DEF Follows
  <2> HIDE DEF used
  <2>2. \/ F[e] = used
        \/ /\ F[e] = used \cup {<<e, x>>} /\ x \in Spare(S, e, used)
           /\ actionable => Scoring!Tracked(s3[x])
    <3>1. e \in DOMAIN s2
      BY <1>1
    <3>2. MatchedAs(S, actionable, e, used, Scoring!Matched(s2, s3, S, actionable, e, used))
      BY <3>1, MatchedIs
    <3> QED
      BY <2>1, <3>2 DEF MatchedAs
  <2> HIDE DEF x
  <2>3. CASE F[e] = used \cup {<<e, x>>} /\ x \in Spare(S, e, used) /\ (actionable => Scoring!Tracked(s3[x]))
    <3>1. x \in S /\ \A p \in used : p[2] # x
      BY <2>3 DEF Spare, Scoring!Taken
    <3>2. <<e, x>> \in Pairs(s3) /\ <<e, x>>[2] = x
      BY <1>1, <3>1 DEF Pairs
    <3>3. Fine(F[e])
      BY <2>1, <2>3, <3>1, <3>2
    <3> QED
      BY <3>3
  <2> QED
    BY <2>1, <2>2, <2>3
<1> HIDE DEF Good
<1>5. \A e \in 0..m : e \in Good
  BY <1>1, <1>3, <1>4, GoesUp
<1>6. m \in 0..m
  BY <1>1
<1>7. Fine(F[m])
  BY <1>5, <1>6 DEF Good
<1> QED
  BY <1>2, <1>7 DEF Follows

(* If none of the matched reports was merged into another one, the anchors  *)
(* find the same reports after the merge.                                   *)
LEMMA NoMergeNoLoss ==
  ASSUME s2 \in Seq(Anchored), s3 \in Seq(Reported),
         \A p \in Scoring!FirstMatches(s2, s3, DOMAIN s3, FALSE) : p[2] \in Scoring!Kept(s3)
  PROVE  Scoring!FirstMatches(s2, s3, Scoring!Kept(s3), FALSE) = Scoring!FirstMatches(s2, s3, DOMAIN s3, FALSE)
<1> DEFINE m == Len(s2)
           All == DOMAIN s3
           Left == Scoring!Kept(s3)
<1>1. m \in Nat /\ DOMAIN s2 = 1..m /\ All \in SUBSET All /\ Left \in SUBSET All /\ FALSE \in BOOLEAN
  BY DEF Scoring!Kept
<1>2. PICK F : Follows(F, All, FALSE)
  BY <1>1, MatchesFollow
<1>3. PICK G : Follows(G, Left, FALSE)
  BY <1>1, MatchesFollow
<1> HIDE DEF All, Left
<1> DEFINE Grown == {e \in 0..m : \A k \in 0..e : F[k] \subseteq F[e]}
           Same == {e \in 0..m : G[e] = F[e]}
<1>4. \A e \in 1..m : /\ MatchedAs(All, FALSE, e, F[e - 1], F[e])
                      /\ MatchedAs(Left, FALSE, e, G[e - 1], G[e])
  <2> SUFFICES ASSUME NEW e \in 1..m
               PROVE  /\ MatchedAs(All, FALSE, e, F[e - 1], F[e])
                      /\ MatchedAs(Left, FALSE, e, G[e - 1], G[e])
    OBVIOUS
  <2>1. e \in DOMAIN s2 /\ All \in SUBSET (DOMAIN s3) /\ Left \in SUBSET (DOMAIN s3)
    BY <1>1 DEF All
  <2>2. /\ MatchedAs(All, FALSE, e, F[e - 1], Scoring!Matched(s2, s3, All, FALSE, e, F[e - 1]))
        /\ MatchedAs(Left, FALSE, e, G[e - 1], Scoring!Matched(s2, s3, Left, FALSE, e, G[e - 1]))
    BY <1>1, <2>1, MatchedIs
  <2> QED
    BY <1>2, <1>3, <2>2 DEF Follows
<1>5. \A e \in 0..m : F[e] \subseteq F[m]
  <2>1. 0 \in Grown
    BY <1>1
  <2>2. ASSUME NEW e \in 1..m, e - 1 \in Grown PROVE e \in Grown
    <3>1. F[e - 1] \subseteq F[e]
      BY <1>4 DEF MatchedAs
    <3>2. \A k \in 0..e : k = e \/ k \in 0..(e - 1)
      BY <1>1
    <3>3. e \in 0..m
      BY <1>1
    <3> QED
      BY <2>2, <3>1, <3>2, <3>3
  <2> HIDE DEF Grown
  <2>3. \A e \in 0..m : e \in Grown
    BY <1>1, <2>1, <2>2, GoesUp
  <2>4. m \in 0..m
    BY <1>1
  <2> QED
    BY <2>3, <2>4 DEF Grown
<1>6. 0 \in Same
  <2>1. 0 \in 0..m /\ F[0] = {} /\ G[0] = {}
    BY <1>1, <1>2, <1>3 DEF Follows
  <2> QED
    BY <2>1
<1>7. ASSUME NEW e \in 1..m, e - 1 \in Same PROVE e \in Same
  <2> DEFINE used == F[e - 1]
             x == Scoring!FirstOf(s3, Spare(All, e, used), FALSE)
             y == Scoring!FirstOf(s3, Spare(Left, e, used), FALSE)
  <2>1. MatchedAs(All, FALSE, e, used, F[e]) /\ MatchedAs(Left, FALSE, e, used, G[e])
    BY <1>4, <1>7
  <2>2. /\ Spare(Left, e, used) \subseteq Spare(All, e, used) /\ Spare(All, e, used) \in SUBSET (DOMAIN s3)
        /\ \A i \in Spare(All, e, used) : i \in Left => i \in Spare(Left, e, used)
    BY <1>1 DEF Spare, All
  <2> HIDE DEF used
  <2>3. e \in 0..m
    BY <1>1
  <2>4. CASE Spare(All, e, used) = {}
    BY <2>1, <2>2, <2>3, <2>4 DEF MatchedAs
  <2>5. CASE Spare(All, e, used) # {}
    <3>1. F[e] = used \cup {<<e, x>>} /\ x \in Spare(All, e, used)
      BY <2>1, <2>5 DEF MatchedAs
    <3>2. x \in Left
      <4>1. <<e, x>> \in Scoring!FirstMatches(s2, s3, DOMAIN s3, FALSE) /\ <<e, x>>[2] = x
        BY <1>2, <1>5, <2>3, <3>1 DEF Follows, All
      <4> QED
        BY <4>1 DEF Left
    <3>3. x \in Spare(Left, e, used)
      BY <2>2, <3>1, <3>2
    <3>4. /\ \A i \in Spare(All, e, used) : Scoring!Ahead(s3, x, i, FALSE)
          /\ y \in Spare(Left, e, used) /\ \A i \in Spare(Left, e, used) : Scoring!Ahead(s3, y, i, FALSE)
      <4>1. Spare(Left, e, used) # {} /\ Spare(Left, e, used) \in SUBSET (DOMAIN s3)
        BY <2>2, <3>3
      <4> QED
        BY <2>2, <2>5, <4>1, FirstOfFree
    <3>5. x <= y /\ y <= x /\ x \in Nat /\ y \in Nat
      <4>1. Scoring!Ahead(s3, x, y, FALSE) /\ Scoring!Ahead(s3, y, x, FALSE)
        BY <2>2, <3>3, <3>4
      <4>2. x \in DOMAIN s3 /\ y \in DOMAIN s3
        BY <2>2, <3>1, <3>4
      <4> HIDE DEF x, y
      <4> QED
        BY <4>1, <4>2 DEF Scoring!Ahead
    <3>6. x = y
      <4> HIDE DEF x, y
      <4> QED
        BY <3>5
    <3>7. G[e] = used \cup {<<e, y>>}
      BY <2>1, <3>3 DEF MatchedAs
    <3> QED
      BY <2>3, <3>1, <3>6, <3>7
  <2> QED
    BY <2>4, <2>5
<1> HIDE DEF Same
<1>8. \A e \in 0..m : e \in Same
  BY <1>1, <1>6, <1>7, GoesUp
<1>9. m \in 0..m
  BY <1>1
<1> QED
  BY <1>2, <1>3, <1>8, <1>9 DEF Follows, All, Left, Same

(* The tracked reports that are left have distinct fingerprints.            *)
LEMMA HitsAreDistinct ==
  ASSUME s2 \in Seq(Anchored), s3 \in Seq(Reported)
  PROVE  LET hits == Scoring!FirstMatches(s2, s3, Scoring!Actionable(s3, s4), TRUE)
         IN  /\ Cardinality({s3[h[2]].print : h \in hits}) = Cardinality(hits)
             /\ Cardinality(hits) \in Nat
<1> DEFINE hits == Scoring!FirstMatches(s2, s3, Scoring!Actionable(s3, s4), TRUE)
           prints == {s3[h[2]].print : h \in hits}
           f == [h \in hits |-> s3[h[2]].print]
<1>1. Scoring!Actionable(s3, s4) \in SUBSET (DOMAIN s3) /\ Scoring!Actionable(s3, s4) \subseteq Scoring!Kept(s3)
  BY DEF Scoring!Actionable, Scoring!Kept
<1>2. /\ hits \in SUBSET Pairs(s3)
      /\ \A p \in hits : p[2] \in Scoring!Kept(s3) /\ Scoring!Tracked(s3[p[2]])
      /\ \A p, q \in hits : p[2] = q[2] => p = q
  BY <1>1, MatchesAreApart
<1> HIDE DEF hits
<1>3. IsFiniteSet(hits)
  <2>1. IsFiniteSet(DOMAIN s2) /\ IsFiniteSet(DOMAIN s3)
    <3>1. DOMAIN s2 = 1..Len(s2) /\ DOMAIN s3 = 1..Len(s3) /\ 1 \in Int /\ Len(s2) \in Int /\ Len(s3) \in Int
      OBVIOUS
    <3> QED
      BY <3>1, FS_Interval
  <2>2. IsFiniteSet(Pairs(s3))
    BY <2>1, FS_Product DEF Pairs
  <2> QED
    BY <1>2, <2>2, FS_Subset
<1>4. ASSUME NEW p \in hits, NEW q \in hits, s3[p[2]].print = s3[q[2]].print PROVE p = q
  <2>1. /\ p[2] \in Scoring!Kept(s3) /\ Scoring!Tracked(s3[p[2]]) /\ p[2] \in Nat
        /\ q[2] \in Scoring!Kept(s3) /\ Scoring!Tracked(s3[q[2]]) /\ q[2] \in Nat
    BY <1>2 DEF Scoring!Kept
  <2>2. /\ \A j \in 1..(p[2] - 1) : s3[j].print # s3[p[2]].print
        /\ \A j \in 1..(q[2] - 1) : s3[j].print # s3[q[2]].print
    BY <2>1 DEF Scoring!Kept
  <2>3. p[2] \in 1..Len(s3) /\ q[2] \in 1..Len(s3)
    BY <2>1 DEF Scoring!Kept
  <2>4. ~(p[2] < q[2]) /\ ~(q[2] < p[2])
    <3>1. p[2] < q[2] => p[2] \in 1..(q[2] - 1)
      BY <2>1, <2>3
    <3>2. q[2] < p[2] => q[2] \in 1..(p[2] - 1)
      BY <2>1, <2>3
    <3> QED
      BY <1>4, <2>2, <3>1, <3>2
  <2>5. p[2] = q[2]
    BY <2>1, <2>4
  <2> QED
    BY <1>2, <2>5
<1>5. f \in Bijection(hits, prints)
  <2>1. f \in [hits -> prints] /\ \A t \in prints : \E h \in hits : f[h] = t
    OBVIOUS
  <2>2. \A p, q \in hits : f[p] = f[q] => p = q
    BY <1>4
  <2> HIDE DEF f, prints
  <2> QED
    BY <2>1, <2>2 DEF Bijection, Injection, Surjection, IsInjective
<1>6. Cardinality(prints) = Cardinality(hits)
  <2> HIDE DEF f, prints
  <2> QED
    BY <1>3, <1>5, FS_Bijection DEF ExistsBijection
<1>7. Cardinality(hits) \in Nat
  BY <1>3, FS_CardinalityType
<1> QED
  BY <1>6, <1>7 DEF hits

LEMMA FailuresAreCollapses ==
  ASSUME Scoring!ScoringFits
  PROVE  Scoring!FailureIsCollapse
<1> SUFFICES ASSUME s1 = "identity", s5 # <<>>, s5[1] = "fail" PROVE Scoring!FailureIsCollapse
  BY DEF Scoring!FailureIsCollapse
<1>1. s2 \in Seq(Anchored) /\ s3 \in Seq(Reported)
  BY DEF Scoring!ScoringFits, Anchored, Reported, Scoring!Untracked
<1> DEFINE before == Scoring!FirstMatches(s2, s3, DOMAIN s3, FALSE)
           after == Scoring!FirstMatches(s2, s3, Scoring!Kept(s3), FALSE)
           hits == Scoring!FirstMatches(s2, s3, Scoring!Actionable(s3, s4), TRUE)
           prints == {s3[h[2]].print : h \in hits}
           victims == (Scoring!Found(before) \ Scoring!Found(after)) \ Scoring!Found(hits)
<1>2. s5 = Scoring!KeepDistinct(s2, s3, s4)
  BY DEF Scoring!ScoringFits
<1>3. /\ Cardinality(prints) = Cardinality(hits) /\ Cardinality(hits) \in Nat
      /\ Scoring!Cardinality(prints) = Cardinality(prints) /\ Scoring!Cardinality(hits) = Cardinality(hits)
  <2>1. Cardinality(prints) = Cardinality(hits) /\ Cardinality(hits) \in Nat
    BY <1>1, HitsAreDistinct
  <2> QED
    BY <2>1, ScoredCounts
<1>4. s5[2] = victims /\ victims # {}
  <2>1. ~(Scoring!Cardinality(prints) < Scoring!Cardinality(hits))
    <3> HIDE DEF hits, prints
    <3> QED
      BY <1>3
  <2>2. s5[1] = "fail" /\ "fail" # "na" /\ "fail" # "pass"
    OBVIOUS
  <2> QED
    BY <1>2, <2>1, <2>2 DEF Scoring!KeepDistinct
<1>5. ASSUME \A p \in before : p[2] \in Scoring!Kept(s3) PROVE FALSE
  <2>1. after = before
    BY <1>1, <1>5, NoMergeNoLoss
  <2> HIDE DEF before, after
  <2> QED
    BY <1>4, <2>1
<1>6. PICK p \in before : p[2] \notin Scoring!Kept(s3)
  BY <1>5
<1>7. p[2] \in DOMAIN s3
  <2>1. before \in SUBSET Pairs(s3)
    BY <1>1, MatchesAreApart
  <2> HIDE DEF before
  <2> QED
    BY <1>6, <2>1 DEF Pairs
<1>8. Scoring!Tracked(s3[p[2]]) /\ \E i \in 1..(p[2] - 1) : s3[i].print = s3[p[2]].print
  BY <1>6, <1>7 DEF Scoring!Kept
<1> HIDE DEF before, victims
<1> QED
  BY <1>4, <1>6, <1>8 DEF Scoring!FailureIsCollapse, before, victims

LEMMA ScoringAlone == part = "scoring" /\ PartsNext => Scoring!ScoringNext
BY DEF PartsNext, OpenDatabase, InstallHook, SetUpAgent, ChoosePreference,
  FindStateRoot, KeepFindings, SuggestDuplicate, SummariseFindings, GatherContext,
  ReadDiff, ReadDocument, PublishFindings, RecordTelemetry, RunCommand, CheckProtocol,
  ScoreCase, RunEvaluation, RunVerification, Runs, Rest

LEMMA ScoringStarts ==
  ASSUME Scoring!ScoringInit
  PROVE  Scoring!ScoringFits
<1>1. s5 = <<>>
  BY DEF Scoring!ScoringInit
<1>2. ASSUME NEW S, NEW T, S \subseteq T, NEW n, NEW list \in Scoring!Lists(S, n)
      PROVE  list \in Seq(T)
  <2>1. PICK k \in 0..n : list \in [1..k -> S]
    BY <1>2 DEF Scoring!Lists
  <2>2. list \in [1..k -> T] /\ k \in Nat
    BY <1>2, <2>1
  <2> QED
    BY <2>2
<1> DEFINE E == Scoring!Expectations({1, 2}, BOOLEAN)
           R == Scoring!Reports({1, 2}, {"p", "q", "none"})
<1>3. /\ Scoring!Expectations({1}, BOOLEAN) \cup Scoring!Expectations({2}, {TRUE}) \subseteq E
      /\ Scoring!Expectations({1}, {TRUE}) \subseteq E
  BY DEF Scoring!Expectations
<1>4. /\ Scoring!Reports({1, 2}, {"none"}) \subseteq R
      /\ Scoring!Reports({1}, {"p", "q", "none"}) \subseteq R
  BY DEF Scoring!Reports
<1> HIDE DEF E, R
<1>5. CASE s1 = "score"
  <2>1. /\ s2 \in Scoring!Lists(Scoring!Expectations({1}, BOOLEAN) \cup Scoring!Expectations({2}, {TRUE}), MaxExpected)
        /\ s3 \in Scoring!Lists(Scoring!Reports({1, 2}, {"none"}), MaxReported)
    BY <1>5 DEF Scoring!ScoringInit, Scoring!Untracked
  <2>2. s2 \in Seq(E) /\ s3 \in Seq(R)
    BY <1>2, <1>3, <1>4, <2>1
  <2> QED
    BY <1>1, <2>2 DEF Scoring!ScoringFits, E, R, Scoring!Untracked
<1>6. CASE s1 # "score"
  <2>1. /\ s2 \in Scoring!Lists(Scoring!Expectations({1}, {TRUE}), MaxExpected)
        /\ s3 \in Scoring!Lists(Scoring!Reports({1}, {"p", "q", "none"}), MaxReported)
    BY <1>6 DEF Scoring!ScoringInit, Scoring!Untracked
  <2>2. s2 \in Seq(E) /\ s3 \in Seq(R)
    BY <1>2, <1>3, <1>4, <2>1
  <2> QED
    BY <1>1, <2>2 DEF Scoring!ScoringFits, E, R, Scoring!Untracked
<1> QED
  BY <1>5, <1>6

LEMMA ScoringKeeps ==
  ASSUME Scoring!ScoringFits, Scoring!ScoringNext
  PROVE  Scoring!ScoringFits'
<1>1. s1' = s1 /\ s2' = s2 /\ s3' = s3 /\ s4' = s4
  BY DEF Scoring!ScoringNext, Scoring!ScoreTrial, Scoring!ScoreIdentity
<1>2. /\ s2 \in Seq(Scoring!Expectations({1, 2}, BOOLEAN))
      /\ s3 \in Seq(Scoring!Reports({1, 2}, {"p", "q", Scoring!Untracked}))
  BY DEF Scoring!ScoringFits
<1>3. IF s1 = "score"
      THEN \E strict \in BOOLEAN : s5' = Scoring!Scored(s2, s3, strict)
      ELSE s5' = Scoring!KeepDistinct(s2, s3, s4)
  BY DEF Scoring!ScoringNext, Scoring!ScoreTrial, Scoring!ScoreIdentity
<1> QED
  BY <1>1, <1>2, <1>3 DEF Scoring!ScoringFits

ScoringInv == part = "scoring" => Scoring!ScoringFits

LEMMA ScoringInductive == PartsSpec => []ScoringInv
<1>1. PartsInit => ScoringInv
  BY ScoringStarts DEF PartsInit, ScoringInv
<1>2. ScoringInv /\ [PartsNext]_partsVars => ScoringInv'
  <2>1. ASSUME ScoringInv, PartsNext
        PROVE  ScoringInv'
    BY <2>1, PartStays, ScoringAlone, ScoringKeeps DEF ScoringInv
  <2>2. ASSUME ScoringInv, UNCHANGED partsVars
        PROVE  ScoringInv'
    <3>1. s1' = s1 /\ s2' = s2 /\ s3' = s3 /\ s4' = s4 /\ s5' = s5 /\ part' = part
      BY <2>2 DEF partsVars
    <3>2. Scoring!ScoringFits => Scoring!ScoringFits'
      BY <3>1 DEF Scoring!ScoringFits
    <3> QED
      BY <2>2, <3>1, <3>2 DEF ScoringInv
  <2> QED
    BY <2>1, <2>2
<1> QED
  BY <1>1, <1>2, PTL DEF PartsSpec

-----------------------------------------------------------------------------
(* A run of the evaluation                                                  *)

LEMMA EvaluationAlone == part = "evaluation" /\ PartsNext => Eval!EvalNext
BY DEF PartsNext, OpenDatabase, InstallHook, SetUpAgent, ChoosePreference,
  FindStateRoot, KeepFindings, SuggestDuplicate, SummariseFindings, GatherContext,
  ReadDiff, ReadDocument, PublishFindings, RecordTelemetry, RunCommand, CheckProtocol,
  ScoreCase, RunEvaluation, RunVerification, Runs, Rest

LEMMA EvaluationCounts == ASSUME NEW S PROVE Eval!Cardinality(S) = Cardinality(S)
BY DEF Eval!Cardinality, Cardinality

EvalPlaces == {"load", "make", "review", "clean", "result", "report", "reference", "answer", "done"}
EvalTrial == [found : BOOLEAN, noise : BOOLEAN, error : BOOLEAN]
EvalStates == [pc : EvalPlaces, step : Nat, trial : EvalTrial, exit : {0, 1}, wrote : BOOLEAN]

(* Cases, options, and a trial's outcome.                                   *)
LEMMA CasesFit ==
  /\ Len(EvalCases) \in Nat \ {0} /\ Eval!All = 1..Len(EvalCases)
  /\ \A c \in Eval!All : EvalCases[c].clean \in BOOLEAN /\ EvalCases[c].steps \in Nat \ {0}
<1>1. Len(EvalCases) \in Nat \ {0} /\ DOMAIN EvalCases = 1..Len(EvalCases)
  BY EvaluationAssumption
<1>2. ASSUME NEW c \in 1..Len(EvalCases)
      PROVE  EvalCases[c] \in [clean : BOOLEAN, steps : Nat \ {0}]
  <2> DEFINE S == [clean : BOOLEAN, steps : Nat \ {0}]
  <2>1. EvalCases \in Seq(S) /\ c \in DOMAIN EvalCases
    BY <1>1, EvaluationAssumption
  <2> HIDE DEF S
  <2>2. EvalCases[c] \in S
    BY <2>1
  <2> QED
    BY <2>2 DEF S
<1> QED
  BY <1>1, <1>2 DEF Eval!All

LEMMA OutcomesFit ==
  ASSUME NEW c, NEW r \in Eval!Outcomes(c)
  PROVE  /\ r \in EvalTrial
         /\ r.found => ~r.noise /\ ~r.error /\ ~EvalCases[c].clean
         /\ r.noise => ~r.error
<1> DEFINE Is(f, n, e) == r = [found |-> f, noise |-> n, error |-> e]
<1>1. \/ Is(FALSE, FALSE, FALSE) \/ Is(FALSE, FALSE, TRUE) \/ Is(FALSE, TRUE, FALSE)
      \/ Is(TRUE, FALSE, FALSE) /\ ~EvalCases[c].clean
  BY DEF Eval!Outcomes, Eval!Quiet, Eval!Failed
<1>2. ASSUME NEW f \in BOOLEAN, NEW n \in BOOLEAN, NEW e \in BOOLEAN, Is(f, n, e)
      PROVE  r \in EvalTrial /\ r.found = f /\ r.noise = n /\ r.error = e
  BY <1>2 DEF EvalTrial
<1> HIDE DEF Is
<1> QED
  BY <1>1, <1>2

LEMMA EvaluationStarts ==
  ASSUME Eval!EvalInit
  PROVE  Eval!EvalFits
<1>1. /\ s1 \in [mode : {"diffowl", "baseline", "both"}, trials : 1..MaxTrials, report : {{}}]
      /\ s2 = [case |-> 1, mode |-> 1, trial |-> 1] /\ s3 = {} /\ s6 = <<>>
      /\ s5 = [k \in Eval!All \X {"diffowl", "baseline"} |-> Eval!NoTrials]
      /\ s4 = [pc |-> "load", step |-> 1, trial |-> Eval!Quiet, exit |-> 0, wrote |-> FALSE]
  BY DEF Eval!EvalInit
<1>2. s1 \in [mode : {"diffowl", "baseline", "both"}, trials : 1..MaxTrials, report : Eval!Options]
  BY <1>1 DEF Eval!Options
<1>3. s1.trials \in Nat /\ 1 \in 1..s1.trials
  BY <1>1, EvaluationAssumption
<1>4. s2 \in [case : 1..(Len(EvalCases) + 1), mode : 1..Len(Eval!Modes(s1.mode)), trial : 1..s1.trials]
  <2>1. 1 \in 1..(Len(EvalCases) + 1) /\ 1 \in Eval!All
    BY CasesFit
  <2>2. 1 \in 1..Len(Eval!Modes(s1.mode))
    BY DEF Eval!Modes
  <2> QED
    BY <1>1, <1>3, <2>1, <2>2
<1>5. s4 \in EvalStates
  BY <1>1 DEF EvalStates, EvalPlaces, EvalTrial, Eval!Quiet
<1>6. Eval!ResultsFit
  <2>1. ASSUME NEW c \in Eval!All, NEW m \in {"diffowl", "baseline"}
        PROVE  Eval!TrialsDone(s1, s2, c, m) = 0
    BY <1>1, CasesFit DEF Eval!TrialsDone
  <2>2. ASSUME NEW c \in Eval!All
        PROVE  Eval!NoTrials \in Eval!Numbers(c, 0)
    BY DEF Eval!NoTrials, Eval!Numbers
  <2> QED
    BY <1>1, <2>1, <2>2 DEF Eval!ResultsFit
<1> QED
  BY <1>1, <1>2, <1>4, <1>5, <1>6, CasesFit DEF Eval!EvalFits, EvalStates, EvalPlaces, EvalTrial

(* A step that leaves the results and the turn.                             *)
LEMMA ResultsStay ==
  ASSUME Eval!EvalFits, s2' = s2, s5' = s5, s1'.mode = s1.mode, s1'.trials = s1.trials
  PROVE  Eval!ResultsFit'
<1>1. ASSUME NEW c \in Eval!All, NEW m \in {"diffowl", "baseline"}
      PROVE  Eval!TrialsDone(s1', s2', c, m) = Eval!TrialsDone(s1, s2, c, m)
  BY DEF Eval!TrialsDone
<1> QED
  BY <1>1 DEF Eval!ResultsFit, Eval!EvalFits

(* The steps up to the end of a trial.                                      *)
LEMMA TrialGoesOn ==
  ASSUME Eval!EvalFits, Eval!Load \/ Eval!Materialize \/ Eval!Review \/ Eval!Cleanup
  PROVE  Eval!EvalFits'
<1>1. s1' = s1 /\ s2' = s2 /\ s5' = s5 /\ s6' = s6 /\ s4 \in EvalStates /\ s2.case \in Eval!All
  BY DEF Eval!Load, Eval!Materialize, Eval!Review, Eval!Cleanup, Eval!Fixed, Eval!EvalFits,
    EvalStates, EvalPlaces, EvalTrial
<1>2. Eval!ResultsFit'
  BY <1>1, ResultsStay
<1>3. /\ s4' \in EvalStates /\ s3' \subseteq {"work"}
      /\ s4'.pc \in {"clean", "result"} => s4'.trial \in Eval!Outcomes(s2.case)
      /\ s4'.pc \notin {"review", "clean", "done"} => s3' = {}
      /\ s4'.pc = "done" => s4'.exit = 1
      /\ s4'.pc \in {"load", "make", "review", "clean", "result", "done"}
  <2>1. CASE Eval!Load
    <3>1. s4.pc = "load" /\ s3 = {} /\ s3' = {} /\ (s4' = [s4 EXCEPT !.pc = "done", !.exit = 1] \/ s4' = [s4 EXCEPT !.pc = "make"])
      BY <2>1 DEF Eval!Load, Eval!Ends, Eval!EvalFits
    <3> QED
      BY <1>1, <3>1 DEF EvalStates, EvalPlaces
  <2>2. CASE Eval!Materialize
    <3>1. s4.pc = "make" /\ s3 = {}
      BY <2>2 DEF Eval!Materialize, Eval!EvalFits
    <3>2. \/ s3' = {"work"} /\ s4' = [s4 EXCEPT !.pc = "review", !.step = 1]
          \/ s3' = {} /\ s4' = [s4 EXCEPT !.pc = "result", !.trial = Eval!Failed]
      BY <2>2, <3>1 DEF Eval!Materialize
    <3>3. Eval!Failed \in Eval!Outcomes(s2.case) /\ Eval!Failed \in EvalTrial
      BY OutcomesFit DEF Eval!Outcomes
    <3>4. s4' \in EvalStates
      <4>1. ASSUME s4' = [s4 EXCEPT !.pc = "review", !.step = 1] PROVE s4' \in EvalStates
        BY <1>1, <4>1 DEF EvalStates, EvalPlaces
      <4>2. ASSUME s4' = [s4 EXCEPT !.pc = "result", !.trial = Eval!Failed] PROVE s4' \in EvalStates
        BY <1>1, <3>3, <4>2 DEF EvalStates, EvalPlaces
      <4> QED
        BY <3>2, <4>1, <4>2
    <3>5. \/ s3' = {"work"} /\ s4'.pc = "review"
          \/ s3' = {} /\ s4'.pc = "result" /\ s4'.trial = Eval!Failed
      BY <1>1, <3>2 DEF EvalStates
    <3> QED
      BY <3>3, <3>4, <3>5
  <2>3. CASE Eval!Review
    <3>1. s4.pc = "review" /\ s3' = s3 /\ s3 \subseteq {"work"}
      BY <2>3 DEF Eval!Review, Eval!EvalFits
    <3>2. PICK outcome \in Eval!Outcomes(s2.case) :
            s4' = IF ~outcome.error /\ s4.step < Eval!Steps
                  THEN [s4 EXCEPT !.step = @ + 1]
                  ELSE [s4 EXCEPT !.pc = "clean", !.trial = outcome]
      BY <2>3 DEF Eval!Review
    <3>3. outcome \in EvalTrial
      BY OutcomesFit
    <3>4. s4.step \in Nat /\ s4.step + 1 \in Nat
      BY <1>1 DEF EvalStates
    <3>5. s4' \in EvalStates
      BY <1>1, <3>2, <3>3, <3>4 DEF EvalStates, EvalPlaces
    <3>6. s4'.pc = "review" \/ (s4'.pc = "clean" /\ s4'.trial = outcome)
      BY <1>1, <3>1, <3>2 DEF EvalStates
    <3> QED
      BY <3>1, <3>5, <3>6
  <2>4. CASE Eval!Cleanup
    <3>1. s4.pc = "clean" /\ s3 \subseteq {"work"} /\ s4.trial \in Eval!Outcomes(s2.case)
      BY <2>4 DEF Eval!Cleanup, Eval!EvalFits
    <3>2. \/ s3' = {} /\ s4' = [s4 EXCEPT !.pc = "result"]
          \/ s3' = s3 /\ s4' = [s4 EXCEPT !.pc = "done", !.exit = 1]
      BY <2>4, <3>1 DEF Eval!Cleanup, Eval!Ends
    <3> QED
      BY <1>1, <3>1, <3>2 DEF EvalStates, EvalPlaces
  <2> QED
    BY <2>1, <2>2, <2>3, <2>4
<1> QED
  BY <1>1, <1>2, <1>3 DEF Eval!EvalFits, EvalStates, EvalPlaces, EvalTrial

(* The mode of a turn is one of those asked for, at its place.              *)
LEMMA ModeFits ==
  ASSUME Eval!EvalFits
  PROVE  /\ Eval!Mode \in {"diffowl", "baseline"} /\ s1.mode \in {Eval!Mode, "both"}
         /\ s2.mode = IF s1.mode = "both" /\ Eval!Mode = "baseline" THEN 2 ELSE 1
         /\ Len(Eval!Modes(s1.mode)) = IF s1.mode = "both" THEN 2 ELSE 1
<1>1. s1.mode \in {"diffowl", "baseline", "both"} /\ s2.mode \in 1..Len(Eval!Modes(s1.mode))
  BY DEF Eval!EvalFits
<1>2. CASE s1.mode = "both"
  <2>1. Eval!Modes(s1.mode) = <<"diffowl", "baseline">>
    BY <1>2 DEF Eval!Modes
  <2>2. s2.mode \in {1, 2}
    BY <1>1, <2>1
  <2> QED
    BY <1>2, <2>1, <2>2 DEF Eval!Mode
<1>3. CASE s1.mode # "both"
  <2>1. Eval!Modes(s1.mode) = <<s1.mode>>
    BY <1>3 DEF Eval!Modes
  <2>2. s2.mode = 1
    BY <1>1, <2>1
  <2> QED
    BY <1>1, <1>3, <2>1, <2>2 DEF Eval!Mode
<1> QED
  BY <1>2, <1>3

(* A trial is counted once.                                                 *)
LEMMA TrialIsCounted ==
  ASSUME Eval!EvalFits, Eval!Result
  PROVE  Eval!EvalFits'
<1> DEFINE c0 == s2.case
           m0 == Eval!Mode
           next == Eval!NextTurn
<1>1. /\ s4.pc = "result" /\ c0 \in Eval!All /\ s3 = {} /\ s3' = {} /\ s1' = s1 /\ s6' = s6
      /\ s2' = next /\ s4.trial \in Eval!Outcomes(c0)
      /\ s5' = [s5 EXCEPT ![<<c0, m0>>] =
                  [trials |-> @.trials + 1, found |-> @.found + Eval!One(s4.trial.found),
                   noise |-> @.noise + Eval!One(s4.trial.noise), error |-> @.error + Eval!One(s4.trial.error)]]
      /\ s4' = [s4 EXCEPT !.pc = IF next.case > Len(EvalCases) THEN "report" ELSE "make", !.trial = Eval!Quiet]
  BY DEF Eval!Result, Eval!EvalFits, Eval!Fixed
<1>2. /\ s1 \in [mode : {"diffowl", "baseline", "both"}, trials : 1..MaxTrials, report : Eval!Options]
      /\ s2 \in [case : 1..(Len(EvalCases) + 1), mode : 1..Len(Eval!Modes(s1.mode)), trial : 1..s1.trials]
      /\ s4 \in EvalStates
      /\ Eval!ResultsFit
  BY DEF Eval!EvalFits, EvalStates, EvalPlaces, EvalTrial
<1>3. /\ m0 \in {"diffowl", "baseline"} /\ s1.mode \in {m0, "both"}
      /\ s2.mode = IF s1.mode = "both" /\ m0 = "baseline" THEN 2 ELSE 1
      /\ Len(Eval!Modes(s1.mode)) = IF s1.mode = "both" THEN 2 ELSE 1
  BY ModeFits
<1> HIDE DEF m0
<1>4. /\ next \in [case : 1..(Len(EvalCases) + 1), mode : 1..Len(Eval!Modes(s1.mode)), trial : 1..s1.trials]
      /\ \A c \in Eval!All, m \in {"diffowl", "baseline"} :
           Eval!TrialsDone(s1, next, c, m)
             = Eval!TrialsDone(s1, s2, c, m) + (IF c = c0 /\ m = m0 THEN 1 ELSE 0)
      /\ \A c \in Eval!All, m \in {"diffowl", "baseline"} : Eval!TrialsDone(s1, s2, c, m) \in Nat
  <2> DEFINE n == s1.trials
             L == Len(EvalCases)
             k == Len(Eval!Modes(s1.mode))
  <2>1. /\ n \in Nat /\ c0 \in 1..L /\ L \in Nat /\ s2.trial \in 1..n /\ k \in {1, 2}
        /\ s2.mode \in 1..k /\ 1 \in 1..n /\ 1 \in 1..k /\ s2 = [case |-> c0, mode |-> s2.mode, trial |-> s2.trial]
        /\ Eval!All = 1..L
    BY <1>1, <1>2, <1>3, CasesFit, EvaluationAssumption
  <2>2. CASE s2.trial < n
    <3>1. next = [case |-> c0, mode |-> s2.mode, trial |-> s2.trial + 1]
      BY <2>1, <2>2 DEF Eval!NextTurn
    <3> HIDE DEF next, c0, n, L, k
    <3>2. next.case = c0 /\ next.mode = s2.mode /\ next.trial = s2.trial + 1
      BY <3>1
    <3> QED
      BY <1>3, <2>1, <2>2, <3>1, <3>2 DEF Eval!TrialsDone, c0, n, L, k
  <2>3. CASE s2.trial = n /\ s2.mode < k
    <3>0. next = [s2 EXCEPT !.mode = s2.mode + 1, !.trial = 1]
      BY <2>1, <2>3 DEF Eval!NextTurn
    <3>1. next = [case |-> c0, mode |-> s2.mode + 1, trial |-> 1]
      BY <2>1, <3>0
    <3> QED
      BY <1>3, <2>1, <2>3, <3>1 DEF Eval!TrialsDone
  <2>4. CASE s2.trial = n /\ s2.mode = k
    <3>1. next = [case |-> c0 + 1, mode |-> 1, trial |-> 1]
      BY <2>1, <2>4 DEF Eval!NextTurn
    <3> QED
      BY <1>3, <2>1, <2>4, <3>1 DEF Eval!TrialsDone
  <2>5. ASSUME NEW c \in Eval!All, NEW m \in {"diffowl", "baseline"}
        PROVE  Eval!TrialsDone(s1, s2, c, m) \in Nat
    BY <2>1 DEF Eval!TrialsDone
  <2> QED
    BY <2>1, <2>2, <2>3, <2>4, <2>5
<1> HIDE DEF next, c0
<1>5. /\ s4.trial.found \in BOOLEAN /\ s4.trial.noise \in BOOLEAN /\ s4.trial.error \in BOOLEAN
      /\ Eval!One(s4.trial.found) + Eval!One(s4.trial.noise) + Eval!One(s4.trial.error) \in {0, 1}
      /\ EvalCases[c0].clean => Eval!One(s4.trial.found) = 0
      /\ Eval!One(s4.trial.found) \in {0, 1} /\ Eval!One(s4.trial.noise) \in {0, 1}
      /\ Eval!One(s4.trial.error) \in {0, 1}
  BY <1>1, OutcomesFit DEF EvalTrial, Eval!One
<1>6. ASSUME NEW c \in Eval!All, NEW m \in {"diffowl", "baseline"}
      PROVE  s5'[<<c, m>>] \in Eval!Numbers(c, Eval!TrialsDone(s1, next, c, m))
  <2> DEFINE n == Eval!TrialsDone(s1, s2, c, m)
             r == s5[<<c, m>>]
  <2>1. DOMAIN s5 = Eval!All \X {"diffowl", "baseline"} /\ r \in Eval!Numbers(c, n) /\ n \in Nat
    BY <1>2, <1>4 DEF Eval!ResultsFit
  <2>2. CASE c = c0 /\ m = m0
    <3>1. s5'[<<c, m>>] = [trials |-> r.trials + 1, found |-> r.found + Eval!One(s4.trial.found),
                           noise |-> r.noise + Eval!One(s4.trial.noise),
                           error |-> r.error + Eval!One(s4.trial.error)]
      BY <1>1, <2>1, <2>2
    <3>2. Eval!TrialsDone(s1, next, c, m) = n + 1
      BY <1>4, <2>2
    <3> HIDE DEF n, r
    <3>3. ASSUME NEW f \in {0, 1}, NEW q \in {0, 1}, NEW e \in {0, 1}, f + q + e \in {0, 1},
                 EvalCases[c].clean => f = 0
          PROVE  [trials |-> r.trials + 1, found |-> r.found + f, noise |-> r.noise + q,
                  error |-> r.error + e] \in Eval!Numbers(c, n + 1)
      <4>1. /\ r.trials = n /\ r.found \in 0..n /\ r.noise \in 0..n /\ r.error \in 0..n
            /\ r.found + r.noise + r.error <= n /\ (EvalCases[c].clean => r.found = 0)
        BY <2>1 DEF Eval!Numbers
      <4>2. /\ r.found + f \in 0..(n + 1) /\ r.noise + q \in 0..(n + 1) /\ r.error + e \in 0..(n + 1)
            /\ (r.found + f) + (r.noise + q) + (r.error + e) <= n + 1
            /\ r.trials + 1 = n + 1 /\ (EvalCases[c].clean => r.found + f = 0)
        BY <2>1, <3>3, <4>1
      <4> QED
        BY <4>2 DEF Eval!Numbers
    <3> DEFINE f == Eval!One(s4.trial.found)
               q == Eval!One(s4.trial.noise)
               e == Eval!One(s4.trial.error)
    <3>4. /\ f \in {0, 1} /\ q \in {0, 1} /\ e \in {0, 1} /\ f + q + e \in {0, 1}
          /\ EvalCases[c].clean => f = 0
      BY <1>5, <2>2
    <3>5. s5'[<<c, m>>] = [trials |-> r.trials + 1, found |-> r.found + f, noise |-> r.noise + q,
                           error |-> r.error + e]
      BY <3>1
    <3> HIDE DEF f, q, e
    <3> QED
      BY <3>2, <3>3, <3>4, <3>5
  <2>3. CASE ~(c = c0 /\ m = m0)
    <3>1. s5'[<<c, m>>] = r
      BY <1>1, <2>1, <2>3
    <3>2. Eval!TrialsDone(s1, next, c, m) = n
      BY <1>4, <2>1, <2>3
    <3> QED
      BY <2>1, <3>1, <3>2
  <2> QED
    BY <2>2, <2>3
<1>7. Eval!ResultsFit'
  <2>1. DOMAIN s5' = Eval!All \X {"diffowl", "baseline"}
    BY <1>1, <1>2 DEF Eval!ResultsFit
  <2> QED
    BY <1>1, <1>6, <2>1 DEF Eval!ResultsFit
<1>8. /\ s4' \in EvalStates
      /\ s4'.pc = IF next.case > Len(EvalCases) THEN "report" ELSE "make"
  <2>1. Eval!Quiet \in EvalTrial
    BY DEF Eval!Quiet, EvalTrial
  <2> QED
    BY <1>1, <1>2, <2>1 DEF EvalStates, EvalPlaces
<1>9. next.case > Len(EvalCases) <=> next.case \notin Eval!All
  BY <1>4, CasesFit
<1> QED
  BY <1>1, <1>2, <1>4, <1>7, <1>8, <1>9 DEF Eval!EvalFits, EvalStates, EvalPlaces, EvalTrial

-----------------------------------------------------------------------------
LEMMA SumOfNothing ==
  ASSUME NEW S, NEW f, \A c \in S : f[c] = 0
  PROVE  Eval!Over(f, S) = 0
<1> DEFINE L == Len(EvalCases)
           Good(sum) == sum = [c \in 0..L |-> IF c = 0 THEN 0 ELSE sum[c - 1] + (IF c \in S THEN f[c] ELSE 0)]
           zero == [c \in 0..L |-> 0]
           sum == CHOOSE g : Good(g)
<1>1. L \in Nat /\ L \in 0..L
  BY CasesFit
<1>2. Good(zero)
  <2>1. ASSUME NEW c \in 0..L
        PROVE  0 = IF c = 0 THEN 0 ELSE zero[c - 1] + (IF c \in S THEN f[c] ELSE 0)
    BY <1>1
  <2> QED
    BY <2>1
<1>3. Good(sum)
  <2> HIDE DEF Good, zero
  <2> QED
    BY <1>2
<1> HIDE DEF sum
<1>4. \A c \in 0..L : sum[c] = IF c = 0 THEN 0 ELSE sum[c - 1] + (IF c \in S THEN f[c] ELSE 0)
  BY <1>3
<1> HIDE DEF Good, L
<1> DEFINE still == {c \in 0..L : sum[c] = 0}
<1>5. 0 \in still
  BY <1>1, <1>4
<1>6. ASSUME NEW c \in 1..L, c - 1 \in still PROVE c \in still
  <2>1. c \in 0..L /\ c # 0 /\ sum[c - 1] = 0
    BY <1>1, <1>6
  <2>2. sum[c] = 0
    BY <1>4, <2>1
  <2> QED
    BY <2>1, <2>2
<1>7. \A c \in 0..L : c \in still
  <2> HIDE DEF still
  <2> QED
    BY <1>1, <1>5, <1>6, GoesUp
<1>8. sum[L] = 0
  BY <1>1, <1>7
<1>9. Eval!Over(f, S) = sum[L]
  BY DEF Eval!Over, sum, Good, L
<1> QED
  BY <1>8, <1>9

(* The numbers of the primary mode once all trials are done.                *)
LEMMA PrimaryIsDone ==
  ASSUME Eval!EvalFits, s2.case \notin Eval!All, NEW c \in Eval!All
  PROVE  /\ s1.trials \in Nat \ {0} /\ Eval!Now(c) \in Eval!Numbers(c, s1.trials)
         /\ \A m \in {"diffowl", "baseline"} :
              s5[<<c, m>>].trials = IF s1.mode \in {m, "both"} THEN s1.trials ELSE 0
<1>1. /\ s1.mode \in {"diffowl", "baseline", "both"} /\ s1.trials \in 1..MaxTrials
      /\ s2.case \in 1..(Len(EvalCases) + 1) /\ Eval!ResultsFit
  BY DEF Eval!EvalFits
<1>2. s1.trials \in Nat \ {0} /\ c < s2.case
  BY <1>1, CasesFit, EvaluationAssumption
<1>3. ASSUME NEW m \in {"diffowl", "baseline"}
      PROVE  /\ s5[<<c, m>>] \in Eval!Numbers(c, IF s1.mode \in {m, "both"} THEN s1.trials ELSE 0)
             /\ s5[<<c, m>>].trials = IF s1.mode \in {m, "both"} THEN s1.trials ELSE 0
  <2>1. Eval!TrialsDone(s1, s2, c, m) = IF s1.mode \in {m, "both"} THEN s1.trials ELSE 0
    BY <1>1, <1>2 DEF Eval!TrialsDone
  <2>2. s5[<<c, m>>] \in Eval!Numbers(c, IF s1.mode \in {m, "both"} THEN s1.trials ELSE 0)
    BY <1>1, <2>1 DEF Eval!ResultsFit
  <2> QED
    BY <2>2 DEF Eval!Numbers
<1>4. Eval!Primary \in {"diffowl", "baseline"} /\ s1.mode \in {Eval!Primary, "both"}
  BY <1>1 DEF Eval!Primary
<1>5. Eval!Now(c) \in Eval!Numbers(c, s1.trials)
  BY <1>3, <1>4 DEF Eval!Now
<1> QED
  BY <1>2, <1>3, <1>5

(* Behind a gate that demands recall an unreviewed run does not pass.       *)
LEMMA GateWantsReviews ==
  ASSUME Eval!EvalFits, s2.case \notin Eval!All, Eval!GatePassed, Eval!Asked("recall")
  PROVE  Eval!SomeReviewed
<1> SUFFICES ASSUME ~Eval!SomeReviewed PROVE FALSE
  OBVIOUS
<1> DEFINE n == s1.trials
           D == Eval!Dirty
           f == [c \in Eval!All |-> Eval!Now(c).found]
<1>1. D # {} /\ 2 * Eval!Over(f, D) >= n * Eval!Cardinality(D)
  BY DEF Eval!GatePassed
<1>2. D \subseteq Eval!All /\ Eval!All = 1..Len(EvalCases)
  BY CasesFit DEF Eval!Dirty
<1>3. PICK d \in Eval!All : TRUE
  BY <1>1, <1>2
<1>4. n \in Nat \ {0}
  BY <1>3, PrimaryIsDone
<1>5. ASSUME NEW c \in Eval!All PROVE Eval!Now(c).found = 0
  <2>1. Eval!Now(c) \in Eval!Numbers(c, n)
    BY PrimaryIsDone
  <2>2. ~(Eval!Now(c).error < n)
    BY DEF Eval!SomeReviewed
  <2> DEFINE r == Eval!Now(c)
  <2>3. /\ r.found \in 0..n /\ r.noise \in 0..n /\ r.error \in 0..n
        /\ r.found + r.noise + r.error <= n
    BY <2>1 DEF Eval!Numbers
  <2> HIDE DEF r
  <2>4. ~(r.error < n)
    BY <2>2 DEF r
  <2>5. r.found = 0
    BY <1>4, <2>3, <2>4
  <2> QED
    BY <2>5 DEF r
<1>6. Eval!Over(f, D) = 0
  <2>1. \A c \in D : f[c] = 0
    BY <1>2, <1>5
  <2> HIDE DEF f, D
  <2> QED
    BY <2>1, SumOfNothing
<1>7. Cardinality(D) \in Nat /\ Cardinality(D) # 0
  <2>1. IsFiniteSet(1..Len(EvalCases))
    <3>1. 1 \in Int /\ Len(EvalCases) \in Int
      BY CasesFit
    <3> QED
      BY <3>1, FS_Interval
  <2>2. IsFiniteSet(D)
    BY <1>2, <2>1, FS_Subset
  <2> HIDE DEF D
  <2> QED
    BY <1>1, <2>2, FS_CardinalityType, FS_EmptySet
<1>8. ASSUME NEW a \in Nat, NEW b \in Nat, a # 0, b # 0 PROVE ~(0 >= a * b)
  BY <1>8
<1> HIDE DEF n, D, f
<1>9. Eval!Cardinality(D) = Cardinality(D)
  BY EvaluationCounts
<1>10. 0 >= n * Cardinality(D)
  BY <1>1, <1>6, <1>9
<1> QED
  BY <1>4, <1>7, <1>8, <1>10

(* A run without a regression did not get worse.                            *)
LEMMA RegressionsAreTold ==
  ASSUME Eval!EvalFits, s2.case \notin Eval!All, s6 \in Eval!Earlier, ~Eval!Regression
  PROVE  Eval!NoneWorse
<1> SUFFICES ASSUME NEW c \in Eval!All
             PROVE  IF EvalCases[c].clean
                    THEN s6[c].error = 0 /\ s6[c].noise = 0 => Eval!Now(c).error = 0 /\ Eval!Now(c).noise = 0
                    ELSE Eval!Now(c).found * s6[c].trials >= s6[c].found * s1.trials
  BY DEF Eval!NoneWorse
<1> DEFINE ref == s6[c]
           cur == Eval!Now(c)
           n == s1.trials
<1>1. PICK k \in 1..MaxTrials : ref \in Eval!Numbers(c, k) /\ DOMAIN s6 = Eval!All
  BY DEF Eval!Earlier
<1>2. n \in Nat \ {0} /\ cur \in Eval!Numbers(c, n)
  BY PrimaryIsDone
<1>3. s6 # <<>>
  BY <1>1
<1>4. ~Eval!Regressed(c, ref, cur)
  BY <1>3, CasesFit DEF Eval!Regression
<1> HIDE DEF ref, cur, n
<1>5. /\ k \in Nat /\ ref.trials = k /\ ref.noise \in 0..k /\ ref.error \in 0..k /\ ref.found \in 0..k
      /\ cur.trials = n /\ cur.noise \in 0..n /\ cur.error \in 0..n /\ cur.found \in 0..n
  BY <1>1, <1>2, EvaluationAssumption DEF Eval!Numbers
<1>6. CASE EvalCases[c].clean
  <2>1. ~(cur.error > ref.error) /\ ~(k - ref.noise = k /\ n - cur.noise < n)
    BY <1>4, <1>5, <1>6 DEF Eval!Regressed, Eval!Empty
  <2>2. ref.error = 0 /\ ref.noise = 0 => cur.error = 0 /\ cur.noise = 0
    BY <1>2, <1>5, <2>1
  <2> QED
    BY <1>6, <2>2 DEF ref, cur
<1>7. CASE ~EvalCases[c].clean
  <2>1. ~(cur.found * k < ref.found * n)
    BY <1>4, <1>5, <1>7 DEF Eval!Regressed
  <2>2. cur.found * k \in Nat /\ ref.found * n \in Nat
    BY <1>2, <1>5
  <2>3. cur.found * k >= ref.found * n
    BY <2>1, <2>2
  <2> QED
    BY <1>5, <1>7, <2>3 DEF ref, cur, n
<1> QED
  BY <1>6, <1>7

(* The steps after the last trial.                                          *)
LEMMA ReportGoesOn ==
  ASSUME Eval!EvalFits, Eval!Report \/ Eval!ReadReference
  PROVE  Eval!EvalFits'
<1>1. /\ s1 \in [mode : {"diffowl", "baseline", "both"}, trials : 1..MaxTrials, report : Eval!Options]
      /\ s4 \in EvalStates /\ s2' = s2 /\ s5' = s5 /\ s3' = s3 /\ s3 = {} /\ s2.case \notin Eval!All
  BY DEF Eval!EvalFits, Eval!Report, Eval!ReadReference, EvalStates, EvalPlaces, EvalTrial
<1>2. /\ s1' \in [mode : {"diffowl", "baseline", "both"}, trials : 1..MaxTrials, report : Eval!Options]
      /\ s1'.mode = s1.mode /\ s1'.trials = s1.trials
  <2>1. CASE Eval!Report
    <3>1. PICK o \in Eval!Options : s1' = [s1 EXCEPT !.report = o]
      BY <2>1 DEF Eval!Report
    <3> QED
      BY <1>1, <3>1
  <2>2. CASE Eval!ReadReference
    BY <1>1, <2>2 DEF Eval!ReadReference
  <2> QED
    BY <2>1, <2>2
<1>3. Eval!ResultsFit'
  BY <1>1, <1>2, ResultsStay
<1>4. /\ s4' \in EvalStates
      /\ s4'.pc \in {"reference", "answer", "done"} /\ (s4'.pc = "done" => s4'.exit = 1)
      /\ s4'.pc = "answer" /\ "compare" \in s1'.report => s6' \in Eval!Earlier
  <2>1. CASE Eval!Report
    <3>1. s4' = [s4 EXCEPT !.pc = "reference"]
      BY <2>1 DEF Eval!Report
    <3> QED
      BY <1>1, <3>1 DEF EvalStates, EvalPlaces
  <2>2. CASE Eval!ReadReference
    <3>1. /\ s1' = s1
          /\ \/ s4' = [s4 EXCEPT !.pc = "done", !.exit = 1]
             \/ "compare" \notin s1.report /\ s4' = [s4 EXCEPT !.pc = "answer"]
             \/ s6' \in Eval!Earlier /\ s4' = [s4 EXCEPT !.pc = "answer"]
      BY <2>2 DEF Eval!ReadReference, Eval!Ends, Eval!Asked
    <3> QED
      BY <1>1, <3>1 DEF EvalStates, EvalPlaces
  <2> QED
    BY <2>1, <2>2
<1>5. s2' \in [case : 1..(Len(EvalCases) + 1), mode : 1..Len(Eval!Modes(s1'.mode)), trial : 1..s1'.trials]
  BY <1>1, <1>2 DEF Eval!EvalFits
<1> QED
  BY <1>1, <1>2, <1>3, <1>4, <1>5 DEF Eval!EvalFits, EvalStates, EvalPlaces, EvalTrial, Eval!Asked

(* The exit code tells.                                                     *)
LEMMA AnswerIsHonest ==
  ASSUME Eval!EvalFits, Eval!Answer
  PROVE  Eval!EvalFits'
<1>1. /\ s4 \in EvalStates /\ s1' = s1 /\ s2' = s2 /\ s5' = s5 /\ s3' = s3 /\ s6' = s6
      /\ s4.pc = "answer" /\ s3 = {} /\ s2.case \notin Eval!All
      /\ "compare" \in s1.report => s6 \in Eval!Earlier
      /\ s1.report \in Eval!Options
  BY DEF Eval!EvalFits, Eval!Answer, Eval!Fixed, Eval!Asked, EvalStates, EvalPlaces, EvalTrial
<1>2. Eval!ResultsFit'
  BY <1>1, ResultsStay
<1>3. /\ s4' \in EvalStates /\ s4'.pc = "done"
      /\ s4'.exit = 0 =>
           /\ s4'.wrote
           /\ "gate" \in s1.report => Eval!GatePassed
           /\ "fail-on-regression" \in s1.report => ~Eval!Regression
  <2>1. CASE s4' = [s4 EXCEPT !.pc = "done", !.exit = 1]
    <3>1. s4' \in EvalStates /\ s4'.pc = "done" /\ s4'.exit = 1
      BY <1>1, <2>1 DEF EvalStates, EvalPlaces
    <3> QED
      BY <3>1
  <2> DEFINE bad == \/ "gate" \in s1.report /\ ~Eval!GatePassed
                    \/ "fail-on-regression" \in s1.report /\ Eval!Regression
  <2>2. ASSUME s4' = [s4 EXCEPT !.pc = "done", !.wrote = TRUE, !.exit = IF bad THEN 1 ELSE 0]
        PROVE  /\ s4' \in EvalStates /\ s4'.pc = "done"
               /\ s4'.exit = 0 => s4'.wrote /\ ~bad
    <3> HIDE DEF bad
    <3>1. CASE bad
      <4>1. s4' = [s4 EXCEPT !.pc = "done", !.wrote = TRUE, !.exit = 1]
        BY <2>2, <3>1
      <4>2. s4' \in EvalStates /\ s4'.pc = "done" /\ s4'.exit = 1
        BY <1>1, <4>1 DEF EvalStates, EvalPlaces
      <4> QED
        BY <4>2
    <3>2. CASE ~bad
      <4>1. s4' = [s4 EXCEPT !.pc = "done", !.wrote = TRUE, !.exit = 0]
        BY <2>2, <3>2
      <4>2. s4' \in EvalStates /\ s4'.pc = "done" /\ s4'.wrote
        BY <1>1, <4>1 DEF EvalStates, EvalPlaces
      <4> QED
        BY <3>2, <4>2
    <3> QED
      BY <3>1, <3>2
  <2>3. \/ s4' = [s4 EXCEPT !.pc = "done", !.exit = 1]
        \/ s4' = [s4 EXCEPT !.pc = "done", !.wrote = TRUE, !.exit = IF bad THEN 1 ELSE 0]
    BY DEF Eval!Answer, Eval!Ends, Eval!Asked
  <2> QED
    BY <2>1, <2>2, <2>3
<1>4. s4'.exit = 0 =>
        /\ "recall" \in s1.report => Eval!SomeReviewed
        /\ "fail-on-regression" \in s1.report => Eval!NoneWorse
  <2>1. /\ "fail-on-regression" \in s1.report => s6 \in Eval!Earlier
        /\ "recall" \in s1.report => "gate" \in s1.report
    BY <1>1 DEF Eval!Options, Eval!Thresholds
  <2> QED
    BY <1>1, <1>3, <2>1, GateWantsReviews, RegressionsAreTold DEF Eval!Asked
<1>5. (Eval!SomeReviewed => Eval!SomeReviewed') /\ (Eval!NoneWorse => Eval!NoneWorse')
  BY <1>1 DEF Eval!SomeReviewed, Eval!NoneWorse, Eval!Now, Eval!Primary
<1> QED
  BY <1>1, <1>2, <1>3, <1>4, <1>5 DEF Eval!EvalFits, EvalStates, EvalPlaces, EvalTrial, Eval!Asked

LEMMA EvaluationKeeps ==
  ASSUME Eval!EvalFits, Eval!EvalNext
  PROVE  Eval!EvalFits'
BY TrialGoesOn, TrialIsCounted, ReportGoesOn, AnswerIsHonest DEF Eval!EvalNext

EvaluationInv == part = "evaluation" => Eval!EvalFits

LEMMA EvaluationInductive == PartsSpec => []EvaluationInv
<1>1. PartsInit => EvaluationInv
  BY EvaluationStarts DEF PartsInit, EvaluationInv
<1>2. EvaluationInv /\ [PartsNext]_partsVars => EvaluationInv'
  <2>1. ASSUME EvaluationInv, PartsNext
        PROVE  EvaluationInv'
    BY <2>1, PartStays, EvaluationAlone, EvaluationKeeps DEF EvaluationInv
  <2>2. ASSUME EvaluationInv, UNCHANGED partsVars
        PROVE  EvaluationInv'
    <3>1. s1' = s1 /\ s2' = s2 /\ s3' = s3 /\ s4' = s4 /\ s5' = s5 /\ s6' = s6 /\ part' = part
      BY <2>2 DEF partsVars
    <3>2. ASSUME Eval!EvalFits PROVE Eval!EvalFits'
      <4>1. Eval!ResultsFit'
        BY <3>1, <3>2, ResultsStay
      <4>2. (Eval!SomeReviewed => Eval!SomeReviewed') /\ (Eval!NoneWorse => Eval!NoneWorse')
        BY <3>1 DEF Eval!SomeReviewed, Eval!NoneWorse, Eval!Now, Eval!Primary
      <4> QED
        BY <3>1, <3>2, <4>1, <4>2 DEF Eval!EvalFits, Eval!Asked
    <3> QED
      BY <2>2, <3>1, <3>2 DEF EvaluationInv
  <2> QED
    BY <2>1, <2>2
<1> QED
  BY <1>1, <1>2, PTL DEF PartsSpec

LEMMA RunsAreHonest ==
  ASSUME Eval!EvalFits
  PROVE  Eval!EvalIsHonest
<1> SUFFICES ASSUME s4.pc = "done", s4.exit = 0
             PROVE  Eval!EvalIsHonest
  BY DEF Eval!EvalIsHonest
<1>1. /\ s2.case \notin Eval!All /\ s3 = {} /\ s4.wrote
      /\ Eval!Asked("recall") => Eval!SomeReviewed
      /\ Eval!Asked("fail-on-regression") => Eval!NoneWorse
      /\ s2.case \in 1..(Len(EvalCases) + 1)
  BY DEF Eval!EvalFits
<1>2. s2.case > Len(EvalCases)
  BY <1>1, CasesFit
<1>3. \A c \in Eval!All, m \in {"diffowl", "baseline"} :
        s5[<<c, m>>].trials = IF s1.mode \in {m, "both"} THEN s1.trials ELSE 0
  BY <1>1, PrimaryIsDone
<1> QED
  BY <1>1, <1>2, <1>3 DEF Eval!EvalIsHonest

(* What an evaluation tells of the trials is earned: every report of a      *)
(* finding counts once, only what deduplication merged fails a case of      *)
(* distinct findings, and a run that exits with 0 did all its trials, with  *)
(* no regression where that fails, and with something reviewed where the    *)
(* gate demands recall, whatever other thresholds it sets (ScoresAreEarned; *)
(* src/eval/score.ts:94, src/eval/identity-score.ts:361,                   *)
(* src/eval/runner.ts:138).                                                *)
THEOREM ScoresAreHonest == PartsSpec => []ScoresAreEarned
<1>1. ScoringInv /\ EvaluationInv => ScoresAreEarned
  BY ScoresCountOnce, FailuresAreCollapses, RunsAreHonest
  DEF ScoringInv, EvaluationInv, ScoresAreEarned
<1> QED
  BY <1>1, ScoringInductive, EvaluationInductive, PTL

-----------------------------------------------------------------------------
(* The protocol of a Codex                                                  *)

LEMMA EvidenceAlone == part = "protocol" /\ PartsNext => Evidence!EvidenceNext
BY DEF PartsNext, OpenDatabase, InstallHook, SetUpAgent, ChoosePreference,
  FindStateRoot, KeepFindings, SuggestDuplicate, SummariseFindings, GatherContext,
  ReadDiff, ReadDocument, PublishFindings, RecordTelemetry, RunCommand, CheckProtocol,
  ScoreCase, RunEvaluation, RunVerification, Runs, Rest

(* The nodes of a schema, and what a call of expandSchema returns: of fewer *)
(* references left to follow, or of a node further down.                    *)
SchemaNodes == 1..SchemaSize
Calls == SchemaNodes \X SUBSET SchemaNodes
IsSchema(d) ==
  /\ d.property \in SUBSET SchemaNodes
  /\ \A n \in SchemaNodes : d.ref[n] \in SchemaNodes \cup {0}
  /\ \A m, n \in SchemaNodes : d.parent[m] = n => n < m
Height(call) == (SchemaSize - Cardinality(call[2])) * (SchemaSize + 1) + (SchemaSize - call[1])

(* Every enumerated schema is a tree with references.                       *)
LEMMA SchemaIs ==
  ASSUME NEW d, [parent |-> d.parent, property |-> d.property, ref |-> d.ref] \in Evidence!Schemas
  PROVE  IsSchema(d)
<1>1. PICK t \in Evidence!TreeShapes, r \in Evidence!References :
        [parent |-> d.parent, property |-> d.property, ref |-> d.ref]
          = [parent |-> t.parent, property |-> t.property, ref |-> r]
  BY DEF Evidence!Schemas
<1>2. d.parent = t.parent /\ d.property = t.property /\ d.ref = r
  BY <1>1
<1>3. /\ t.property \in SUBSET SchemaNodes /\ t.parent[1] = 0
      /\ \A n \in SchemaNodes \ {1} : t.parent[n] \in 1 .. n - 1
      /\ r \in [SchemaNodes -> SchemaNodes \cup {0}]
  BY DEF Evidence!TreeShapes, Evidence!References, SchemaNodes
<1>4. \A m, n \in SchemaNodes : t.parent[m] = n => n < m
  <2> TAKE m, n \in SchemaNodes
  <2>1. CASE m = 1
    BY <1>3, <2>1 DEF SchemaNodes
  <2>2. CASE m # 1
    <3>1. t.parent[m] \in 1 .. m - 1 /\ m \in Nat /\ n \in Nat
      BY <1>3, <2>2, ProtocolAssumption DEF SchemaNodes
    <3> QED
      BY <3>1
  <2> QED
    BY <2>1, <2>2
<1>5. \A n \in SchemaNodes : r[n] \in SchemaNodes \cup {0}
  BY <1>3
<1> QED
  BY <1>2, <1>3, <1>4, <1>5 DEF IsSchema

(* A call makes calls of smaller height: one reference less is left, or the *)
(* node is further down.                                                    *)
LEMMA CallIs ==
  ASSUME NEW d, IsSchema(d), NEW n \in SchemaNodes, NEW seen \in SUBSET SchemaNodes
  PROVE  /\ <<n, seen>> \in Calls /\ Height(<<n, seen>>) \in Nat /\ n \in Nat
         /\ Height(<<n, seen>>) < (SchemaSize + 1) * (SchemaSize + 1)
         /\ d.ref[n] # 0 /\ d.ref[n] \notin seen =>
              /\ d.ref[n] \in SchemaNodes /\ seen \cup {d.ref[n]} \in SUBSET SchemaNodes
              /\ Height(<<d.ref[n], seen \cup {d.ref[n]}>>) < Height(<<n, seen>>)
         /\ \A m \in Evidence!VariantsOf(d, n) :
              /\ m \in SchemaNodes
              /\ Height(<<m, seen>>) < Height(<<n, seen>>)
<1> DEFINE size == SchemaSize
           k == Cardinality(seen)
<1>1. size \in Nat \ {0} /\ n \in 1..size
  BY ProtocolAssumption DEF SchemaNodes
<1>2. IsFiniteSet(SchemaNodes) /\ Cardinality(SchemaNodes) = size
  <2>1. IsFiniteSet(1..size) /\ Cardinality(1..size) = size
    <3>1. 1 \in Int /\ size \in Int /\ (size - 1) + 1 = size /\ ~(1 > size)
      BY <1>1
    <3> QED
      BY <3>1, FS_Interval
  <2> QED
    BY <2>1 DEF SchemaNodes
<1>3. \A S \in SUBSET SchemaNodes : IsFiniteSet(S) /\ Cardinality(S) \in 0..size
  <2> TAKE S \in SUBSET SchemaNodes
  <2>1. IsFiniteSet(S) /\ Cardinality(S) <= size
    BY <1>2, FS_Subset
  <2>2. Cardinality(S) \in Nat
    BY <2>1, FS_CardinalityType
  <2> QED
    BY <1>1, <2>1, <2>2
<1>4. k \in 0..size /\ IsFiniteSet(seen)
  BY <1>3
<1> HIDE DEF size, k
<1>5. \A c \in 0..size, x \in 1..size :
        /\ (size - c) * (size + 1) + (size - x) \in Nat
        /\ (size - c) * (size + 1) + (size - x) < (size + 1) * (size + 1)
  <2> TAKE c \in 0..size, x \in 1..size
  <2> DEFINE y == size - c
             p == y * (size + 1)
             q == size * (size + 1)
  <2>1. y \in Nat /\ y <= size
    BY <1>1
  <2> HIDE DEF y
  <2>2. p \in Nat /\ p <= q /\ q \in Nat /\ (size + 1) * (size + 1) = q + (size + 1)
    BY <1>1, <2>1
  <2> HIDE DEF p, q
  <2>3. p + (size - x) \in Nat /\ p + (size - x) < q + (size + 1)
    BY <1>1, <2>2
  <2> QED
    BY <2>2, <2>3 DEF p, q, y
<1>6. /\ Height(<<n, seen>>) = (size - k) * (size + 1) + (size - n)
      /\ \A m, S : Height(<<m, S>>) = (size - Cardinality(S)) * (size + 1) + (size - m)
  BY DEF Height, size, k
<1>7. ASSUME d.ref[n] # 0, d.ref[n] \notin seen
      PROVE  /\ d.ref[n] \in SchemaNodes /\ seen \cup {d.ref[n]} \in SUBSET SchemaNodes
             /\ Height(<<d.ref[n], seen \cup {d.ref[n]}>>) < Height(<<n, seen>>)
  <2> DEFINE to == d.ref[n]
  <2>1. to \in SchemaNodes /\ to \notin seen
    BY <1>7 DEF IsSchema
  <2> HIDE DEF to
  <2>2. to \in 1..size /\ seen \cup {to} \in SUBSET SchemaNodes
    BY <2>1 DEF SchemaNodes, size
  <2>3. Cardinality(seen \cup {to}) = k + 1
    <3>1. Cardinality(seen \cup {to}) = Cardinality(seen) + 1
      BY ONLY <1>4, <2>1, FS_AddElement
    <3> QED
      BY <3>1 DEF k
  <2>4. k + 1 \in 0..size
    BY <1>3, <2>2, <2>3
  <2> DEFINE y == size - (k + 1)
             p == y * (size + 1)
  <2>5. y \in Nat /\ size - k = y + 1
    BY <1>1, <1>4, <2>4
  <2> HIDE DEF y
  <2>6. p \in Nat /\ (size - k) * (size + 1) = p + (size + 1)
    BY <1>1, <2>5
  <2> HIDE DEF p
  <2>7. p + (size - to) < (p + (size + 1)) + (size - n)
    BY <1>1, <2>2, <2>6
  <2>8. Height(<<to, seen \cup {to}>>) = p + (size - to)
    BY <1>6, <2>3 DEF p, y
  <2>9. Height(<<n, seen>>) = (p + (size + 1)) + (size - n)
    BY <1>6, <2>6
  <2> QED
    BY <2>1, <2>2, <2>7, <2>8, <2>9 DEF to
<1>8. ASSUME NEW m \in Evidence!VariantsOf(d, n)
      PROVE  m \in SchemaNodes /\ Height(<<m, seen>>) < Height(<<n, seen>>)
  <2>1. m \in SchemaNodes /\ d.parent[m] = n
    BY DEF Evidence!VariantsOf, SchemaNodes
  <2>2. n < m /\ m \in 1..size
    BY <2>1 DEF IsSchema, SchemaNodes, size
  <2> DEFINE p == (size - k) * (size + 1)
  <2>3. p \in Int
    BY <1>1, <1>4
  <2> HIDE DEF p
  <2>4. p + (size - m) < p + (size - n)
    BY <1>1, <2>2, <2>3
  <2>5. Height(<<m, seen>>) = p + (size - m) /\ Height(<<n, seen>>) = p + (size - n)
    BY <1>6 DEF p, k
  <2> QED
    BY <2>1, <2>4, <2>5
<1>9. <<n, seen>> \in Calls /\ n \in Nat
  <2>1. n \in Nat
    BY <1>1
  <2> QED
    BY <2>1 DEF Calls
<1>10. Height(<<n, seen>>) \in Nat /\ Height(<<n, seen>>) < (size + 1) * (size + 1)
  BY <1>1, <1>4, <1>5, <1>6
<1> QED
  BY <1>7, <1>8, <1>9, <1>10 DEF size

(* expandSchema's result, by calls.                                         *)
Expands(d, e) == [c \in Calls |-> Evidence!Expand(d, e, c[1], c[2])]

LEMMA CallsSplit ==
  ASSUME NEW c \in Calls
  PROVE  c[1] \in SchemaNodes /\ c[2] \in SUBSET SchemaNodes /\ c = <<c[1], c[2]>>
BY DEF Calls

(* A call returns what calls of smaller height determine,                   *)
LEMMA ExpandSees ==
  ASSUME NEW d, IsSchema(d), NEW c \in Calls, NEW e, NEW f,
         \A x \in Calls : Height(x) < Height(c) => e[x] = f[x]
  PROVE  Expands(d, e)[c] = Expands(d, f)[c]
<1> DEFINE n == c[1]
           seen == c[2]
           to == d.ref[n]
<1>1. n \in SchemaNodes /\ seen \in SUBSET SchemaNodes /\ c = <<n, seen>>
  BY CallsSplit
<1> HIDE DEF n, seen
<1>2. /\ to # 0 /\ to \notin seen =>
           /\ to \in SchemaNodes /\ seen \cup {to} \in SUBSET SchemaNodes
           /\ Height(<<to, seen \cup {to}>>) < Height(c)
      /\ \A m \in Evidence!VariantsOf(d, n) : m \in SchemaNodes /\ Height(<<m, seen>>) < Height(c)
  BY <1>1, CallIs
<1> HIDE DEF to
<1>3. ASSUME to # 0, to \notin seen PROVE e[<<to, seen \cup {to}>>] = f[<<to, seen \cup {to}>>]
  <2>1. <<to, seen \cup {to}>> \in Calls
    BY <1>2, <1>3 DEF Calls
  <2> QED
    BY <1>2, <1>3, <2>1
<1>4. ASSUME NEW m \in Evidence!VariantsOf(d, n) PROVE e[<<m, seen>>] = f[<<m, seen>>]
  <2>1. <<m, seen>> \in Calls
    BY <1>1, <1>2 DEF Calls
  <2> QED
    BY <1>2, <2>1
<1>5. {e[<<m, seen>>] : m \in Evidence!VariantsOf(d, n)} = {f[<<m, seen>>] : m \in Evidence!VariantsOf(d, n)}
  BY <1>4
<1>6. Evidence!Expand(d, e, n, seen) = Evidence!Expand(d, f, n, seen)
  BY <1>3, <1>5 DEF Evidence!Expand, to
<1> QED
  BY <1>6 DEF Expands, n, seen

(* and always a set of nodes.                                               *)
LEMMA ExpandFits ==
  ASSUME NEW d, IsSchema(d), NEW e \in [Calls -> SUBSET SchemaNodes]
  PROVE  Expands(d, e) \in [Calls -> SUBSET SchemaNodes]
<1>1. ASSUME NEW c \in Calls PROVE Evidence!Expand(d, e, c[1], c[2]) \in SUBSET SchemaNodes
  <2> DEFINE n == c[1]
             seen == c[2]
             to == d.ref[n]
  <2>1. n \in SchemaNodes /\ seen \in SUBSET SchemaNodes
    BY CallsSplit
  <2> HIDE DEF n, seen
  <2>2. /\ to # 0 /\ to \notin seen => to \in SchemaNodes /\ seen \cup {to} \in SUBSET SchemaNodes
        /\ \A m \in Evidence!VariantsOf(d, n) : m \in SchemaNodes
    BY <2>1, CallIs
  <2> HIDE DEF to
  <2>3. to # 0 /\ to \notin seen => <<to, seen \cup {to}>> \in Calls
    BY <2>2 DEF Calls
  <2>4. \A m \in Evidence!VariantsOf(d, n) : <<m, seen>> \in Calls
    BY <2>1, <2>2 DEF Calls
  <2>5. Evidence!Expand(d, e, n, seen) \in SUBSET SchemaNodes
    BY <2>1, <2>3, <2>4 DEF Evidence!Expand, to
  <2> QED
    BY <2>5 DEF n, seen
<1> QED
  BY <1>1 DEF Expands

(* It exists: the calls of a height need those of smaller ones only.        *)
LEMMA ExpansionIs ==
  ASSUME NEW d, IsSchema(d)
  PROVE  \E e \in [Calls -> SUBSET SchemaNodes] :
           e = Expands(d, e) /\ \A start \in SchemaNodes : Evidence!Expanded(d, start) = e[<<start, {}>>]
<1> DEFINE Sets == [Calls -> SUBSET SchemaNodes]
           m == (SchemaSize + 1) * (SchemaSize + 1)
           step == [n \in 1..m |-> [e \in Sets |-> Expands(d, e)]]
           none == [c \in Calls |-> {}]
<1>1. m \in Nat
  <2>1. \A x \in Nat : (x + 1) * (x + 1) \in Nat
    OBVIOUS
  <2> QED
    BY <2>1, ProtocolAssumption
<1> HIDE DEF m
<1>2. \A c \in Calls : Height(c) \in Nat /\ Height(c) < m
  <2> TAKE c \in Calls
  <2>1. c[1] \in SchemaNodes /\ c[2] \in SUBSET SchemaNodes /\ c = <<c[1], c[2]>>
    BY CallsSplit
  <2> QED
    BY <2>1, CallIs DEF m
<1>3. step \in [1..m -> [Sets -> Sets]] /\ none \in Sets
  <2>1. \A e \in Sets : Expands(d, e) \in Sets
    BY ExpandFits
  <2>2. none \in Sets
    OBVIOUS
  <2> HIDE DEF Sets, none
  <2> QED
    BY <2>1, <2>2
<1>4. PICK f \in [0..m -> Sets] : \A n \in 1..m : f[n] = step[n][f[n - 1]]
  <2> HIDE DEF Sets, step, none
  <2>1. Iterated(m, Sets, none, step)
    BY <1>1, <1>3, StepByStep
  <2> QED
    BY <2>1 DEF Iterated, Iterates
<1>5. ASSUME NEW n \in 1..m PROVE f[n - 1] \in Sets /\ f[n] = Expands(d, f[n - 1])
  <2>1. n - 1 \in 0..m
    BY <1>1
  <2> HIDE DEF Sets
  <2> QED
    BY <1>4, <2>1
<1> HIDE DEF Sets, step, none
<1> DEFINE Good == {n \in 0..m : \A c \in Calls : Height(c) < n => Expands(d, f[n])[c] = f[n][c]}
<1>6. 0 \in Good
  BY <1>1, <1>2
<1>7. ASSUME NEW n \in 1..m, n - 1 \in Good PROVE n \in Good
  <2> SUFFICES ASSUME NEW c \in Calls, Height(c) < n PROVE Expands(d, f[n])[c] = f[n][c]
    OBVIOUS
  <2>1. f[n] = Expands(d, f[n - 1])
    BY <1>5
  <2>2. \A x \in Calls : Height(x) < Height(c) => f[n][x] = f[n - 1][x]
    <3> TAKE x \in Calls
    <3>1. Height(x) < Height(c) => Height(x) < n - 1
      BY <1>2
    <3>2. Height(x) < n - 1 => Expands(d, f[n - 1])[x] = f[n - 1][x]
      BY <1>7
    <3> QED
      BY <2>1, <3>1, <3>2
  <2>3. Expands(d, f[n])[c] = Expands(d, f[n - 1])[c]
    BY <2>2, ExpandSees
  <2> QED
    BY <2>1, <2>3
<1> HIDE DEF Good
<1>8. \A n \in 0..m : n \in Good
  BY <1>1, <1>6, <1>7, GoesUp
<1> DEFINE e == f[m]
<1>9. e \in [Calls -> SUBSET SchemaNodes]
  <2>1. m \in 0..m
    BY <1>1
  <2> QED
    BY <1>4, <2>1 DEF Sets
<1>10. e = Expands(d, e)
  <2>1. m \in 0..m
    BY <1>1
  <2>2. \A c \in Calls : Expands(d, e)[c] = e[c]
    BY <1>2, <1>8, <2>1 DEF Good
  <2>3. Expands(d, e) \in [Calls -> SUBSET SchemaNodes]
    BY <1>9, ExpandFits
  <2> HIDE DEF e
  <2> QED
    BY <1>9, <2>2, <2>3
<1> HIDE DEF e
<1> DEFINE E == CHOOSE x : x = Expands(d, x)
<1>11. E = Expands(d, E)
  BY <1>10
<1>12. \A start \in SchemaNodes : Evidence!Expanded(d, start) = E[<<start, {}>>]
  BY DEF Evidence!Expanded, Expands, Calls, SchemaNodes
<1> HIDE DEF E
<1>13. E \in [Calls -> SUBSET SchemaNodes]
  <2> DEFINE Same == {n \in 0..m : \A c \in Calls : Height(c) < n => E[c] = e[c]}
  <2>1. 0 \in Same
    BY <1>1, <1>2
  <2>2. ASSUME NEW n \in 1..m, n - 1 \in Same PROVE n \in Same
    <3> SUFFICES ASSUME NEW c \in Calls, Height(c) < n PROVE E[c] = e[c]
      OBVIOUS
    <3>1. \A x \in Calls : Height(x) < Height(c) => E[x] = e[x]
      <4> TAKE x \in Calls
      <4>1. Height(x) < Height(c) => Height(x) < n - 1
        BY <1>2
      <4> QED
        BY <2>2, <4>1
    <3>2. Expands(d, E)[c] = Expands(d, e)[c]
      BY <3>1, ExpandSees
    <3> QED
      BY <1>10, <1>11, <3>2
  <2> HIDE DEF Same
  <2>3. \A n \in 0..m : n \in Same
    BY <1>1, <2>1, <2>2, GoesUp
  <2>4. \A c \in Calls : E[c] = e[c]
    <3>1. m \in Same
      BY <1>1, <2>3
    <3> QED
      BY <1>2, <3>1 DEF Same
  <2>5. E = [c \in Calls |-> Evidence!Expand(d, E, c[1], c[2])]
    BY <1>11 DEF Expands
  <2>6. \A c \in Calls : E[c] \in SUBSET SchemaNodes
    BY <1>9, <2>4
  <2> DEFINE G == [c \in Calls |-> Evidence!Expand(d, E, c[1], c[2])]
  <2>7. G = [c \in Calls |-> G[c]]
    OBVIOUS
  <2> HIDE DEF G
  <2>8. E = [c \in Calls |-> E[c]]
    BY <2>5, <2>7 DEF G
  <2> QED
    BY <2>6, <2>8
<1> QED
  BY <1>11, <1>12, <1>13

(* What a call returns is within every closed set that holds its node, and  *)
(* is closed up to the references followed above.                           *)
Returns(d, c, R) ==
  /\ \A S \in SUBSET SchemaNodes : c[1] \in S /\ Evidence!Closed(d, S) => R \subseteq S
  /\ c[1] \in R
  /\ \A x \in R : /\ Evidence!VariantsOf(d, x) \subseteq R
                  /\ d.ref[x] # 0 => d.ref[x] \in R \cup c[2]

(* By induction over the height.                                            *)
LEMMA CallReturns ==
  ASSUME NEW d, IsSchema(d), NEW e, e = Expands(d, e), NEW c \in Calls,
         \A x \in Calls : Height(x) < Height(c) => Returns(d, x, e[x])
  PROVE  Returns(d, c, e[c])
<1> DEFINE n == c[1]
           seen == c[2]
           to == d.ref[n]
           follows == to # 0 /\ to \notin seen
           R == e[c]
<1>1. n \in SchemaNodes /\ seen \in SUBSET SchemaNodes /\ c = <<n, seen>>
  BY CallsSplit
<1>2. R = Evidence!Expand(d, e, n, seen)
  <2>1. Expands(d, e)[c] = Evidence!Expand(d, e, c[1], c[2])
    BY DEF Expands
  <2> QED
    BY <2>1
<1> HIDE DEF n, seen, R
<1>3. /\ follows => /\ to \in SchemaNodes /\ seen \cup {to} \in SUBSET SchemaNodes
                    /\ Height(<<to, seen \cup {to}>>) < Height(c)
      /\ \A m \in Evidence!VariantsOf(d, n) : m \in SchemaNodes /\ Height(<<m, seen>>) < Height(c)
  BY <1>1, CallIs
<1> DEFINE F == e[<<to, seen \cup {to}>>]
<1>4. ASSUME follows
      PROVE  /\ \A S \in SUBSET SchemaNodes : to \in S /\ Evidence!Closed(d, S) => F \subseteq S
             /\ to \in F
             /\ \A x \in F : /\ Evidence!VariantsOf(d, x) \subseteq F
                             /\ d.ref[x] # 0 => d.ref[x] \in F \cup (seen \cup {to})
  <2> HIDE DEF to
  <2>1. <<to, seen \cup {to}>> \in Calls
    BY <1>3, <1>4 DEF Calls
  <2>2. Returns(d, <<to, seen \cup {to}>>, F)
    BY <1>3, <1>4, <2>1
  <2> HIDE DEF F
  <2> QED
    BY <2>2 DEF Returns
<1>5. ASSUME NEW m \in Evidence!VariantsOf(d, n)
      PROVE  /\ \A S \in SUBSET SchemaNodes : m \in S /\ Evidence!Closed(d, S) => e[<<m, seen>>] \subseteq S
             /\ m \in e[<<m, seen>>]
             /\ \A x \in e[<<m, seen>>] :
                  /\ Evidence!VariantsOf(d, x) \subseteq e[<<m, seen>>]
                  /\ d.ref[x] # 0 => d.ref[x] \in e[<<m, seen>>] \cup seen
  <2>1. <<m, seen>> \in Calls
    BY <1>1, <1>3 DEF Calls
  <2>2. Returns(d, <<m, seen>>, e[<<m, seen>>])
    BY <1>3, <2>1
  <2> QED
    BY <2>2 DEF Returns
<1>6. R = {n} \cup (IF follows THEN F ELSE {}) \cup UNION {e[<<m, seen>>] : m \in Evidence!VariantsOf(d, n)}
  BY <1>2 DEF Evidence!Expand
<1> HIDE DEF F, to
<1>7. ASSUME NEW S \in SUBSET SchemaNodes, n \in S, Evidence!Closed(d, S)
      PROVE  R \subseteq S
  <2>1. Evidence!VariantsOf(d, n) \subseteq S /\ (to # 0 => to \in S)
    BY <1>7 DEF Evidence!Closed, to
  <2>2. follows => F \subseteq S
    BY <1>4, <1>7, <2>1
  <2>3. \A m \in Evidence!VariantsOf(d, n) : e[<<m, seen>>] \subseteq S
    BY <1>5, <1>7, <2>1
  <2> QED
    BY <1>6, <1>7, <2>2, <2>3
<1>8. n \in R
  BY <1>6
<1>9. ASSUME NEW x \in R
      PROVE  Evidence!VariantsOf(d, x) \subseteq R /\ (d.ref[x] # 0 => d.ref[x] \in R \cup seen)
  <2>1. CASE x = n
    <3>1. Evidence!VariantsOf(d, n) \subseteq R
      BY <1>5, <1>6
    <3>2. to # 0 => to \in R \cup seen
      BY <1>4, <1>6
    <3> QED
      BY <2>1, <3>1, <3>2 DEF to
  <2>2. CASE follows /\ x \in F
    <3>1. /\ Evidence!VariantsOf(d, x) \subseteq F /\ to \in F
          /\ d.ref[x] # 0 => d.ref[x] \in F \cup (seen \cup {to})
      BY <1>4, <2>2
    <3>2. F \subseteq R
      BY <1>6, <2>2
    <3> QED
      BY <3>1, <3>2
  <2>3. ASSUME NEW m \in Evidence!VariantsOf(d, n), x \in e[<<m, seen>>]
        PROVE  Evidence!VariantsOf(d, x) \subseteq R /\ (d.ref[x] # 0 => d.ref[x] \in R \cup seen)
    <3>1. /\ Evidence!VariantsOf(d, x) \subseteq e[<<m, seen>>]
          /\ d.ref[x] # 0 => d.ref[x] \in e[<<m, seen>>] \cup seen
      BY <1>5, <2>3
    <3>2. e[<<m, seen>>] \subseteq R
      BY <1>6, <2>3
    <3> QED
      BY <3>1, <3>2
  <2> QED
    BY <1>6, <2>1, <2>2, <2>3
<1> HIDE DEF follows
<1> QED
  BY <1>7, <1>8, <1>9 DEF Returns, n, seen, R

(* expandSchema leads to exactly the nodes that references and variants     *)
(* lead to, whatever circle the references make.                            *)
LEMMA ExpandedIsLed ==
  ASSUME NEW d, IsSchema(d), NEW start \in SchemaNodes
  PROVE  Evidence!Expanded(d, start) = Evidence!Leads(d, start)
<1>1. PICK e \in [Calls -> SUBSET SchemaNodes] :
        e = Expands(d, e) /\ Evidence!Expanded(d, start) = e[<<start, {}>>]
  BY ExpansionIs
<1> DEFINE m == (SchemaSize + 1) * (SchemaSize + 1)
           Good == {n \in 0..m : \A c \in Calls : Height(c) < n => Returns(d, c, e[c])}
<1>2. m \in Nat
  <2>1. \A x \in Nat : (x + 1) * (x + 1) \in Nat
    OBVIOUS
  <2> QED
    BY <2>1, ProtocolAssumption
<1>3. \A c \in Calls : Height(c) \in Nat /\ Height(c) < m
  <2> TAKE c \in Calls
  <2>1. c[1] \in SchemaNodes /\ c[2] \in SUBSET SchemaNodes /\ c = <<c[1], c[2]>>
    BY CallsSplit
  <2> QED
    BY <2>1, CallIs
<1> HIDE DEF m
<1>4. 0 \in Good
  BY <1>2, <1>3
<1>5. ASSUME NEW n \in 1..m, n - 1 \in Good PROVE n \in Good
  <2> SUFFICES ASSUME NEW c \in Calls, Height(c) < n PROVE Returns(d, c, e[c])
    OBVIOUS
  <2>1. \A x \in Calls : Height(x) < Height(c) => Returns(d, x, e[x])
    <3> TAKE x \in Calls
    <3>1. Height(x) < Height(c) => Height(x) < n - 1
      BY <1>3
    <3> QED
      BY <1>5, <3>1
  <2> QED
    BY <1>1, <2>1, CallReturns
<1> HIDE DEF Good
<1>6. m \in Good
  BY <1>2, <1>4, <1>5, GoesUp
<1> DEFINE seen == {}
           c == <<start, seen>>
           R == e[c]
<1>7. c \in Calls /\ c[1] = start /\ c[2] = seen /\ seen = {}
  BY DEF Calls
<1> HIDE DEF seen, c
<1>8. Returns(d, c, R)
  BY <1>3, <1>6, <1>7 DEF Good
<1>9. R \in SUBSET SchemaNodes
  BY <1>1, <1>7
<1> HIDE DEF R
<1>10. /\ \A S \in SUBSET SchemaNodes : start \in S /\ Evidence!Closed(d, S) => R \subseteq S
       /\ start \in R /\ Evidence!Closed(d, R)
  <2>1. c[1] = start /\ c[2] = {}
    BY <1>7
  <2> QED
    BY <1>8, <2>1 DEF Returns, Evidence!Closed
<1>11. Evidence!Leads(d, start) = {n \in SchemaNodes : \A S \in SUBSET SchemaNodes : start \in S /\ Evidence!Closed(d, S) => n \in S}
  BY DEF Evidence!Leads, SchemaNodes
<1>12. Evidence!Leads(d, start) = R
  BY <1>9, <1>10, <1>11
<1> QED
  BY <1>1, <1>12 DEF R, c, seen

(* A property of what is led to.                                            *)
LEMMA BelowIs ==
  ASSUME NEW d, IsSchema(d), NEW S \in SUBSET SchemaNodes
  PROVE  /\ UNION {Evidence!Expanded(d, n) : n \in S} = UNION {Evidence!Leads(d, n) : n \in S}
         /\ Evidence!Below(d, S) = Evidence!PropertyOf(d, UNION {Evidence!Leads(d, n) : n \in S})
         /\ Evidence!Below(d, S) \in SUBSET SchemaNodes
<1>1. UNION {Evidence!Expanded(d, n) : n \in S} = UNION {Evidence!Leads(d, n) : n \in S}
  BY ExpandedIsLed
<1>2. Evidence!Below(d, S) \in SUBSET SchemaNodes
  BY DEF Evidence!Below, Evidence!PropertyOf, IsSchema
<1> QED
  BY <1>1, <1>2 DEF Evidence!Below

(* The nodes at the end of one property, or two.                            *)
LEMMA PathIs ==
  ASSUME NEW d, IsSchema(d)
  PROVE  /\ Evidence!AtPath(d, 1) = Evidence!Below(d, {1})
         /\ Evidence!AtPath(d, 2) = Evidence!Below(d, Evidence!Below(d, {1}))
<1> DEFINE One == Evidence!Below(d, {1})
           Twice == Evidence!Below(d, One)
           Over(k, f) == [i \in 0..k |-> IF i = 0 THEN {1} ELSE Evidence!Below(d, f[i - 1])]
           F(k) == CHOOSE f : f = Over(k, f)
<1>1. \A k \in {1, 2} : Evidence!AtPath(d, k) = F(k)[k]
  BY DEF Evidence!AtPath
<1>2. ASSUME NEW k \in {1, 2} PROVE F(k) = Over(k, F(k))
  <2> DEFINE g == [i \in 0..k |-> IF i = 0 THEN {1} ELSE IF i = 1 THEN One ELSE Twice]
  <2>1. ASSUME NEW i \in 0..k PROVE g[i] = IF i = 0 THEN {1} ELSE Evidence!Below(d, g[i - 1])
    <3> HIDE DEF One
    <3>1. i = 0 \/ i = 1 \/ i = 2
      OBVIOUS
    <3>2. g[0] = {1} /\ (i >= 1 => g[1] = One) /\ (i = 2 => g[2] = Twice)
      OBVIOUS
    <3>3. i >= 1 => i - 1 \in 0..k
      OBVIOUS
    <3> HIDE DEF g
    <3>4. CASE i = 0
      BY <3>2, <3>4
    <3>5. CASE i = 1
      BY <3>2, <3>5 DEF One
    <3>6. CASE i = 2
      BY <3>2, <3>6
    <3> QED
      BY <3>1, <3>4, <3>5, <3>6
  <2> HIDE DEF One, Twice
  <2>2. g = Over(k, g)
    BY <2>1
  <2> HIDE DEF Over
  <2> QED
    BY <2>2
<1> HIDE DEF F
<1>3. ASSUME NEW k \in {1, 2}
      PROVE  F(k)[0] = {1} /\ \A i \in 1..k : F(k)[i] = Evidence!Below(d, F(k)[i - 1])
  <2>1. \A i \in 0..k : Over(k, F(k))[i] = IF i = 0 THEN {1} ELSE Evidence!Below(d, F(k)[i - 1])
    OBVIOUS
  <2> HIDE DEF Over
  <2> QED
    BY <1>2, <2>1
<1>4. F(1)[1] = One
  <2>1. 1 \in 1..1 /\ 1 - 1 = 0
    OBVIOUS
  <2> QED
    BY <1>3, <2>1
<1>5. F(2)[2] = Twice
  <2>1. 1 \in 1..2 /\ 1 - 1 = 0 /\ 2 \in 1..2 /\ 2 - 1 = 1
    OBVIOUS
  <2> QED
    BY <1>3, <2>1
<1> QED
  BY <1>1, <1>4, <1>5

(* The ends of a path are those that the references lead to.                *)
LEMMA EndsAreLed ==
  ASSUME NEW d, IsSchema(d), NEW k \in {1, 2}
  PROVE  Evidence!Ends(d, k) = Evidence!LeadEnds(d, k)
<1> DEFINE One == Evidence!Below(d, {1})
           Led == Evidence!PropertyOf(d, Evidence!Leads(d, 1))
<1>1. 1 \in SchemaNodes
  BY ProtocolAssumption DEF SchemaNodes
<1>2. One = Led /\ One \in SUBSET SchemaNodes
  <2>1. {1} \in SUBSET SchemaNodes
    BY <1>1
  <2>2. UNION {Evidence!Leads(d, n) : n \in {1}} = Evidence!Leads(d, 1)
    OBVIOUS
  <2> QED
    BY <2>1, <2>2, BelowIs
<1> HIDE DEF One, Led
<1>3. CASE k = 1
  <2>1. Evidence!Ends(d, 1) = UNION {Evidence!Expanded(d, n) : n \in One}
    BY PathIs DEF Evidence!Ends, One
  <2>2. Evidence!LeadEnds(d, 1) = UNION {Evidence!Leads(d, n) : n \in Led}
    BY DEF Evidence!LeadEnds, Led
  <2> QED
    BY <1>2, <1>3, <2>1, <2>2, BelowIs
<1>4. CASE k = 2
  <2> DEFINE Further == Evidence!Below(d, One)
  <2>1. Evidence!Ends(d, 2) = UNION {Evidence!Expanded(d, n) : n \in Further}
    BY PathIs DEF Evidence!Ends, One
  <2>2. Evidence!LeadEnds(d, 2) =
          UNION {Evidence!Leads(d, n) : n \in Evidence!PropertyOf(d, UNION {Evidence!Leads(d, x) : x \in Led})}
    BY DEF Evidence!LeadEnds, Led
  <2>3. /\ Further = Evidence!PropertyOf(d, UNION {Evidence!Leads(d, n) : n \in One})
        /\ Further \in SUBSET SchemaNodes
    BY <1>2, BelowIs
  <2> HIDE DEF Further
  <2>4. UNION {Evidence!Expanded(d, n) : n \in Further} = UNION {Evidence!Leads(d, n) : n \in Further}
    <3>1. \A n \in Further : Evidence!Expanded(d, n) = Evidence!Leads(d, n)
      BY <2>3, ExpandedIsLed
    <3> QED
      BY <3>1
  <2> QED
    BY <1>2, <1>4, <2>1, <2>2, <2>3, <2>4
<1> QED
  BY <1>3, <1>4

(* The check of the protocol.                                               *)
LEMMA SamplesAreLed ==
  ASSUME NEW d \in Samples
  PROVE  Evidence!Validates(d) <=> d.allows \in Evidence!LeadEnds(d, 1)
<1>1. IsSchema(d)
  BY ProtocolAssumption, SchemaIs
<1>2. Evidence!Ends(d, 1) = Evidence!LeadEnds(d, 1)
  BY <1>1, EndsAreLed
<1> QED
  BY <1>2 DEF Evidence!Validates, Evidence!Expectation

(* So it is with every schema, and with the one a Codex here generates.     *)
LEMMA SchemasAreLed ==
  \A d \in Evidence!Schemas, k \in 1..2 : Evidence!Ends(d, k) = Evidence!LeadEnds(d, k)
<1> SUFFICES ASSUME NEW d \in Evidence!Schemas, NEW k \in 1..2
             PROVE  Evidence!Ends(d, k) = Evidence!LeadEnds(d, k)
  OBVIOUS
<1>1. [parent |-> d.parent, property |-> d.property, ref |-> d.ref] = d
  <2>1. PICK t \in Evidence!TreeShapes, r \in Evidence!References :
          d = [parent |-> t.parent, property |-> t.property, ref |-> r]
    BY DEF Evidence!Schemas
  <2> QED
    BY <2>1
<1>2. IsSchema(d) /\ k \in {1, 2}
  BY <1>1, SchemaIs
<1> QED
  BY <1>2, EndsAreLed

(* What the check knows of itself.                                          *)
EvidenceRecord ==
  [pc : Evidence!Places, phase : 0..3, todo : SUBSET Required, made : SUBSET {"ts", "json"}, dir : BOOLEAN]

(* It starts with nothing made and no directory.                            *)
LEMMA EvidenceStarts ==
  ASSUME Evidence!EvidenceInit
  PROVE  Evidence!EvidenceFits
<1>1. s1 \in Samples /\ s2 \in [{"ts", "json"} -> SUBSET Required] /\ s4 \in BOOLEAN /\ s5 \in BOOLEAN
  <2>1. \A x \in {"ts", "json"} : [ts |-> {}, json |-> {}][x] = {}
    OBVIOUS
  <2> QED
    BY <2>1 DEF Evidence!EvidenceInit
<1>2. s3.pc = "startup" /\ s3.phase = 0 /\ s3 \in EvidenceRecord /\ ~s3.dir /\ s3.made = {}
  BY DEF Evidence!EvidenceInit, EvidenceRecord, Evidence!Places
<1> QED
  BY <1>1, <1>2 DEF Evidence!EvidenceFits, EvidenceRecord, Evidence!Running, Evidence!Kinds

(* The check ends, at any place, for a cause that is there.                 *)
LEMMA EvidenceEnds ==
  ASSUME Evidence!EvidenceFits, NEW kind \in Evidence!Kinds, Evidence!End(kind),
         UNCHANGED <<s1, s2, s4, s5>>,
         kind = "cancelled" => s5, kind = "timeout" => s4,
         kind = "protocol-incompatible" /\ s3.phase > 1 =>
           ~Evidence!Validates(s1) \/ \E x \in {"ts", "json"} : s2[x] # Required
  PROVE  Evidence!EvidenceFits'
<1>1. s3 \in EvidenceRecord
  BY DEF Evidence!EvidenceFits, EvidenceRecord
<1>2. kind \in Evidence!Places
  BY DEF Evidence!Places
<1>3. /\ s3'.pc = kind /\ s3'.dir = FALSE /\ s3'.phase = s3.phase /\ s3'.todo = s3.todo /\ s3'.made = s3.made
      /\ s3' \in EvidenceRecord
  BY <1>1, <1>2 DEF Evidence!End, EvidenceRecord
<1>4. kind \notin {"startup", "find", "spawn", "runs", "next", "ts", "json", "evidence"}
  BY DEF Evidence!Kinds
<1> QED
  BY <1>3, <1>4 DEF Evidence!EvidenceFits, EvidenceRecord, Evidence!Running, Evidence!Validates

(* Every step of the check keeps what its place has established.            *)
LEMMA EvidenceKeeps ==
  ASSUME Evidence!EvidenceFits, Evidence!EvidenceNext
  PROVE  Evidence!EvidenceFits'
<1>1. /\ s3 \in EvidenceRecord /\ s1 \in Samples /\ s2 \in [{"ts", "json"} -> SUBSET Required]
      /\ s4 \in BOOLEAN /\ s5 \in BOOLEAN
  BY DEF Evidence!EvidenceFits, EvidenceRecord
<1>2. /\ s3.pc \in Evidence!Places /\ s3.phase \in 0..3 /\ s3.todo \in SUBSET Required
      /\ s3.made \in SUBSET {"ts", "json"} /\ s3.dir \in BOOLEAN
  BY <1>1 DEF EvidenceRecord
<1>3. /\ {"cancelled", "timeout", "executable-missing", "generation-failed", "protocol-incompatible"} \subseteq Evidence!Kinds
      /\ "evidence" \notin Evidence!Kinds /\ Evidence!Outside = <<s1, s2>>
  BY DEF Evidence!Kinds, Evidence!Outside
(* Ends for the signal, for the deadline, or for want of an executable.     *)
<1>4. ASSUME UNCHANGED <<s1, s2, s4, s5>>,
             NEW kind \in {"cancelled", "timeout", "executable-missing", "generation-failed"},
             kind = "cancelled" => s5, kind = "timeout" => s4, Evidence!End(kind)
      PROVE  Evidence!EvidenceFits'
  BY <1>3, <1>4, EvidenceEnds
<1>5. CASE Evidence!DeadlinePasses \/ Evidence!Abort
  BY <1>5 DEF Evidence!DeadlinePasses, Evidence!Abort, Evidence!EvidenceFits, Evidence!Running, Evidence!Validates
(* The record of the check turns to a place of its course.                  *)
<1>6. ASSUME NEW r, s3' = r, r \in EvidenceRecord, r.pc \in {"find", "spawn", "runs", "next", "ts", "json"}, s1' = s1, s4' = s4, s5' = s5,
             s2' \in [{"ts", "json"} -> SUBSET Required],
             r.pc \in {"find", "spawn", "runs"} => r.made = Evidence!Made(r.phase - 1) /\ r.phase > 0,
             r.pc = "next" => r.made = Evidence!Made(r.phase) /\ r.phase > 0,
             r.pc \in {"ts", "json"} => r.made = {"ts", "json"} /\ r.phase = 3,
             r.pc = "ts" => Required \ r.todo \subseteq s2'["ts"],
             r.pc = "json" => /\ s2'["ts"] = Required
                              /\ Required \ r.todo \subseteq s2'["json"]
                              /\ Required \ r.todo # {} => Evidence!Validates(s1)
      PROVE  Evidence!EvidenceFits'
  <2>1. r.pc \notin Evidence!Kinds \cup {"evidence", "startup"}
    BY <1>6 DEF Evidence!Kinds
  <2>2. r.pc \notin {"cancelled", "timeout", "protocol-incompatible"}
    BY <1>3, <2>1
  <2> QED
    BY <1>1, <1>6, <2>1, <2>2 DEF Evidence!EvidenceFits, EvidenceRecord, Evidence!Running, Evidence!Validates
<1>7. CASE Evidence!Startup
  <2>1. s1' = s1 /\ s2' = s2 /\ s4' = s4 /\ s5' = s5 /\ s3.pc = "startup"
    BY <1>7 DEF Evidence!Startup, Evidence!Outside
  <2>2. CASE s5
    BY <1>4, <1>7, <2>1, <2>2 DEF Evidence!Startup
  <2>3. CASE ~s5
    <3> DEFINE open == TRUE
               r == [s3 EXCEPT !.pc = "find", !.phase = 1, !.dir = open]
    <3>1. s3' = r
      BY <1>7, <2>1, <2>3 DEF Evidence!Startup
    <3>a. open \in BOOLEAN /\ "find" \in Evidence!Places /\ 1 \in 0..3
      BY DEF Evidence!Places
    <3>2. /\ r \in EvidenceRecord /\ r.pc = "find" /\ r.phase = 1 /\ r.made = {}
      <4>1. s3.made = {}
        BY <2>1 DEF Evidence!EvidenceFits
      <4> HIDE DEF open
      <4> QED
        BY <1>1, <3>a, <4>1 DEF EvidenceRecord
    <3> HIDE DEF r
    <3>3. Evidence!Made(r.phase - 1) = {}
      BY <3>2 DEF Evidence!Made
    <3> QED
      BY <1>1, <1>6, <2>1, <3>1, <3>2, <3>3
  <2> QED
    BY <1>1, <2>2, <2>3
(* The place changes, what is known does not.                               *)
<1>8. ASSUME NEW pc \in {"spawn", "runs"}, Evidence!Goes(pc), s3.pc \in {"find", "spawn"}, s1' = s1, s2' = s2, s4' = s4, s5' = s5
      PROVE  Evidence!EvidenceFits'
  <2> DEFINE r == [s3 EXCEPT !.pc = pc]
  <2>1. s3' = r
    BY <1>8 DEF Evidence!Goes
  <2>2. s3.made = Evidence!Made(s3.phase - 1) /\ s3.phase > 0
    BY <1>8 DEF Evidence!EvidenceFits
  <2>3. r \in EvidenceRecord /\ r.pc = pc /\ r.phase = s3.phase /\ r.made = s3.made
    BY <1>1, <1>8 DEF EvidenceRecord, Evidence!Places
  <2> HIDE DEF r
  <2> QED
    BY <1>1, <1>6, <1>8, <2>1, <2>2, <2>3
(* throwIfCancelled, or the deadline.                                       *)
<1>9. ASSUME UNCHANGED <<s1, s2, s4, s5>>, s5 \/ s4, Evidence!Stops
      PROVE  Evidence!EvidenceFits'
  <2>1. CASE s5
    BY <1>4, <1>9, <2>1 DEF Evidence!Stops
  <2>2. CASE ~s5
    BY <1>1, <1>4, <1>9, <2>2 DEF Evidence!Stops
  <2> QED
    BY <2>1, <2>2
<1>10. CASE Evidence!FindExecutable
  <2>1. s1' = s1 /\ s2' = s2 /\ s4' = s4 /\ s5' = s5 /\ s3.pc = "find"
    BY <1>10 DEF Evidence!FindExecutable, Evidence!Outside
  <2>2. \/ (s5 \/ s4) /\ Evidence!Stops
        \/ Evidence!Goes("spawn")
        \/ Evidence!End("executable-missing")
    BY <1>10 DEF Evidence!FindExecutable
  <2> QED
    BY <1>4, <1>8, <1>9, <2>1, <2>2
<1>11. CASE Evidence!Spawn
  <2>1. s1' = s1 /\ s2' = s2 /\ s4' = s4 /\ s5' = s5 /\ s3.pc = "spawn"
    BY <1>11 DEF Evidence!Spawn, Evidence!Outside
  <2>2. \/ s4 /\ Evidence!End("timeout")
        \/ Evidence!Goes("runs")
    BY <1>1, <1>11 DEF Evidence!Spawn
  <2> QED
    BY <1>4, <1>8, <2>1, <2>2
<1>12. CASE Evidence!ChildSucceeds
  <2>1. /\ s1' = s1 /\ s4' = s4 /\ s5' = s5 /\ s3.pc = "runs"
        /\ s3.made = Evidence!Made(s3.phase - 1) /\ s3.phase \in 1..3
    BY <1>2, <1>12 DEF Evidence!ChildSucceeds, Evidence!EvidenceFits
  <2>2. PICK made \in SUBSET Required :
          s2' = [x \in {"ts", "json"} |-> IF x \in Evidence!ToGenerate THEN made ELSE s2[x]]
    BY <1>12 DEF Evidence!ChildSucceeds
  <2>3. s2' \in [{"ts", "json"} -> SUBSET Required]
    BY <1>1, <2>2
  <2>4. CASE s3.phase = 1 /\ Evidence!End("protocol-incompatible")
    <3>1. Evidence!ToGenerate = {}
      BY <2>4 DEF Evidence!ToGenerate
    <3>2. s2' = s2
      BY <1>1, <2>2, <3>1
    <3>3. "protocol-incompatible" \in Evidence!Kinds /\ ~(s3.phase > 1)
      BY <1>3, <2>4
    <3> QED
      BY <2>1, <2>4, <3>2, <3>3, EvidenceEnds
  <2>5. CASE s3' = [s3 EXCEPT !.pc = "next", !.made = @ \cup Evidence!ToGenerate]
    <3> DEFINE r == [s3 EXCEPT !.pc = "next", !.made = @ \cup Evidence!ToGenerate]
    <3>1. Evidence!ToGenerate \in SUBSET {"ts", "json"}
      BY DEF Evidence!ToGenerate
    <3>2. r \in EvidenceRecord /\ r.pc = "next" /\ r.phase = s3.phase /\ r.made = s3.made \cup Evidence!ToGenerate
      BY <1>1, <3>1 DEF EvidenceRecord, Evidence!Places
    <3>3. Evidence!Made(s3.phase) = Evidence!Made(s3.phase - 1) \cup Evidence!ToGenerate
      <4>1. s3.phase = 1 \/ s3.phase = 2 \/ s3.phase = 3
        BY <2>1
      <4> QED
        BY <4>1 DEF Evidence!Made, Evidence!ToGenerate
    <3>4. s3' = r
      BY <2>5
    <3> HIDE DEF r
    <3> QED
      BY <1>6, <2>1, <2>3, <3>2, <3>3, <3>4
  <2> QED
    BY <1>12, <2>4, <2>5 DEF Evidence!ChildSucceeds
<1>13. CASE Evidence!ChildFails
  <2>1. s1' = s1 /\ s2' = s2 /\ s4' = s4 /\ s5' = s5
    BY <1>13 DEF Evidence!ChildFails, Evidence!Outside
  <2>2. PICK kind \in {"timeout", "cancelled", "executable-missing", "generation-failed"} :
          /\ kind = "timeout" => s4
          /\ kind = "cancelled" <=> s5 /\ kind # "timeout"
          /\ Evidence!End(kind)
    BY <1>13 DEF Evidence!ChildFails
  <2> QED
    BY <1>4, <2>1, <2>2
<1>14. CASE Evidence!NextPhase
  <2>1. s1' = s1 /\ s2' = s2 /\ s4' = s4 /\ s5' = s5 /\ s3.pc = "next"
        /\ s3.made = Evidence!Made(s3.phase) /\ s3.phase \in 1..3
    BY <1>2, <1>14 DEF Evidence!NextPhase, Evidence!EvidenceFits, Evidence!Outside
  <2>2. CASE s5
    BY <1>4, <1>14, <2>1, <2>2 DEF Evidence!NextPhase
  <2>3. CASE ~s5 /\ s3.phase < 3
    <3> DEFINE next == s3.phase + 1
               r == [s3 EXCEPT !.pc = "find", !.phase = next]
    <3>1. s3' = r
      BY <1>14, <2>3 DEF Evidence!NextPhase, Evidence!Phases
    <3>2. next \in 0..3 /\ next > 0 /\ next - 1 = s3.phase /\ "find" \in Evidence!Places
      BY <2>1, <2>3 DEF Evidence!Places
    <3> HIDE DEF next
    <3>3. r \in EvidenceRecord /\ r.pc = "find" /\ r.phase = next /\ r.made = s3.made
      BY <1>1, <3>2 DEF EvidenceRecord
    <3> HIDE DEF r
    <3> QED
      BY <1>1, <1>6, <2>1, <3>1, <3>2, <3>3
  <2>4. CASE ~s5 /\ s3.phase = 3
    <3> DEFINE r == [s3 EXCEPT !.pc = "ts", !.todo = Required]
    <3>1. s3' = r
      BY <1>14, <2>4 DEF Evidence!NextPhase, Evidence!Phases
    <3>2. r \in EvidenceRecord /\ r.pc = "ts" /\ r.phase = 3 /\ r.made = s3.made /\ r.todo = Required
      BY <1>1, <2>4 DEF EvidenceRecord, Evidence!Places
    <3> HIDE DEF r
    <3>3. r.made = {"ts", "json"} /\ Required \ r.todo = {}
      BY <2>1, <2>4, <3>2 DEF Evidence!Made
    <3> QED
      BY <1>1, <1>6, <2>1, <3>1, <3>2, <3>3
  <2> QED
    BY <1>1, <2>1, <2>2, <2>3, <2>4
<1>15. ASSUME NEW file \in Required, Evidence!ReadFile(file) PROVE Evidence!EvidenceFits'
  <2>1. s1' = s1 /\ s2' = s2 /\ s4' = s4 /\ s5' = s5 /\ s3.pc \in {"ts", "json"} /\ file \in s3.todo
    BY <1>15 DEF Evidence!ReadFile, Evidence!Outside
  <2>2. s3.made = {"ts", "json"} /\ s3.phase = 3
    BY <2>1 DEF Evidence!EvidenceFits
  <2>3. CASE s5 \/ s4
    BY <1>9, <1>15, <2>1, <2>3 DEF Evidence!ReadFile
  <2> DEFINE bad == ~Evidence!Present(file, s3.pc) \/ (s3.pc = "json" /\ ~Evidence!Validates(s1))
  <2>4. CASE ~(s5 \/ s4) /\ bad
    <3>1. Evidence!End("protocol-incompatible")
      BY <1>15, <2>4 DEF Evidence!ReadFile
    <3>2. ~Evidence!Validates(s1) \/ \E x \in {"ts", "json"} : s2[x] # Required
      BY <2>1, <2>4 DEF Evidence!Present
    <3>3. "protocol-incompatible" \in Evidence!Kinds
      BY <1>3
    <3> QED
      BY <2>1, <3>1, <3>2, <3>3, EvidenceEnds
  <2>5. CASE ~(s5 \/ s4) /\ ~bad
    <3> DEFINE r == [s3 EXCEPT !.todo = @ \ {file}]
    <3>1. s3' = r
      BY <1>15, <2>5 DEF Evidence!ReadFile
    <3>2. /\ r \in EvidenceRecord /\ r.pc = s3.pc /\ r.phase = 3 /\ r.made = {"ts", "json"}
          /\ r.todo = s3.todo \ {file}
      BY <1>1, <2>2 DEF EvidenceRecord
    <3> HIDE DEF r
    <3>3. file \in s2[s3.pc] /\ (s3.pc = "json" => Evidence!Validates(s1))
      BY <2>5 DEF Evidence!Present
    <3>4. /\ s3.pc = "ts" => Required \ s3.todo \subseteq s2["ts"]
          /\ s3.pc = "json" => s2["ts"] = Required /\ Required \ s3.todo \subseteq s2["json"]
      BY DEF Evidence!EvidenceFits
    <3>5. /\ r.pc = "ts" => Required \ r.todo \subseteq s2["ts"]
          /\ r.pc = "json" => /\ s2["ts"] = Required
                              /\ Required \ r.todo \subseteq s2["json"]
                              /\ Evidence!Validates(s1)
      BY <3>2, <3>3, <3>4
    <3> QED
      BY <1>1, <1>6, <2>1, <3>1, <3>2, <3>5
  <2> QED
    BY <2>3, <2>4, <2>5
<1>16. CASE Evidence!TreeRead
  <2>1. s1' = s1 /\ s2' = s2 /\ s4' = s4 /\ s5' = s5 /\ s3.pc \in {"ts", "json"} /\ s3.todo = {}
    BY <1>16 DEF Evidence!TreeRead, Evidence!Outside
  <2>2. s3.made = {"ts", "json"} /\ s3.phase = 3
    BY <2>1 DEF Evidence!EvidenceFits
  <2>3. \A x \in {"ts", "json"} : s2[x] \in SUBSET Required
    BY <1>1
  <2>4. CASE s3.pc = "json"
    <3>1. s2["ts"] = Required /\ s2["json"] = Required /\ Evidence!Validates(s1)
      <4>1. /\ s2["ts"] = Required /\ Required \ s3.todo \subseteq s2["json"]
            /\ Required \ s3.todo # {} => Evidence!Validates(s1)
        BY <2>4 DEF Evidence!EvidenceFits
      <4> QED
        BY <2>1, <2>3, <4>1, ProtocolAssumption
    <3> DEFINE r == [s3 EXCEPT !.pc = "evidence", !.dir = FALSE]
    <3>2. s3' = r
      BY <1>16, <2>4 DEF Evidence!TreeRead, Evidence!End
    <3>3. r \in EvidenceRecord /\ r.pc = "evidence" /\ r.phase = 3 /\ r.made = {"ts", "json"} /\ r.dir = FALSE
      BY <1>1, <2>2 DEF EvidenceRecord, Evidence!Places
    <3> HIDE DEF r
    <3>4. r.pc \notin {"startup", "find", "spawn", "runs", "next", "ts", "json", "protocol-incompatible", "cancelled", "timeout"}
      BY <3>3
    <3> QED
      BY <1>1, <2>1, <3>1, <3>2, <3>3, <3>4 DEF Evidence!EvidenceFits, EvidenceRecord, Evidence!Validates
  <2>5. CASE s3.pc = "ts" /\ s5
    BY <1>4, <1>16, <2>1, <2>5 DEF Evidence!TreeRead
  <2>6. CASE s3.pc = "ts" /\ ~s5
    <3> DEFINE r == [s3 EXCEPT !.pc = "json", !.todo = Required]
    <3>1. s3' = r
      BY <1>16, <2>6 DEF Evidence!TreeRead
    <3>2. r \in EvidenceRecord /\ r.pc = "json" /\ r.phase = 3 /\ r.made = {"ts", "json"} /\ r.todo = Required
      BY <1>1, <2>2 DEF EvidenceRecord, Evidence!Places
    <3> HIDE DEF r
    <3>3. s2["ts"] = Required /\ Required \ r.todo = {}
      <4>1. Required \ s3.todo \subseteq s2["ts"]
        BY <2>6 DEF Evidence!EvidenceFits
      <4> QED
        BY <2>1, <2>3, <3>2, <4>1
    <3> QED
      BY <1>1, <1>6, <2>1, <3>1, <3>2, <3>3
  <2> QED
    BY <1>1, <2>1, <2>4, <2>5, <2>6
<1> QED
  BY <1>5, <1>7, <1>10, <1>11, <1>12, <1>13, <1>14, <1>15, <1>16 DEF Evidence!EvidenceNext

(* The invariant of the part.                                               *)
EvidenceInv == part = "protocol" => Evidence!EvidenceFits

LEMMA EvidenceInductive == PartsSpec => []EvidenceInv
<1>1. PartsInit => EvidenceInv
  BY EvidenceStarts DEF PartsInit, EvidenceInv
<1>2. EvidenceInv /\ [PartsNext]_partsVars => EvidenceInv'
  <2>1. ASSUME EvidenceInv, PartsNext
        PROVE  EvidenceInv'
    BY <2>1, PartStays, EvidenceAlone, EvidenceKeeps DEF EvidenceInv
  <2>2. ASSUME EvidenceInv, UNCHANGED partsVars
        PROVE  EvidenceInv'
    <3>1. s1' = s1 /\ s2' = s2 /\ s3' = s3 /\ s4' = s4 /\ s5' = s5 /\ part' = part
      BY <2>2 DEF partsVars
    <3> QED
      BY <2>2, <3>1 DEF EvidenceInv, Evidence!EvidenceFits, Evidence!Running, Evidence!Validates
  <2> QED
    BY <2>1, <2>2
<1> QED
  BY <1>1, <1>2, PTL DEF PartsSpec

(* What the check asks of a schema is what its references lead to.          *)
LEMMA EvidenceIsTrue ==
  ASSUME Evidence!EvidenceFits
  PROVE  Evidence!EvidenceIsEarned
<1>1. Evidence!Validates(s1) <=> Evidence!Allowed
  BY SamplesAreLed DEF Evidence!EvidenceFits, Evidence!Allowed
<1>2. s3.pc = "evidence" =>
        /\ s3.made = {"ts", "json"} /\ Evidence!Allowed
        /\ \A x \in {"ts", "json"} : s2[x] = Required
  BY <1>1 DEF Evidence!EvidenceFits
<1>3. /\ s3.pc = "protocol-incompatible" /\ s3.phase > 1 =>
           ~Evidence!Allowed \/ \E x \in {"ts", "json"} : s2[x] # Required
      /\ s3.pc = "cancelled" => s5
      /\ s3.pc = "timeout" => s4
      /\ ~Evidence!Running => ~s3.dir
  BY <1>1 DEF Evidence!EvidenceFits
<1> QED
  BY <1>2, <1>3, SchemasAreLed DEF Evidence!EvidenceIsEarned

-----------------------------------------------------------------------------
(* Sequences, put together and spread                                      *)

(* What holds of the empty sequence, and of a longer one if of the shorter, *)
(* holds of all.                                                            *)
LEMMA SequencesGrow ==
  ASSUME NEW S, NEW Good, <<>> \in Good, \A s \in Seq(S), e \in S : s \in Good => Append(s, e) \in Good
  PROVE  Seq(S) \subseteq Good
<1> SUFFICES ASSUME NEW s \in Seq(S) PROVE s \in Good
  OBVIOUS
<1> DEFINE m == Len(s)
           G == {n \in 0..m : SubSeq(s, 1, n) \in Good}
<1>1. m \in Nat /\ s = SubSeq(s, 1, m)
  BY SubSeqFull
<1>2. 0 \in G
  <2>1. SubSeq(s, 1, 0) = <<>>
    OBVIOUS
  <2>2. 0 \in 0..m
    BY <1>1
  <2> QED
    BY <2>1, <2>2
<1>3. ASSUME NEW n \in 1..m, n - 1 \in G PROVE n \in G
  <2> DEFINE t == SubSeq(s, 1, n - 1)
             e == s[n]
  <2>1. t \in Good
    BY <1>3
  <2>2. e \in S /\ t \in Seq(S)
    <3>1. \A i \in 1 .. n - 1 : s[i] \in S
      BY <1>1
    <3> QED
      BY <1>1, <3>1
  <2>3. n \in 0..m /\ n \in Nat
    BY <1>1
  <2>4. SubSeq(s, 1, n) = Append(t, e)
    <3>1. /\ Len(SubSeq(s, 1, n)) = n /\ Len(t) = n - 1
          /\ \A i \in 1..n : SubSeq(s, 1, n)[i] = s[i]
          /\ \A i \in 1 .. n - 1 : t[i] = s[i]
      BY <1>1, <2>3
    <3>2. Append(t, e) \in Seq(S) /\ Len(Append(t, e)) = n
          /\ \A i \in 1..n : Append(t, e)[i] = s[i]
      <4> HIDE DEF t
      <4>1. /\ Append(t, e) \in Seq(S) /\ Len(Append(t, e)) = Len(t) + 1
            /\ Append(t, e)[Len(t) + 1] = e
            /\ \A i \in 1..Len(t) : Append(t, e)[i] = t[i]
        BY <2>2
      <4> QED
        BY <2>3, <3>1, <4>1
    <3>3. SubSeq(s, 1, n) \in Seq(S)
      BY <1>1, <2>3
    <3> HIDE DEF t, e
    <3> QED
      BY <2>3, <3>1, <3>2, <3>3, SeqEqual
  <2> HIDE DEF t, e
  <2>5. Append(t, e) \in Good
    BY <2>1, <2>2
  <2> QED
    BY <2>3, <2>4, <2>5
<1>4. \A n \in 0..m : n \in G
  <2> HIDE DEF m, G
  <2> QED
    BY <1>1, <1>2, <1>3, GoesUp
<1>5. m \in G
  <2>1. m \in 0..m
    BY <1>1
  <2> HIDE DEF m, G
  <2> QED
    BY <1>4, <2>1
<1> QED
  BY <1>1, <1>5

(* Lists, put together.                                                     *)
Together(lists) ==
  LET upTo[n \in 0..Len(lists)] == IF n = 0 THEN <<>> ELSE upTo[n - 1] \o lists[n]
  IN upTo[Len(lists)]
(* Joined of a model, as a function that goes from one list to the next.    *)
PutTogether(lists, S, f) ==
  /\ Together(lists) = f[Len(lists)] /\ f[0] = <<>>
  /\ \A n \in 0..Len(lists) : f[n] \in Seq(S)
  /\ \A n \in 1..Len(lists) : f[n] = f[n - 1] \o lists[n]

(* There is such a function, and it is the one that is meant.               *)
LEMMA TogetherIs ==
  ASSUME NEW S, NEW lists \in Seq(Seq(S))
  PROVE  \E f : PutTogether(lists, S, f)
<1> DEFINE m == Len(lists)
           T == Seq(S)
           Over(f) == [n \in 0..m |-> IF n = 0 THEN <<>> ELSE f[n - 1] \o lists[n]]
           F == CHOOSE f : f = Over(f)
           step == [n \in 1..m |-> [t \in T |-> t \o lists[n]]]
<1>1. m \in Nat /\ <<>> \in T /\ Together(lists) = F[m]
  BY DEF Together
<1>2. step \in [1..m -> [T -> T]]
  <2>1. ASSUME NEW n \in 1..m, NEW t \in T PROVE t \o lists[n] \in T
    OBVIOUS
  <2> HIDE DEF m, T
  <2> QED
    BY <2>1
<1>3. PICK f \in [0..m -> T] : f[0] = <<>> /\ \A n \in 1..m : f[n] = step[n][f[n - 1]]
  <2> HIDE DEF m, T, step
  <2>1. Iterated(m, T, <<>>, step)
    BY <1>1, <1>2, StepByStep
  <2> QED
    BY <2>1 DEF Iterated, Iterates
<1>4. \A n \in 1..m : f[n] = f[n - 1] \o lists[n]
  <2> SUFFICES ASSUME NEW n \in 1..m PROVE f[n] = f[n - 1] \o lists[n]
    OBVIOUS
  <2>1. n - 1 \in 0..m
    BY <1>1
  <2> HIDE DEF m, T
  <2>2. f[n - 1] \in T
    BY <1>3, <2>1
  <2> QED
    BY <1>3, <2>2
<1> HIDE DEF step
<1>5. f = Over(f)
  <2>1. f = [n \in 0..m |-> f[n]]
    BY <1>3
  <2>2. ASSUME NEW n \in 0..m PROVE f[n] = IF n = 0 THEN <<>> ELSE f[n - 1] \o lists[n]
    <3>1. n = 0 \/ n \in 1..m
      BY <1>1
    <3>2. 0 \notin 1..m
      OBVIOUS
    <3> HIDE DEF m, T
    <3> QED
      BY <1>3, <1>4, <3>1, <3>2
  <2> HIDE DEF m
  <2> QED
    BY <2>1, <2>2
<1>6. F = Over(F)
  <2> HIDE DEF Over
  <2> QED
    BY <1>5
<1> HIDE DEF F
<1>7. F[0] = <<>> /\ \A n \in 1..m : F[n] = F[n - 1] \o lists[n]
  <2>1. \A n \in 0..m : Over(F)[n] = IF n = 0 THEN <<>> ELSE F[n - 1] \o lists[n]
    OBVIOUS
  <2>2. 0 \in 0..m /\ \A n \in 1..m : n \in 0..m /\ n # 0
    BY <1>1
  <2> HIDE DEF Over
  <2> QED
    BY <1>1, <1>6, <2>1, <2>2
<1> DEFINE Good == {n \in 0..m : F[n] \in T}
<1>8. \A n \in 0..m : F[n] \in T
  <2>1. 0 \in Good
    <3>1. 0 \in 0..m
      BY <1>1
    <3> HIDE DEF m, T
    <3> QED
      BY <1>1, <1>7, <3>1
  <2>2. ASSUME NEW n \in 1..m, n - 1 \in Good PROVE n \in Good
    <3>1. F[n - 1] \in Seq(S) /\ lists[n] \in Seq(S) /\ n \in 0..m
      BY <1>1, <2>2
    <3>2. F[n - 1] \o lists[n] \in Seq(S)
      BY <3>1
    <3> HIDE DEF m
    <3> QED
      BY <1>7, <3>1, <3>2
  <2>3. \A n \in 0..m : n \in Good
    <3> HIDE DEF Good, m
    <3> QED
      BY <1>1, <2>1, <2>2, GoesUp
  <2> QED
    BY <2>3
<1> QED
  BY <1>1, <1>7, <1>8 DEF PutTogether

(* One more list comes at the end.                                          *)
LEMMA TogetherGrows ==
  ASSUME NEW S
  PROVE  /\ Together(<<>>) = <<>>
         /\ \A s \in Seq(Seq(S)) :
              /\ Together(s) \in Seq(S)
              /\ \A e \in Seq(S) : Together(Append(s, e)) = Together(s) \o e
<1>1. Together(<<>>) = <<>>
  <2>1. <<>> \in Seq(Seq(S)) /\ Len(<<>>) = 0
    OBVIOUS
  <2>2. PICK f : PutTogether(<<>>, S, f)
    BY <2>1, TogetherIs
  <2> QED
    BY <2>1, <2>2 DEF PutTogether
<1>2. ASSUME NEW s \in Seq(Seq(S))
      PROVE  Together(s) \in Seq(S)
  <2>1. PICK f : PutTogether(s, S, f)
    BY <1>2, TogetherIs
  <2>2. Len(s) \in 0..Len(s)
    BY <1>2
  <2> QED
    BY <2>1, <2>2 DEF PutTogether
<1>3. ASSUME NEW s \in Seq(Seq(S)), NEW e \in Seq(S)
      PROVE  Together(Append(s, e)) = Together(s) \o e
  <2> DEFINE t == Append(s, e)
             m == Len(s)
  <2>1. /\ t \in Seq(Seq(S)) /\ Len(t) = m + 1 /\ m \in Nat /\ t[m + 1] = e
        /\ \A i \in 1..m : t[i] = s[i]
    BY <1>3, AppendProperties
  <2> HIDE DEF t
  <2>2. PICK f : PutTogether(s, S, f)
    BY <1>3, TogetherIs
  <2>3. PICK g : PutTogether(t, S, g)
    BY <2>1, TogetherIs
  <2> DEFINE Good == {n \in 0..m : f[n] = g[n]}
  <2>4. 0 \in Good
    BY <2>1, <2>2, <2>3 DEF PutTogether
  <2>5. ASSUME NEW n \in 1..m, n - 1 \in Good PROVE n \in Good
    <3>1. n \in 1..Len(s) /\ n \in 1..Len(t) /\ n \in 0..m
      BY <2>1, <2>5
    <3>2. f[n - 1] = g[n - 1]
      BY <2>5
    <3>3. f[n] = f[n - 1] \o s[n] /\ g[n] = g[n - 1] \o t[n] /\ t[n] = s[n]
      BY <2>1, <2>2, <2>3, <3>1 DEF PutTogether
    <3> HIDE DEF m
    <3> QED
      BY <3>1, <3>2, <3>3
  <2>6. \A n \in 0..m : n \in Good
    <3> HIDE DEF Good, m
    <3> QED
      BY <2>1, <2>4, <2>5, GoesUp
  <2>7. f[m] = g[m]
    BY <2>1, <2>6
  <2>8. g[m + 1] = g[m] \o e
    <3>1. m + 1 \in 1..Len(t) /\ (m + 1) - 1 = m
      BY <2>1
    <3> QED
      BY <2>1, <2>3, <3>1 DEF PutTogether
  <2>9. Together(t) = g[m + 1] /\ Together(s) = f[m]
    BY <2>1, <2>2, <2>3 DEF PutTogether
  <2> QED
    BY <2>7, <2>8, <2>9 DEF t
<1> QED
  BY <1>1, <1>2, <1>3

(* Of every element a list of its own, put together in order.               *)
Spread(s, own) == Together([i \in DOMAIN s |-> own[s[i]]])

(* One more element adds what it gives.                                     *)
LEMMA SpreadGrows ==
  ASSUME NEW E, NEW S, NEW own \in [E -> Seq(S)]
  PROVE  /\ Spread(<<>>, own) = <<>>
         /\ \A s \in Seq(E) :
              /\ Spread(s, own) \in Seq(S)
              /\ \A e \in E : Spread(Append(s, e), own) = Spread(s, own) \o own[e]
<1>1. Spread(<<>>, own) = <<>>
  <2>1. [i \in DOMAIN <<>> |-> own[<<>>[i]]] = <<>>
    OBVIOUS
  <2> QED
    BY <2>1, TogetherGrows DEF Spread
<1>2. ASSUME NEW s \in Seq(E), NEW e \in E
      PROVE  /\ Spread(s, own) \in Seq(S)
             /\ Spread(Append(s, e), own) = Spread(s, own) \o own[e]
  <2> DEFINE f == [i \in DOMAIN s |-> own[s[i]]]
             t == Append(s, e)
             g == [i \in DOMAIN t |-> own[t[i]]]
             x == own[e]
  <2>1. DOMAIN s = 1..Len(s) /\ Len(s) \in Nat /\ DOMAIN t = 1 .. Len(s) + 1 /\ x \in Seq(S)
        /\ t[Len(s) + 1] = e /\ \A i \in 1..Len(s) : t[i] = s[i] /\ s[i] \in E
    BY <1>2
  <2>2. f \in Seq(Seq(S)) /\ Len(f) = Len(s)
    BY <2>1
  <2>3. g = Append(f, x)
    <3>1. \A i \in 1 .. Len(s) + 1 : g[i] = IF i = Len(s) + 1 THEN x ELSE f[i]
      BY <2>1
    <3> HIDE DEF f, x
    <3>2. /\ Append(f, x) \in Seq(Seq(S)) /\ Len(Append(f, x)) = Len(s) + 1
          /\ Append(f, x)[Len(s) + 1] = x
          /\ \A i \in 1..Len(s) : Append(f, x)[i] = f[i]
      BY <2>1, <2>2
    <3>3. g \in Seq(Seq(S)) /\ Len(g) = Len(s) + 1
      <4>1. \A i \in 1 .. Len(s) + 1 : g[i] \in Seq(S)
        <5>1. \A i \in 1..Len(s) : f[i] \in Seq(S)
          BY <2>2
        <5> HIDE DEF g, t
        <5> QED
          BY <2>1, <3>1, <5>1
      <4> HIDE DEF t
      <4> QED
        BY <2>1, <4>1
    <3>4. \A i \in 1 .. Len(s) + 1 : g[i] = Append(f, x)[i]
      <4> HIDE DEF g, t
      <4> QED
        BY <2>1, <3>1, <3>2
    <3> HIDE DEF g, t
    <3> QED
      BY <3>2, <3>3, <3>4, SeqEqual
  <2>4. Spread(s, own) = Together(f) /\ Spread(t, own) = Together(g)
    BY DEF Spread
  <2> HIDE DEF f, g, t, x
  <2>5. Together(f) \in Seq(S) /\ Together(Append(f, x)) = Together(f) \o x
    BY <2>1, <2>2, TogetherGrows
  <2> QED
    BY <2>3, <2>4, <2>5 DEF t, x
<1> QED
  <2>1. \A s \in Seq(E) : s = <<>> \/ \E e \in E : TRUE
    OBVIOUS
  <2>2. <<>> \in Seq(S)
    OBVIOUS
  <2> QED
    BY <1>1, <1>2, <2>1, <2>2

(* The provers lose this fact where a function is in their context.         *)
Associates(S) == \A a, b, c \in Seq(S) : (a \o b) \o c = a \o (b \o c)
LEMMA InARow == ASSUME NEW S PROVE Associates(S)
<1>1. ASSUME NEW a \in Seq(S), NEW b \in Seq(S), NEW c \in Seq(S) PROVE (a \o b) \o c = a \o (b \o c)
  OBVIOUS
<1> QED
  BY <1>1 DEF Associates

(* What is spread of two sequences put together, of one element, and of     *)
(* elements that have nothing.                                              *)
LEMMA SpreadOver ==
  ASSUME NEW E, NEW S, NEW own \in [E -> Seq(S)], NEW s \in Seq(E), NEW t \in Seq(E)
  PROVE  Spread(s \o t, own) = Spread(s, own) \o Spread(t, own)
<1>0. Associates(E) /\ Associates(S)
  BY InARow
<1> DEFINE Good == {x \in Seq(E) : Spread(s \o x, own) = Spread(s, own) \o Spread(x, own)}
<1>1. /\ Spread(<<>>, own) = <<>>
      /\ \A x \in Seq(E) :
           /\ Spread(x, own) \in Seq(S)
           /\ \A e \in E : Spread(Append(x, e), own) = Spread(x, own) \o own[e]
  BY SpreadGrows
<1>2. <<>> \in Good
  <2>1. s \o <<>> = s
    BY ConcatEmptySeq
  <2>2. Spread(s, own) \o <<>> = Spread(s, own)
    BY <1>1, ConcatEmptySeq
  <2> QED
    BY <1>1, <2>1, <2>2
<1>3. ASSUME NEW x \in Seq(E), NEW e \in E, x \in Good PROVE Append(x, e) \in Good
  <2> DEFINE a == Spread(s, own)
             b == Spread(x, own)
             c == own[e]
             sx == s \o x
             xe == Append(x, e)
  <2>1. sx \in Seq(E) /\ xe \in Seq(E) /\ a \in Seq(S) /\ b \in Seq(S) /\ c \in Seq(S)
    BY <1>1
  <2>2. s \o xe = Append(sx, e)
    <3>1. xe = x \o <<e>> /\ Append(sx, e) = sx \o <<e>> /\ <<e>> \in Seq(E)
      BY <2>1, AppendIsConcat
    <3>2. (s \o x) \o <<e>> = s \o (x \o <<e>>)
      <4>1. s \in Seq(E) /\ x \in Seq(E)
        OBVIOUS
      <4> QED
        BY <1>0, <3>1, <4>1 DEF Associates
    <3> QED
      BY <3>1, <3>2
  <2>3. Spread(sx, own) = a \o b
    BY <1>3
  <2> HIDE DEF sx
  <2>4. Spread(Append(sx, e), own) = Spread(sx, own) \o c
    BY <1>1, <2>1
  <2>5. Spread(xe, own) = b \o c
    BY <1>1
  <2> HIDE DEF a, b, c, xe
  <2>6. (a \o b) \o c = a \o (b \o c)
    BY <1>0, <2>1 DEF Associates
  <2>7. Spread(s \o xe, own) = a \o Spread(xe, own)
    BY <2>2, <2>3, <2>4, <2>5, <2>6
  <2> QED
    BY <2>1, <2>7 DEF a, xe
<1>4. Seq(E) \subseteq Good
  <2> HIDE DEF Good
  <2> QED
    BY <1>2, <1>3, SequencesGrow
<1> QED
  BY <1>4

(* One element gives what it has.                                           *)
LEMMA SpreadOne ==
  ASSUME NEW E, NEW S, NEW own \in [E -> Seq(S)], NEW e \in E
  PROVE  Spread(<<e>>, own) = own[e]
<1>1. Spread(Append(<<>>, e), own) = <<>> \o own[e]
  <2>1. <<>> \in Seq(E) /\ Spread(<<>>, own) = <<>>
    BY SpreadGrows
  <2>2. \A s \in Seq(E) : Spread(Append(s, e), own) = Spread(s, own) \o own[e]
    BY SMTT(30), SpreadGrows
  <2>3. Spread(Append(<<>>, e), own) = Spread(<<>>, own) \o own[e]
    BY <2>1, <2>2
  <2> QED
    BY <2>1, <2>3
<1>2. Append(<<>>, e) = <<e>>
  OBVIOUS
<1>3. <<>> \o own[e] = own[e]
  BY ConcatEmptySeq
<1> QED
  BY <1>1, <1>2, <1>3

(* Elements that have nothing give nothing.                                 *)
LEMMA SpreadNothing ==
  ASSUME NEW E, NEW S, NEW own \in [E -> Seq(S)], NEW t \in Seq(E),
         \A i \in 1..Len(t) : own[t[i]] = <<>>
  PROVE  Spread(t, own) = <<>>
<1> DEFINE D == {e \in E : own[e] = <<>>}
           Good == {x \in Seq(D) : x \in Seq(E) /\ Spread(x, own) = <<>>}
<1>1. /\ Spread(<<>>, own) = <<>> /\ <<>> \in Seq(E)
      /\ \A x \in Seq(E), e \in E : Spread(Append(x, e), own) = Spread(x, own) \o own[e]
  BY SpreadGrows
<1>2. <<>> \in Good
  BY <1>1
<1>3. ASSUME NEW x \in Seq(D), NEW e \in D, x \in Good PROVE Append(x, e) \in Good
  <2>1. Spread(Append(x, e), own) = <<>> \o <<>>
    BY <1>1, <1>3
  <2>2. Append(x, e) \in Seq(D) /\ Append(x, e) \in Seq(E)
    BY <1>3, AppendProperties
  <2>3. <<>> \o <<>> = <<>>
    BY EmptySeq, ConcatEmptySeq
  <2> QED
    BY <2>1, <2>2, <2>3
<1>4. Seq(D) \subseteq Good
  <2> HIDE DEF Good, D
  <2> QED
    BY <1>2, <1>3, SequencesGrow
<1>5. t \in Seq(D)
  <2>1. \A i \in 1..Len(t) : t[i] \in D
    BY SMTT(30)
  <2> HIDE DEF D
  <2> QED
    BY <2>1
<1> QED
  BY <1>4, <1>5

(* A sequence is its beginning, a part and the end.                         *)
InThree(E, s, i, j, a, b, c) ==
  /\ s = (a \o b) \o c
  /\ a \in Seq(E) /\ b \in Seq(E) /\ c \in Seq(E)
  /\ Len(a) = i - 1 /\ Len(b) = (j - i) + 1 /\ Len(c) = Len(s) - j
  /\ \A k \in 1 .. i - 1 : a[k] = s[k]
  /\ \A k \in 1 .. (j - i) + 1 : b[k] = s[(i - 1) + k]
  /\ \A k \in 1 .. Len(s) - j : c[k] = s[j + k]
(* Every sequence is, from any place to any later one.                      *)
LEMMA ThreeParts ==
  ASSUME NEW E, NEW s \in Seq(E), NEW i \in 1..Len(s), NEW j \in i..Len(s)
  PROVE  InThree(E, s, i, j, SubSeq(s, 1, i - 1), SubSeq(s, i, j), SubSeq(s, j + 1, Len(s)))
<1>1. Len(s) \in Nat /\ i - 1 \in 0..Len(s) /\ (i - 1) + 1 = i /\ j \in i - 1..Len(s) /\ i \in 1 .. Len(s) + 1
      /\ j \in Nat /\ j + 1 \in 1 .. Len(s) + 1 /\ Len(s) \in j..Len(s)
  OBVIOUS
<1>2. SubSeq(s, 1, i - 1) \o SubSeq(s, i, j) = SubSeq(s, 1, j)
  <2>1. 1 \in 1 .. Len(s) + 1 /\ i - 1 \in 1 - 1..Len(s) /\ j \in i - 1..Len(s)
    BY <1>1
  <2>2. SubSeq(s, 1, i - 1) \o SubSeq(s, (i - 1) + 1, j) = SubSeq(s, 1, j)
    BY <2>1, ConcatAdjacentSubSeq
  <2> QED
    BY <1>1, <2>2
<1>3. SubSeq(s, 1, j) \o SubSeq(s, j + 1, Len(s)) = SubSeq(s, 1, Len(s))
  <2>1. 1 \in 1 .. Len(s) + 1 /\ j \in 1 - 1..Len(s) /\ Len(s) \in j..Len(s)
    BY <1>1
  <2> QED
    BY <2>1, ConcatAdjacentSubSeq
<1>4. SubSeq(s, 1, Len(s)) = s
  BY SubSeqFull
<1>5. /\ SubSeq(s, 1, i - 1) \in Seq(E) /\ Len(SubSeq(s, 1, i - 1)) = i - 1
      /\ \A k \in 1 .. i - 1 : SubSeq(s, 1, i - 1)[k] = s[k]
  BY <1>1
<1>6. /\ SubSeq(s, i, j) \in Seq(E) /\ Len(SubSeq(s, i, j)) = (j - i) + 1
      /\ \A k \in 1 .. (j - i) + 1 : SubSeq(s, i, j)[k] = s[(i - 1) + k]
  BY <1>1
<1>7. /\ SubSeq(s, j + 1, Len(s)) \in Seq(E) /\ Len(SubSeq(s, j + 1, Len(s))) = Len(s) - j
      /\ \A k \in 1 .. Len(s) - j : SubSeq(s, j + 1, Len(s))[k] = s[j + k]
  BY <1>1
<1> QED
  BY <1>2, <1>3, <1>4, <1>5, <1>6, <1>7 DEF InThree

(* The part from a place to itself.                                         *)
LEMMA OneElement ==
  ASSUME NEW E, NEW s \in Seq(E), NEW i \in 1..Len(s)
  PROVE  SubSeq(s, i, i) = <<s[i]>>
<1> DEFINE p == SubSeq(s, i, i)
           q == <<s[i]>>
<1>1. Len(s) \in Nat /\ s[i] \in E /\ i \in Nat /\ (i - i) + 1 = 1 /\ (i - 1) + 1 = i /\ i \in i..Len(s)
  OBVIOUS
<1>2. InThree(E, s, i, i, SubSeq(s, 1, i - 1), p, SubSeq(s, i + 1, Len(s)))
  BY <1>1, ThreeParts
<1>3. p \in Seq(E) /\ Len(p) = (i - i) + 1 /\ \A k \in 1 .. (i - i) + 1 : p[k] = s[(i - 1) + k]
  BY <1>2 DEF InThree
<1>4. q \in Seq(E) /\ Len(q) = 1 /\ q[1] = s[i]
  BY <1>1
<1> HIDE DEF p, q
<1>5. Len(p) = 1 /\ p[1] = s[i]
  BY <1>1, <1>3
<1>6. \A k \in 1..Len(p) : p[k] = q[k]
  BY <1>4, <1>5
<1>7. p = q
  BY <1>3, <1>4, <1>5, <1>6, SeqEqual
<1> QED
  BY <1>7 DEF p, q

(* Of elements that keep themselves everything is left.                     *)
LEMMA SpreadSelf ==
  ASSUME NEW E, NEW S, NEW own \in [E -> Seq(S)], NEW t \in Seq(E),
         \A i \in 1..Len(t) : own[t[i]] = <<t[i]>>
  PROVE  Spread(t, own) = t
<1> DEFINE D == {e \in E : own[e] = <<e>>}
           Good == {x \in Seq(D) : x \in Seq(E) /\ Spread(x, own) = x}
<1>1. /\ Spread(<<>>, own) = <<>> /\ <<>> \in Seq(E)
      /\ \A x \in Seq(E), e \in E : Spread(Append(x, e), own) = Spread(x, own) \o own[e]
  BY SpreadGrows
<1>2. <<>> \in Good
  BY <1>1
<1>3. ASSUME NEW x \in Seq(D), NEW e \in D, x \in Good PROVE Append(x, e) \in Good
  <2>1. Spread(Append(x, e), own) = x \o <<e>>
    BY <1>1, <1>3
  <2>2. Append(x, e) \in Seq(D) /\ Append(x, e) \in Seq(E) /\ Append(x, e) = x \o <<e>>
    BY <1>3, AppendProperties, AppendIsConcat
  <2> QED
    BY <2>1, <2>2
<1>4. Seq(D) \subseteq Good
  <2> HIDE DEF Good, D
  <2> QED
    BY <1>2, <1>3, SequencesGrow
<1>5. t \in Seq(D)
  <2>1. \A i \in 1..Len(t) : t[i] \in D
    OBVIOUS
  <2> HIDE DEF D
  <2> QED
    BY <2>1
<1> QED
  BY <1>4, <1>5
=============================================================================
