----------------------------- MODULE ReviewContext -----------------------------
(***************************************************************************)
(* What a review is given to read (src/review/context.ts, impact.ts,       *)
(* context-source.ts, context-render.ts): the changed files of the         *)
(* captured commit, and the modules that import them, found through an     *)
(* index of import bindings that all reviews of a repository cache on      *)
(* disk.  Whatever is missing is to be said as a degradation, for          *)
(* coverage.ts counts the input as verified when none of them blocks.      *)
(* All files are TypeScript modules.                                       *)
(***************************************************************************)
EXTENDS Naturals, FiniteSets, Sequences

CONSTANTS
  Commits,   \* the commits of the repository
  Paths,     \* paths of modules: numbers, in the order git lists them
  Tree,      \* commit -> path -> blob, or "none"
  Changed,   \* commit -> the paths its diff names, after renames
  Deleted,   \* commit -> those of them that it deletes
  Renamed,   \* commit -> pairs <<old path, new path>>
  Excluded,  \* the paths that the include and exclude rules drop
  Named,     \* the paths whose base name has three characters
  Stem,      \* path -> its base name without the extension
  FirstSymbols,  \* commit -> path -> those of its first four symbols that have three
  Versions,  \* releases of TypeScript that can be installed
  Parsed,    \* release -> blob -> what a parse finds: the names exported, and the
             \* imports, each a path and the names that its clause matches
  MaxTerms   \* MAX_REFERENCE_TERMS

VARIABLES head,    \* the commit that is checked out
          moved,   \* how often it changed (bounded by 1)
          cache,   \* impact/blobs: the record in the file of every blob
          rv       \* what the review has in hand

contextVars == <<head, moved, cache, rv>>

Blobs == (UNION {{Tree[c][p] : p \in Paths} : c \in Commits}) \ {"none"}
Listed(c) == {p \in Paths : Tree[c][p] # "none"}
First(S) == {p \in S : \A q \in S : p <= q}
Reviewable(c) == Changed[c] \ Excluded
NoRecord == [parser |-> "none", oid |-> "none", module |-> "none"]

(* BOUNDED_CONTEXT_EXCERPTS supplement the complete diff.                   *)
Excerpts == {"changed-file-truncated", "ast-symbol-truncated", "related-file-truncated",
             "render-ast-symbol-omitted", "render-ast-symbol-truncated", "render-file-truncated"}
Blocking(codes) == codes \ Excerpts

ContextInit ==
  /\ head \in Commits /\ moved = 0
  /\ cache = [b \in Blobs |-> NoRecord]
  /\ rv \in [pc : {"start"}, staged : BOOLEAN, deep : BOOLEAN,
        version : Versions \cup {"none"}, commit : {head}, cut : {FALSE}, steady : {FALSE},
        codes : {{}}, shown : {{}}, todo : {{}}, uncached : {{}}, bindings : {{}}, refs : {{}}]

Says(codes) == rv.codes \cup codes

-----------------------------------------------------------------------------
(* The snapshot and the changed files                                       *)

(* loadReviewSnapshot and readReviewCheckout: HEAD or a ref is resolved     *)
(* once, and what git can print of the diff is bounded.                     *)
LoadReviewSnapshot ==
  /\ rv.pc = "start"
  /\ \E c \in Commits, cut \in BOOLEAN, clean \in BOOLEAN :
       rv' = [rv EXCEPT !.pc = "changed", !.commit = c, !.cut = cut, !.steady = clean /\ head = c,
                        !.codes = IF cut THEN {"diff-output-truncated"} ELSE {}]
  /\ UNCHANGED <<head, moved, cache>>

(* buildChangedFileContext for every file at once: git may be unable to     *)
(* print a file, it may be too large or binary.                             *)
BuildChangedFiles ==
  LET v == rv
      present == Reviewable(v.commit) \ Deleted[v.commit]
      index == v.deep /\ v.version # "none"
  IN /\ v.pc = "changed"
     /\ \E lost \in SUBSET present, bounded \in {{}, Excerpts} :
          rv' = [v EXCEPT !.pc = IF index THEN "listing" ELSE "rendering",
                          !.shown = present \ lost,
                          !.codes = Says(bounded
                     \cup (IF lost # {} THEN {"changed-file-unavailable"} ELSE {})
                     \cup (IF v.version = "none" /\ present \ lost # {} THEN {"typescript-ast-unavailable"} ELSE {})
                     \cup (IF v.deep /\ v.version = "none" THEN {"impact-index-unavailable"} ELSE {}))]
     /\ UNCHANGED <<head, moved, cache>>

-----------------------------------------------------------------------------
(* The import index (openImpactGraph)                                       *)

ListModules ==
  /\ rv.pc = "listing"
  /\ rv' = [rv EXCEPT !.pc = "checking", !.todo = Listed(rv.commit)]
  /\ UNCHANGED <<head, moved, cache>>

Usable_AnyParser(record, b, version) == record.oid = b
(* readBlobFile *)
Usable(record, b, version) == record.oid = b /\ record.parser = version

(* One blob's record is read; a blob of an earlier path has been already.   *)
ReadBlobFile ==
  LET v == rv IN
  /\ v.pc = "checking"
  /\ \E p \in First(v.todo) :
       LET b == Tree[v.commit][p]
           rest == [v EXCEPT !.todo = {q \in @ : Tree[v.commit][q] # b}]
       IN rv' = IF Usable(cache[b], b, v.version)
                  THEN [rest EXCEPT !.bindings = @ \cup {<<b, cache[b].module>>}]
                  ELSE [rest EXCEPT !.uncached = @ \cup {p}]
  /\ UNCHANGED <<head, moved, cache>>

(* processRead of one answer of git cat-file --batch: the module may be     *)
(* missing or too large; a parsed one is written by a temporary file and a  *)
(* rename, so that a killed review leaves the old record.                   *)
ProcessRead ==
  LET v == rv IN
  /\ v.pc = "checking" /\ v.todo = {}
  /\ \E p \in First(v.uncached) :
       LET b == Tree[v.commit][p]
           parsed == Parsed[v.version][b]
       IN \/ /\ rv' = [v EXCEPT !.uncached = @ \ {p}, !.codes = Says({"impact-index-module-skipped"})]
             /\ UNCHANGED cache
          \/ /\ rv' = [v EXCEPT !.uncached = @ \ {p}, !.bindings = @ \cup {<<b, parsed>>}]
             /\ cache' = [cache EXCEPT ![b] = [parser |-> v.version, oid |-> b, module |-> parsed]]
  /\ UNCHANGED <<head, moved>>

(* git fails, a file cannot be written, or ten seconds have passed.         *)
IndexFails ==
  /\ rv.pc \in {"listing", "checking"}
  /\ \E code \in {"impact-index-failed", "impact-index-timeout"} :
       rv' = [rv EXCEPT !.pc = "rendering", !.todo = {}, !.uncached = {}, !.bindings = {},
                        !.codes = Says({code})]
  /\ UNCHANGED <<head, moved, cache>>

-----------------------------------------------------------------------------
(* The references                                                           *)

(* resolveSpecifier over what exists, existed or was renamed, then the      *)
(* alias of a renamed file.                                                 *)
Target(c, p) == IF \E n \in Paths : <<p, n>> \in Renamed[c]
                THEN CHOOSE n \in Paths : <<p, n>> \in Renamed[c] ELSE p
Resolvable(c) == Listed(c) \cup {pair[1] : pair \in Renamed[c]} \cup Deleted[c]

(* invertImports: the imports of a file by a module, as far as the bindings *)
(* are known.                                                               *)
ImportsOf(bindings, c, file, importer) ==
  UNION {{i \in known[2].imports : i.path \in Resolvable(c) /\ Target(c, i.path) = file} :
           known \in {k \in bindings : k[1] = Tree[c][importer]}}

(* referenceQueries: every changed file offers its name and then its first  *)
(* symbols, if it exports them, as terms to look for.                       *)
Terms(c) ==
  {[path |-> p, nr |-> 0, term |-> Stem[p]] : p \in Reviewable(c) \cap Named}
  \cup UNION {{[path |-> p, nr |-> n, term |-> FirstSymbols[c][p][n]] : n \in 1..Len(FirstSymbols[c][p])} :
                p \in Reviewable(c)}
Exported(bindings, c, o) ==
  \E known \in bindings : known[1] = Tree[c][o.path] /\ o.term \in known[2].exports
Offers(bindings, shown, c) ==
  {o \in Terms(c) : o.nr = 0 \/ (o.path \in shown /\ Exported(bindings, c, o))}
Earlier(offers, o) == {q \in offers : q.path < o.path \/ (q.path = o.path /\ q.nr < o.nr)}
(* addQuery: the first MaxTerms terms only, however many files offer one.   *)
Queries(offers) ==
  {o \in offers : \E q \in offers :
     q.term = o.term /\ Cardinality({r.term : r \in Earlier(offers, q)}) < MaxTerms}

(* referencesFromGraph: a symbol is found where the clause of the import    *)
(* matches it; what the review reads anyway is no reference.                *)
Hits(bindings, c, o) ==
  {i \in Listed(c) \ Changed[c] :
     \E j \in ImportsOf(bindings, c, o.path, i) : o.nr = 0 \/ o.term \in j.names}
ReferencesIn(bindings, shown, c) ==
  UNION {{o.path} \X Hits(bindings, c, o) : o \in Queries(Offers(bindings, shown, c))}

ReferencesFromGraph ==
  /\ rv.pc = "checking" /\ rv.todo = {} /\ rv.uncached = {}
  /\ rv' = [rv EXCEPT !.pc = "rendering", !.bindings = {},
                      !.refs = ReferencesIn(rv.bindings, rv.shown, rv.commit)]
  /\ UNCHANGED <<head, moved, cache>>

(* renderReviewContextDocument, which cuts the diff of a shallow review,    *)
(* and the second look at the checkout.                                     *)
Render ==
  /\ rv.pc = "rendering"
  /\ \E cut \in IF rv.deep THEN {FALSE} ELSE BOOLEAN :
       rv' = [rv EXCEPT !.pc = "done", !.cut = @ \/ cut, !.steady = @ /\ head = rv.commit,
                        !.codes = Says(IF cut THEN {"render-diff-truncated"} ELSE {})]
  /\ UNCHANGED <<head, moved, cache>>

(* The developer commits or checks out another commit.                      *)
MoveHead ==
  /\ moved = 0 /\ moved' = 1
  /\ head' \in Commits \ {head}
  /\ UNCHANGED <<cache, rv>>

(* Another review, perhaps with another TypeScript, writes a record.        *)
OtherReview(b, v) ==
  /\ rv.pc # "done"
  /\ cache' = [cache EXCEPT ![b] = [parser |-> v, oid |-> b, module |-> Parsed[v][b]]]
  /\ UNCHANGED <<head, moved, rv>>

ContextNext ==
  \/ LoadReviewSnapshot \/ BuildChangedFiles \/ ListModules \/ ReadBlobFile
  \/ ProcessRead \/ IndexFails \/ ReferencesFromGraph \/ Render
  \/ MoveHead \/ \E b \in Blobs, v \in Versions : OtherReview(b, v)

-----------------------------------------------------------------------------
(* runReviewPipeline's inputVerified                                        *)
InputVerified ==
  /\ rv.pc = "done" /\ rv.steady /\ ~rv.staged
  /\ Blocking(rv.codes) = {}

(* What the modules of a commit are, as a release of TypeScript parses them.*)
True(c, version) == {<<Tree[c][p], Parsed[version][Tree[c][p]]>> : p \in Listed(c)}
(* The names and symbols of the changed files leave room for a term if fewer*)
(* than MaxTerms come before it.                                            *)
Room(c, o) == Cardinality({q.term : q \in Earlier(Terms(c), o)}) < MaxTerms

(* Input that counts as verified is whole: the diff was not cut, every      *)
(* changed file that still exists was read, and a review with references    *)
(* names only modules of the reviewed commit that import a changed file, as *)
(* its own TypeScript parses them, whatever other reviews left in the cache.*)
(* For each file whose name has room it names every one of them, and for an *)
(* exported symbol that has room every one that imports it.  What the limit *)
(* drops is not told.                                                       *)
VerifiedIsComplete ==
  InputVerified =>
    /\ ~rv.cut
    /\ rv.shown = Reviewable(rv.commit) \ Deleted[rv.commit]
    /\ rv.deep =>
         LET known == True(rv.commit, rv.version) IN
         /\ \A ref \in rv.refs :
              /\ ref[1] \in Reviewable(rv.commit) /\ ref[2] \in Listed(rv.commit) \ Changed[rv.commit]
              /\ ImportsOf(known, rv.commit, ref[1], ref[2]) # {}
         /\ \A o \in Offers(known, rv.shown, rv.commit) :
              Room(rv.commit, o) => {o.path} \X Hits(known, rv.commit, o) \subseteq rv.refs

ContextSpec == ContextInit /\ [][ContextNext]_contextVars

-----------------------------------------------------------------------------
(* What the proofs need                                                     *)

Fields == {"pc", "staged", "deep", "version", "commit", "cut", "steady", "codes", "shown", "todo",
           "uncached", "bindings", "refs"}

(* A record of the cache is what its parser makes of the blob.              *)
CacheIsTrue ==
  \A b \in Blobs : cache[b].oid = b => cache[b].module = Parsed[cache[b].parser][b]

(* A module of the commit waits to be looked up or to be read, or its       *)
(* bindings are known, or it was skipped; and nothing else is known.        *)
Accounted ==
  /\ rv.todo \subseteq Listed(rv.commit) /\ rv.uncached \subseteq Listed(rv.commit)
  /\ rv.pc # "checking" => rv.todo = {} /\ rv.uncached = {} /\ rv.bindings = {}
  /\ rv.pc = "checking" => rv.bindings \subseteq True(rv.commit, rv.version)
  /\ rv.pc = "checking" =>
       \A p \in Listed(rv.commit) :
         \/ p \in rv.todo
         \/ \E q \in rv.uncached : Tree[rv.commit][q] = Tree[rv.commit][p]
         \/ <<Tree[rv.commit][p], Parsed[rv.version][Tree[rv.commit][p]]>> \in rv.bindings
         \/ "impact-index-module-skipped" \in rv.codes

(* What is missing is said.                                                 *)
MissingIsSaid ==
  /\ rv.cut => rv.codes \cap {"diff-output-truncated", "render-diff-truncated"} # {}
  /\ rv.pc \notin {"start", "changed"} =>
       rv.shown = Reviewable(rv.commit) \ Deleted[rv.commit] \/ "changed-file-unavailable" \in rv.codes
  /\ rv.pc \in {"rendering", "done"} /\ rv.deep =>
       \/ rv.codes \cap {"impact-index-module-skipped", "impact-index-failed",
                         "impact-index-timeout", "impact-index-unavailable"} # {}
       \/ rv.refs = ReferencesIn(True(rv.commit, rv.version), rv.shown, rv.commit)

ContextFits ==
  /\ DOMAIN rv = Fields /\ rv.commit \in Commits
  /\ rv.pc \in {"start", "changed", "listing", "checking", "rendering", "done"}
  /\ cache = [b \in Blobs |-> cache[b]]
  /\ CacheIsTrue /\ Accounted /\ MissingIsSaid
===============================================================================
