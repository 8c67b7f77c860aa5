----------------------------- MODULE DuplicateMatch -----------------------------
(***************************************************************************)
(* Which disposed finding a new one is said to repeat                      *)
(* (suggestPossibleDuplicates of src/state/possible-duplicates.ts): a      *)
(* query narrows the disposed findings down to at most Limit rows, the     *)
(* latest changed first, and only those are scored; the best is recorded   *)
(* with the signals it was chosen by, which every listing checks again     *)
(* against the pinned observations.  FindingLifecycle models what becomes  *)
(* of such links.                                                          *)
(*                                                                         *)
(* A text is what lower-casing leaves of it and how much it takes: nothing,*)
(* the letters SQLite lowers, or more, as only JavaScript does.            *)
(***************************************************************************)
EXTENDS Naturals, FiniteSets

CONSTANTS
  Rows,        \* disposed findings, by id: numbers
  Files,       \* texts of paths, of the same file or not
  Symbols,     \* texts of symbol keys, [known |-> FALSE, ...] of another prefix
  Lines,       \* line numbers
  MaxLineDistance,
  WordSets,    \* the words of titles and bodies
  Limit        \* rows of the query

VARIABLES candidate, \* the new observation
          rows,      \* id -> the latest observation and when the finding changed
          link       \* the recorded suggestion, once made

matchVars == <<candidate, rows, link>>

(* symbol_key is null, or a text that may lack the prefix ts-v1|.           *)
NoSymbol == [known |-> FALSE, base |-> "none", takes |-> "nothing"]
Observations == [file : Files, symbol : Symbols \cup {NoSymbol}, line : Lines, words : WordSets]

MatchInit ==
  /\ link = <<>>
  /\ candidate \in Observations
  /\ rows \in [Rows -> [seen : Observations, updated : {1, 2}, event : {"dismissed", "deferred"}]]

-----------------------------------------------------------------------------
(* Text.  normalizeFingerprintText lowers everything, LOWER of SQLite ASCII.*)
Normalized(text) == text.base
Lower(text) == IF text.takes = "more" THEN text ELSE [text EXCEPT !.takes = "nothing"]
SqlEqual(stored, wanted) ==
  \/ Lower(stored) = [wanted EXCEPT !.takes = "nothing"]
  \/ stored = wanted

(* normalizeSymbol                                                          *)
Symbol(o) == IF o.symbol.known THEN Normalized(o.symbol) ELSE "none"
Distance(o, p) == IF o.line > p.line THEN o.line - p.line ELSE p.line - o.line

(* The WHERE of listPossibleDuplicateMatches.                               *)
Admitted_SymbolOnly(o) ==
  /\ SqlEqual(o.file, candidate.file)
  /\ IF Symbol(candidate) # "none" THEN SqlEqual(o.symbol, candidate.symbol)
     ELSE Distance(o, candidate) <= MaxLineDistance
Admitted(o) ==
  /\ SqlEqual(o.file, candidate.file)
  /\ \/ Symbol(candidate) # "none" /\ o.symbol # NoSymbol /\ SqlEqual(o.symbol, candidate.symbol)
     \/ /\ Symbol(candidate) = "none" \/ ~o.symbol.known
        /\ Distance(o, candidate) <= MaxLineDistance

(* ORDER BY updated_at DESC, id, LIMIT.                                     *)
Before(r, s) ==
  \/ rows[r].updated > rows[s].updated
  \/ rows[r].updated = rows[s].updated /\ r < s
AdmittedRows == {r \in Rows : Admitted(rows[r].seen)}
Queried == {r \in AdmittedRows : Cardinality({s \in AdmittedRows : Before(s, r)}) < Limit}

(* tokenDice, as a fraction.                                                *)
Shared(o, p) == 2 * Cardinality(o.words \cap p.words)
Size(o, p) == Cardinality(o.words) + Cardinality(p.words)
AtLeast(o, p, percent) == Size(o, p) # 0 /\ 100 * Shared(o, p) >= percent * Size(o, p)
MoreAlike(o, p, than) == Shared(o, than) * Size(p, than) > Shared(p, than) * Size(o, than)

(* scoreMatch: the same symbol and 0.6, or near and 0.75.                   *)
Kind(o, p) ==
  IF Normalized(o.file) # Normalized(p.file) THEN "none"
  ELSE IF Symbol(o) # "none" /\ Symbol(p) # "none"
  THEN IF Symbol(o) = Symbol(p) /\ AtLeast(o, p, 60) THEN "symbol" ELSE "none"
  ELSE IF Distance(o, p) <= MaxLineDistance /\ AtLeast(o, p, 75) THEN "line-distance" ELSE "none"

(* findBestMatch: the most alike, then the nearest, then by id.             *)
Better(r, s) ==
  LET a == rows[r].seen
      b == rows[s].seen
  IN \/ MoreAlike(a, b, candidate)
     \/ /\ ~MoreAlike(b, a, candidate)
        /\ \/ Distance(a, candidate) < Distance(b, candidate)
           \/ Distance(a, candidate) = Distance(b, candidate) /\ r < s
Best(S) == {r \in S : \A s \in S \ {r} : Better(r, s)}
Eligible(S) == {r \in S : Kind(candidate, rows[r].seen) # "none"}

Suggest ==
  /\ link = <<>>
  /\ \E r \in Best(Eligible(Queried)) :
       link' = <<[row |-> r, matched |-> rows[r].seen, source |-> rows[r].event,
                  kind |-> Kind(candidate, rows[r].seen),
                  shared |-> Shared(candidate, rows[r].seen), size |-> Size(candidate, rows[r].seen),
                  distance |-> Distance(candidate, rows[r].seen),
                  symbols |-> <<Symbol(candidate), Symbol(rows[r].seen)>>]>>
  /\ UNCHANGED <<candidate, rows>>

SuggestNothing ==
  /\ link = <<>> /\ Eligible(Queried) = {} /\ link' = <<[row |-> 0]>>
  /\ UNCHANGED <<candidate, rows>>

MatchNext == Suggest \/ SuggestNothing

-----------------------------------------------------------------------------
(* loadDetail and validatePinnedSignals.                                    *)
Loads(l) ==
  /\ l.shared = Shared(candidate, l.matched) /\ l.size = Size(candidate, l.matched)
  /\ l.distance = Distance(candidate, l.matched)
  /\ l.symbols = <<Symbol(candidate), Symbol(l.matched)>>
  /\ l.kind = "symbol" => l.symbols[1] # "none" /\ l.symbols[1] = l.symbols[2]

Plain(o) == o.file.takes # "more" /\ o.symbol.takes # "more"

AllPlain == Plain(candidate) /\ \A r \in Rows : Plain(rows[r].seen)
NotCutOff == Cardinality(AdmittedRows) <= Limit

(* As long as the query is not cut off and no text needs more than ASCII    *)
(* lower case, the suggestion is the best of all disposed findings that the *)
(* scoring accepts: the query loses none of them, and none is suggested     *)
(* only if there is none.  Whatever the texts, what is suggested passes the *)
(* scoring, and a recorded link can be listed, so that it never breaks the  *)
(* listing of all of them.                                                  *)
SuggestionIsBest ==
  link # <<>> =>
    LET accepted == Eligible(Rows)
    IN /\ AllPlain /\ NotCutOff => IF accepted = {} THEN link[1].row = 0 ELSE link[1].row \in Best(accepted)
       /\ link[1].row # 0 => link[1].row \in accepted /\ Loads(link[1])

(* What the proofs need                                                     *)
MatchFits ==
  /\ candidate \in Observations /\ \A r \in Rows : rows[r].seen \in Observations /\ rows[r].updated \in Nat
  /\ SuggestionIsBest

MatchSpec == MatchInit /\ [][MatchNext]_matchVars
===============================================================================
