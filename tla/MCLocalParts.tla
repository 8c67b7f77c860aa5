----------------------------- MODULE MCLocalParts -----------------------------
EXTENDS LocalParts, TLC

(* Two processes of three builds: the released one, an older one, and one   *)
(* that numbered its own migrations, replaced an early one or added none.   *)
MCBuilds == {"main", "older", "fork", "early", "nameless"}
MCForked == [b \in MCBuilds |-> IF b = "fork" THEN {3} ELSE IF b = "early" THEN {1}
                                ELSE IF b = "nameless" THEN {2} ELSE {}]
MCCurrent == [b \in MCBuilds |-> IF b = "older" THEN 2 ELSE 3]

MCBackends == {"opencode", "codex"}
MCFits == [b \in MCBackends |-> IF b = "opencode" THEN {"p/one", "p/two"} ELSE {"bare"}]

(* Directories of a repository with a nested one and a linked worktree,     *)
(* and what their .git can be.                                              *)
MCDirs == {<<>>, <<"a">>, <<"a", "b">>, <<"w">>, <<"w", "b">>}
MCEntry(kind, of) == [kind |-> kind, of |-> of]
MCEntries ==
  {MCEntry("none", <<>>), MCEntry("dir", <<>>), MCEntry("file", <<"entry", <<"a">>>>),
   MCEntry("file", <<"entry", <<"w">>>>), MCEntry("file", <<"store", <<"a">>>>),
   MCEntry("link", <<"store", <<"w">>>>), MCEntry("link", <<"store", <<"w", "b">>>>)}
MCLayouts ==
  {l \in [MCDirs -> MCEntries] :
     /\ l[<<>>].kind \in {"none", "dir"}
     /\ \A d \in MCDirs : l[d].kind = "file" /\ l[d].of[1] = "entry"
                            => l[l[d].of[2]].kind = "dir"}
MCLayout == [d \in MCDirs |-> IF d = <<"a">> THEN MCEntry("dir", <<>>)
                              ELSE IF d = <<"w">> THEN MCEntry("file", <<"entry", <<"a">>>>)
                              ELSE MCEntry("none", <<>>)]
MCProjectRoot == <<"w">>

(* One file under names that name it, or an outdated form of it, and two    *)
(* symbols.                                                                 *)
MCFiles == {[base |-> "a", takes |-> t] : t \in {"nothing", "ascii"}}
MCSymbols == {[known |-> TRUE, base |-> "s", takes |-> "more"],
              [known |-> TRUE, base |-> "s", takes |-> "nothing"],
              [known |-> FALSE, base |-> "s", takes |-> "nothing"],
              [known |-> TRUE, base |-> "z", takes |-> "ascii"]}
MCWordSets == {{1, 2, 3}, {1, 2}, {1, 4}}

(* One path has a space, and its last word is a path too.                   *)
MCNames == {"a", "my b", "c"}
MCWords == [n \in MCNames |-> IF n = "my b" THEN <<"my", "b">> ELSE <<n>>]

(* An answer starts with anything, or with a marker line.                   *)
MCStarts == {<<>>, <<"marker", "newline">>}

(* A schema with a cycle of references, and a value that it allows or not.  *)
MCSamples ==
  {[parent |-> <<0, 1, 1, 1>>, property |-> {2}, ref |-> <<0, 4, 0, 0>>, allows |-> n] : n \in {3, 4}}

MCFinding(w, a, s, d) == [words |-> w, anchor |-> a, sure |-> s, inDiff |-> d]
MCRaised == {MCFinding(w, a, TRUE, TRUE) : w \in {"p", "q", "r"}, a \in {"a", "none"}}
            \cup {MCFinding("q", "b", FALSE, TRUE), MCFinding("r", "b", TRUE, FALSE),
                  MCFinding("p", "b", TRUE, TRUE)}

(* Two branches from one commit.                                            *)
MCAncestors == [c0 |-> {"c0"}, c1 |-> {"c0", "c1"}, c2 |-> {"c0", "c2"}]

(* A library and an application that imports it, before and after the       *)
(* library is renamed to a short name; and a copy of the library, for which *)
(* no term is left.  A parser of before knows other exports and imports.    *)
MCTree == [changed |-> <<"none", "lib", "app", "lib", "none">>,
           renamed |-> <<"none", "none", "app", "none", "lib">>]
MCChanged == [changed |-> {1, 2, 4}, renamed |-> {5}]
MCDeleted == [changed |-> {1}, renamed |-> {}]
MCRenamed == [changed |-> {}, renamed |-> {<<2, 5>>}]
MCStem == <<"one", "two", "app", "four", "io">>
MCFirstSymbols == [c \in {"changed", "renamed"} |-> [p \in 1..5 |-> IF p = 1 THEN <<>> ELSE <<"g", "f">>]]
MCImport(p, names) == [path |-> p, names |-> names]
MCParsed ==
  [old |-> [lib |-> [exports |-> {"g"}, imports |-> {}],
            app |-> [exports |-> {}, imports |-> {MCImport(2, {"g"})}]],
   new |-> [lib |-> [exports |-> {"f"}, imports |-> {}],
            app |-> [exports |-> {}, imports |-> {MCImport(1, {}), MCImport(2, {"f"}), MCImport(4, {"f"})}]]]

MCCases == <<[clean |-> FALSE, steps |-> 1], [clean |-> TRUE, steps |-> 1]>>

(* One opener at least is the released build, and while somebody reads both *)
(* are, with one migration to make; one checkout with something staged; one *)
(* new observation, with the rows it may match in one order; the distant    *)
(* line where only the identity of findings is asked for.                   *)
DatabaseStart ==
  LET build == s4 reader == s7 rows == s1[1].rows IN
  /\ \E p \in Two : build[p] = "main"
  /\ reader = "none" \/ (Len(rows) >= 2 /\ \A p \in Two : build[p] = "main")
SummaryStart == LET head == s3 index == s4 IN head = "c1" /\ index = "d"
MatchStart ==
  LET candidate == s1 rows == s2 IN
  /\ candidate.file.takes = "ascii" /\ candidate.line = 1 /\ candidate.words = {1, 2, 3}
  /\ rows[1].updated = 1 /\ rows[1].event = "dismissed" /\ rows[2].event = "deferred"
  /\ rows[1].seen.file.takes = "nothing"
ScoringStart ==
  LET question == s1 expected == s2 reported == s3 near(list) == \A i \in DOMAIN list : list[i].line < 9 IN
  question = "score" => near(expected) /\ near(reported)
EvaluationStart == LET options == s1 IN options.mode = "both" => options.trials = 1
MCInit ==
  /\ PartsInit
  /\ part = "database" => DatabaseStart
  /\ part = "summary" => SummaryStart
  /\ part = "duplicates" => MatchStart
  /\ part = "scoring" => ScoringStart
  /\ part = "evaluation" => EvaluationStart

(* Beside a comparison the gate demands recall only, what the properties ask*)
(* of it: the exit code joins two verdicts that do not look at each other.  *)
GateOrCompare ==
  LET options == s1 IN
  part = "evaluation" /\ {"gate", "compare"} \subseteq options.report
    => options.report \cap Eval!Thresholds = {"recall"}

MCSpec == MCInit /\ [][PartsNext]_partsVars
DiffSpec == PartsInit /\ part = "diff" /\ [][PartsNext]_partsVars

PartsSymmetry == Permutations(Two)
=============================================================================
