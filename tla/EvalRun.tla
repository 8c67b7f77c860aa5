-------------------------------- MODULE EvalRun --------------------------------
(***************************************************************************)
(* One run of the evaluation harness (runEvalCommand of src/eval/command.ts*)
(* with runner.ts, identity-runner.ts and repo.ts): every trial of every   *)
(* case reviews a repository made for it in a temporary directory, which is*)
(* removed again; then the report is built (report.ts, metrics.ts), checked*)
(* against thresholds (gates.ts) and compared with the results of an       *)
(* earlier run (compare.ts), and the exit code tells.                      *)
(*                                                                         *)
(* A case has one finding that must be detected, or is clean.  A trial is  *)
(* judged by what EvalScoring makes of it: whether it found that finding   *)
(* and whether it reported another one.  Cases have as many trials each.   *)
(***************************************************************************)
EXTENDS Naturals, Sequences, FiniteSets

CONSTANTS
  Cases,     \* the corpus: a sequence of [clean, steps]
  MaxTrials  \* bound on --trials

VARIABLES
  options, \* --mode and --trials, and those that matter to the report
  turn,    \* the trial that is to do: of which case, in which mode, and which
  dirs,    \* the temporary directories that exist
  ev,      \* where the command is
  results, \* [case, mode] -> the numbers of the trials done
  before   \* case -> those of the earlier results, once read

evalVars == <<options, turn, dirs, ev, results, before>>

Quiet == [found |-> FALSE, noise |-> FALSE, error |-> FALSE]
Failed == [Quiet EXCEPT !.error = TRUE]
(* What a trial of a case can come to.                                      *)
Outcomes(c) ==
  {Quiet, Failed, [Quiet EXCEPT !.noise = TRUE]}
    \cup (IF Cases[c].clean THEN {} ELSE {[Quiet EXCEPT !.found = TRUE]})
NoTrials == [trials |-> 0, found |-> 0, noise |-> 0, error |-> 0]
One(b) == IF b THEN 1 ELSE 0
All == 1..Len(Cases)
Modes(mode) == IF mode = "both" THEN <<"diffowl", "baseline">> ELSE <<mode>>

EvalInit ==
  /\ options \in [mode : {"diffowl", "baseline", "both"}, trials : 1..MaxTrials, report : {{}}]
  /\ turn = [case |-> 1, mode |-> 1, trial |-> 1] /\ dirs = {} /\ before = <<>>
  /\ results = [k \in All \X {"diffowl", "baseline"} |-> NoTrials]
  /\ ev = [pc |-> "load", step |-> 1, trial |-> Quiet, exit |-> 0, wrote |-> FALSE]

Mode == Modes(options.mode)[turn.mode]
(* runEvalCases: case after case, of both modes one after the other, trial  *)
(* after trial.                                                             *)
NextTurn ==
  IF turn.trial < options.trials THEN [turn EXCEPT !.trial = @ + 1]
  ELSE IF turn.mode < Len(Modes(options.mode)) THEN [turn EXCEPT !.mode = @ + 1, !.trial = 1]
  ELSE [case |-> turn.case + 1, mode |-> 1, trial |-> 1]
Ends(code) == ev' = [ev EXCEPT !.pc = "done", !.exit = code]
Fixed == UNCHANGED <<options, before>>
Asked(option) == option \in options.report

(* Bad options, an unreadable corpus or configuration, an unknown case.     *)
Load ==
  /\ ev.pc = "load"
  /\ Ends(1) \/ ev' = [ev EXCEPT !.pc = "make"]
  /\ Fixed /\ UNCHANGED <<turn, dirs, results>>

-----------------------------------------------------------------------------
(* A trial                                                                  *)

Steps == IF Mode = "baseline" THEN 1 ELSE Cases[turn.case].steps

(* mkdtemp, then copy, git init and commit.  What fails here fails the      *)
(* trial only; the directory is removed as far as possible.                 *)
Materialize ==
  /\ ev.pc = "make"
  /\ \/ dirs' = dirs \cup {"work"} /\ ev' = [ev EXCEPT !.pc = "review", !.step = 1]
     \/ UNCHANGED dirs /\ ev' = [ev EXCEPT !.pc = "result", !.trial = Failed]
  /\ Fixed /\ UNCHANGED <<turn, results>>

(* A step of the case is applied and reviewed, by the pipeline or by the    *)
(* plain prompt; the findings of the last one count.  Any error, the time   *)
(* limit's too, ends the trial without findings.                            *)
Review ==
  /\ ev.pc = "review"
  /\ \E outcome \in Outcomes(turn.case) :
       ev' = IF ~outcome.error /\ ev.step < Steps
             THEN [ev EXCEPT !.step = @ + 1]
             ELSE [ev EXCEPT !.pc = "clean", !.trial = outcome]
  /\ Fixed /\ UNCHANGED <<turn, dirs, results>>

(* cleanupMaterializedRepo in the finally: what it throws replaces the      *)
(* result and leaves runEvalCase, and with it the command.                  *)
Cleanup ==
  /\ ev.pc = "clean"
  /\ \/ dirs' = dirs \ {"work"} /\ ev' = [ev EXCEPT !.pc = "result"]
     \/ UNCHANGED dirs /\ Ends(1)
  /\ Fixed /\ UNCHANGED <<turn, results>>

Result ==
  /\ ev.pc = "result"
  /\ results' = [results EXCEPT ![<<turn.case, Mode>>] =
                  [trials |-> @.trials + 1, found |-> @.found + One(ev.trial.found),
                   noise |-> @.noise + One(ev.trial.noise), error |-> @.error + One(ev.trial.error)]]
  /\ turn' = NextTurn
  /\ ev' = [ev EXCEPT !.pc = IF NextTurn.case > Len(Cases) THEN "report" ELSE "make", !.trial = Quiet]
  /\ Fixed /\ UNCHANGED dirs

-----------------------------------------------------------------------------
(* A failed trial has no findings: it detects nothing, its precision is 1   *)
(* and on a clean case it is empty.                                         *)
Empty(r) == r.trials - r.noise

(* detectCaseRegressions: of a case with such a finding its recall, of a    *)
(* clean case whether all trials were empty, of all the errors.             *)
Regressed_ByScore(c, ref, cur) ==
  IF Cases[c].clean
  THEN Empty(ref) = ref.trials /\ Empty(cur) < cur.trials
  ELSE cur.found * ref.trials < ref.found * cur.trials
Regressed(c, ref, cur) ==
  \/ IF Cases[c].clean
     THEN Empty(ref) = ref.trials /\ Empty(cur) < cur.trials
     ELSE cur.found * ref.trials < ref.found * cur.trials
  \/ cur.error > ref.error

Primary == IF options.mode = "baseline" THEN "baseline" ELSE "diffowl"
Now(c) == results[<<c, Primary>>]

(* evaluateEvalGates: every threshold is optional, and only one that is set *)
(* is asked for.  The values are examples: precision and recall of at least *)
(* a half, no false positive in two trials, empty on clean always.  A rate  *)
(* of no case fails the threshold.                                          *)
Thresholds == {"precision", "recall", "repeats", "clean"}
Over(f, S) ==
  LET sum[c \in 0..Len(Cases)] ==
        IF c = 0 THEN 0 ELSE sum[c - 1] + (IF c \in S THEN f[c] ELSE 0)
  IN sum[Len(Cases)]
Dirty == {c \in 1..Len(Cases) : ~Cases[c].clean}
GatePassed ==
  LET n == options.trials IN
  /\ Asked("precision") => 2 * Over([c \in All |-> Empty(Now(c))], All) >= n * Len(Cases)
  /\ Asked("recall") =>
       Dirty # {} /\ 2 * Over([c \in All |-> Now(c).found], Dirty) >= n * Cardinality(Dirty)
  /\ Asked("repeats") => \A c \in All : n - Empty(Now(c)) < 2
  /\ Asked("clean") => Dirty # All /\ \A c \in All \ Dirty : Empty(Now(c)) = n

Numbers(c, n) ==
  {r \in [trials : {n}, found : 0..n, noise : 0..n, error : 0..n] :
     r.found + r.noise + r.error <= n /\ (Cases[c].clean => r.found = 0)}
Earlier ==
  UNION {{d \in [All -> UNION {Numbers(c, n) : c \in All}] : \A c \in All : d[c] \in Numbers(c, n)} :
         n \in 1..MaxTrials}

(* The options of the report are chosen here, where they are first asked,   *)
(* and with the gate the thresholds that its file sets.                     *)
Options ==
  {o \in SUBSET ({"gate", "compare", "fail-on-regression"} \cup Thresholds) :
     /\ "fail-on-regression" \in o => "compare" \in o
     /\ o \cap Thresholds # {} => "gate" \in o}
Report ==
  /\ ev.pc = "report"
  /\ \E o \in Options : options' = [options EXCEPT !.report = o]
  /\ ev' = [ev EXCEPT !.pc = "reference"]
  /\ UNCHANGED <<turn, dirs, results, before>>

(* The thresholds and the earlier results are read only now.  Results of    *)
(* another corpus, of other cases or without DiffOwl's own cannot be        *)
(* compared, and nothing is written then.                                   *)
ReadReference ==
  /\ ev.pc = "reference"
  /\ \/ /\ Asked("gate") \/ Asked("compare")
        /\ Ends(1) /\ UNCHANGED before
     \/ /\ ~Asked("compare")
        /\ ev' = [ev EXCEPT !.pc = "answer"] /\ UNCHANGED before
     \/ /\ Asked("compare") /\ options.mode # "baseline"
        /\ before' \in Earlier
        /\ ev' = [ev EXCEPT !.pc = "answer"]
  /\ UNCHANGED <<options, turn, dirs, results>>

Regression == before # <<>> /\ \E c \in 1..Len(Cases) : Regressed(c, before[c], Now(c))

(* The results are printed or written, which may fail, and the exit code is *)
(* set by the gate, and by a regression if that was asked for.              *)
Answer ==
  /\ ev.pc = "answer"
  /\ \/ ev' = [ev EXCEPT !.pc = "done", !.wrote = TRUE,
                         !.exit = IF (Asked("gate") /\ ~GatePassed) \/ (Asked("fail-on-regression") /\ Regression)
                                  THEN 1 ELSE 0]
     \/ Ends(1)
  /\ Fixed /\ UNCHANGED <<turn, dirs, results>>

EvalNext ==
  \/ Load \/ Materialize \/ Review \/ Cleanup \/ Result \/ Report \/ ReadReference \/ Answer

-----------------------------------------------------------------------------
(* Something was reviewed; and nothing went worse than it did before.       *)
SomeReviewed == \E c \in All : Now(c).error < options.trials
NoneWorse ==
  \A c \in All :
    IF Cases[c].clean
    THEN before[c].error = 0 /\ before[c].noise = 0 => Now(c).error = 0 /\ Now(c).noise = 0
    ELSE Now(c).found * before[c].trials >= before[c].found * options.trials

(* A command that exits with 0 did every trial of every case once in the    *)
(* mode asked for, errors and all, and told the results; asked to fail on a *)
(* regression it does so even where failures look like silence: a clean     *)
(* case whose earlier trials were all reviewed and empty was now reviewed   *)
(* as often and stayed empty, and no finding is detected less often; behind *)
(* a gate that demands recall a run in which nothing was reviewed does not  *)
(* pass.  (The other thresholds do not tell a failed trial from a silent    *)
(* one, whose precision is 1: with them alone such a run passes.)  No       *)
(* directory stays then.                                                    *)
EvalIsHonest ==
  /\ ev.pc = "done" /\ ev.exit = 0 =>
       /\ turn.case > Len(Cases) /\ dirs = {} /\ ev.wrote
       /\ \A c \in All, m \in {"diffowl", "baseline"} :
            results[<<c, m>>].trials = IF options.mode \in {m, "both"} THEN options.trials ELSE 0
       /\ Asked("recall") => SomeReviewed
       /\ Asked("fail-on-regression") => NoneWorse

(* The trials of a case that are done when it is the turn t of the options o*)
TrialsDone(o, t, c, m) ==
  LET place == IF o.mode = "both" /\ m = "baseline" THEN 2 ELSE 1 IN
  IF o.mode \notin {m, "both"} THEN 0
  ELSE IF c < t.case \/ (c = t.case /\ place < t.mode) THEN o.trials
  ELSE IF c = t.case /\ place = t.mode THEN t.trial - 1 ELSE 0

(* Where a run is: the results are those of the trials that are done.       *)
ResultsFit ==
  /\ DOMAIN results = All \X {"diffowl", "baseline"}
  /\ \A c \in All, m \in {"diffowl", "baseline"} :
       results[<<c, m>>] \in Numbers(c, TrialsDone(options, turn, c, m))
EvalFits ==
  /\ options \in [mode : {"diffowl", "baseline", "both"}, trials : 1..MaxTrials, report : Options]
  /\ turn \in [case : 1..(Len(Cases) + 1), mode : 1..Len(Modes(options.mode)), trial : 1..options.trials]
  /\ ev \in [pc : {"load", "make", "review", "clean", "result", "report", "reference", "answer", "done"},
              step : Nat, trial : [found : BOOLEAN, noise : BOOLEAN, error : BOOLEAN],
              exit : {0, 1}, wrote : BOOLEAN]
  /\ ResultsFit
  /\ ev.pc \in {"load", "make", "review", "clean", "result"} => turn.case \in All
  /\ ev.pc \in {"clean", "result"} => ev.trial \in Outcomes(turn.case)
  /\ ev.pc \in {"report", "reference", "answer"} => turn.case \notin All
  /\ ev.pc \notin {"review", "clean", "done"} => dirs = {}
  /\ dirs \subseteq {"work"}
  /\ ev.pc = "answer" /\ Asked("compare") => before \in Earlier
  /\ ev.pc = "done" /\ ev.exit = 0 =>
       /\ turn.case \notin All /\ dirs = {} /\ ev.wrote
       /\ Asked("recall") => SomeReviewed
       /\ Asked("fail-on-regression") => NoneWorse

EvalSpec == EvalInit /\ [][EvalNext]_evalVars
===============================================================================
