-------------------------------- MODULE StateRoot --------------------------------
(***************************************************************************)
(* Where the state of a project is kept (src/git/state-root.ts): all       *)
(* worktrees of a repository share one directory, found through git, and   *)
(* no two repositories share one.  A process asks once and keeps the       *)
(* answer; a lookup that fails is forgotten and asked again.               *)
(*                                                                         *)
(* A directory is the sequence of the names on its path.  Its entry .git   *)
(* is a directory, a symbolic link or a file that names one, as in linked  *)
(* worktrees, submodules and with --separate-git-dir; a git directory that *)
(* is not such an entry is a "store" in some directory.                    *)
(***************************************************************************)
EXTENDS Naturals, Sequences

CONSTANTS
  Layouts,    \* functions from directories to their .git entry
  Layout,     \* the one in which the process runs
  ProjectRoot,\* the directory of its configuration
  Callers,    \* parts of the process that ask
  MaxLookups  \* bound on the lookups

VARIABLES lookups, \* the promises: what became of each lookup
          memo,    \* the one remembered, or 0
          callers  \* caller -> the promise it waits for and its answers

rootVars == <<lookups, memo, callers>>

-----------------------------------------------------------------------------
(* Git                                                                      *)

(* A git directory is known by where it is and whether it is a store.  A    *)
(* directory that a layout does not list has no .git entry.                 *)
GitDir(layout, d) == IF layout[d].kind = "dir" THEN <<"entry", d>> ELSE layout[d].of
Above(d) == {SubSeq(d, 1, n) : n \in 0..Len(d)}
Longest(S) == CHOOSE d \in S : \A e \in S : Len(e) <= Len(d)
Repositories(layout, d) == {e \in Above(d) \cap DOMAIN layout : layout[e].kind # "none"}
HasRepository(layout, d) == Repositories(layout, d) # {}
TopLevel(layout, d) == Longest(Repositories(layout, d))
CommonDir(layout, d) == GitDir(layout, TopLevel(layout, d))

-----------------------------------------------------------------------------
(* resolveSharedDiffOwlDir                                                  *)

Local(d) == <<"dir", d>>

(* findStandardWorktreeRoot: the nearest directory above the common one     *)
(* whose .git, a directory or a link, is that very one.                     *)
Standard(layout, common) ==
  {c \in Above(common[2]) \cap DOMAIN layout : layout[c].kind \in {"dir", "link"} /\ GitDir(layout, c) = common}

SharedDir(layout, root) ==
  IF ~HasRepository(layout, root) THEN Local(root)
  ELSE LET common == CommonDir(layout, root)
           rel == SubSeq(root, Len(TopLevel(layout, root)) + 1, Len(root))
           standard == Standard(layout, common)
       IN IF standard # {} THEN <<"dir", Longest(standard) \o rel>> ELSE <<"git", common, rel>>

-----------------------------------------------------------------------------
(* getSharedDiffOwlDir                                                      *)

RootInit ==
  /\ lookups = <<>> /\ memo = 0
  /\ callers = [c \in Callers |-> [waits |-> 0, got |-> {}]]

Ask(c) ==
  /\ callers[c].waits = 0
  /\ IF memo = 0
     THEN /\ Len(lookups) < MaxLookups
          /\ lookups' = Append(lookups, <<"pending">>)
          /\ memo' = Len(lookups) + 1
     ELSE UNCHANGED <<lookups, memo>>
  /\ callers' = [callers EXCEPT ![c].waits = memo']

(* The lookup ends: with the shared directory, with the local one where git *)
(* is missing, is not in a repository (exit code 128) or a path is gone, or *)
(* with an error.                                                           *)
Settle(i) ==
  /\ lookups[i] = <<"pending">>
  /\ \E end \in {<<"dir", SharedDir(Layout, ProjectRoot)>>, <<"dir", Local(ProjectRoot)>>, <<"failed">>} :
       lookups' = [lookups EXCEPT ![i] = end]
  /\ UNCHANGED <<memo, callers>>

Forgotten_Always(promise) == 0
Forgotten(promise) == IF memo = promise THEN 0 ELSE memo

Resume(c) ==
  /\ callers[c].waits # 0
  /\ LET promise == callers[c].waits
         end == lookups[promise]
     IN /\ end # <<"pending">>
        /\ IF end = <<"failed">>
           THEN memo' = Forgotten(promise) /\ callers' = [callers EXCEPT ![c].waits = 0]
           ELSE /\ callers' = [callers EXCEPT ![c].waits = 0, ![c].got = @ \cup {end[2]}]
                /\ UNCHANGED memo
  /\ UNCHANGED lookups

RootNext ==
  \/ \E c \in Callers : Ask(c) \/ Resume(c)
  \/ \E i \in DOMAIN lookups : Settle(i)

-----------------------------------------------------------------------------
Within(layout, d) == SubSeq(d, Len(TopLevel(layout, d)) + 1, Len(d))
SameProject(layout, p, q) ==
  /\ HasRepository(layout, p) /\ HasRepository(layout, q)
  /\ CommonDir(layout, p) = CommonDir(layout, q)
  /\ Within(layout, p) = Within(layout, q)
(* The place of a project in another checkout of its repository, whether it *)
(* is there or not, belongs to another repository.                          *)
Covered(layout, p) ==
  /\ HasRepository(layout, p)
  /\ \E other \in DOMAIN layout :
       /\ layout[other].kind # "none" /\ GitDir(layout, other) = CommonDir(layout, p)
       /\ CommonDir(layout, other \o Within(layout, p)) # CommonDir(layout, p)

(* Whatever the lookups meet, the parts of one process never write to two   *)
(* state directories.                                                       *)
OneDirectory == \A c, d \in Callers : \A x \in callers[c].got, y \in callers[d].got : x = y

(* In every layout two projects share one exactly if they are the same      *)
(* project of the same repository, unless another repository lies at that   *)
(* place of another checkout.                                               *)
ProjectsApart ==
  lookups = <<>> =>
    \A layout \in Layouts : \A p, q \in DOMAIN layout :
      p # q /\ ~Covered(layout, p) /\ ~Covered(layout, q) =>
        (SharedDir(layout, p) = SharedDir(layout, q) <=> SameProject(layout, p, q))

RootSpec == RootInit /\ [][RootNext]_rootVars

-----------------------------------------------------------------------------
(* What the proofs need                                                     *)

Ends == {<<"pending">>, <<"failed">>, <<"dir", SharedDir(Layout, ProjectRoot)>>,
         <<"dir", Local(ProjectRoot)>>}

(* Only the remembered lookup may still succeed, and whoever has an answer  *)
(* has its answer.                                                          *)
RootFits ==
  /\ lookups \in Seq(Ends) /\ memo \in 0..Len(lookups)
  /\ callers = [c \in Callers |-> [waits |-> callers[c].waits, got |-> callers[c].got]]
  /\ \A i \in 1..Len(lookups) : i # memo => lookups[i] = <<"failed">>
  /\ \A c \in Callers :
       /\ callers[c].waits \in 0..Len(lookups)
       /\ \A x \in callers[c].got : memo # 0 /\ lookups[memo] = <<"dir", x>>
================================================================================
