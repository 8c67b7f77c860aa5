-------------------------------- MODULE DiffText --------------------------------
(***************************************************************************)
(* The three readers of one git diff: parseDiff (src/git/diff.ts), which   *)
(* lists its files, getChangedLinesByFile (src/review/context.ts), which   *)
(* numbers the added lines, and filterDiffRaw (src/review/                 *)
(* context-render.ts), which keeps the part a reviewer is shown.  A step   *)
(* is a line, or the lines of a header, that git prints next; `files` is   *)
(* what the diff means, the other variables what the readers have made of  *)
(* the lines so far.                                                       *)
(***************************************************************************)
EXTENDS Naturals, Sequences, FiniteSets

CONSTANTS
  Names,      \* paths of files
  Words,      \* path -> it as words: one, or two for a path with a space
  Reviewable, \* the paths that the include and exclude rules leave
  MaxFiles, MaxLines  \* bounds: files, and lines of all hunks

VARIABLES files,   \* what git prints: the files, and their true lines
          phase,   \* which lines may follow
          drafts,  \* parseDiff: the files so far, with the header's path
          cur,     \* getChangedLinesByFile: currentPath
          newLine, \* its next line number, "none" before a hunk
          changed  \* its result: pairs of a path and a line

diffVars == <<files, phase, drafts, cur, newLine, changed>>

Last(s) == s[Len(s)]
OnLast(s, changes) == [s EXCEPT ![Len(s)] = [f \in DOMAIN @ |-> IF f \in DOMAIN changes THEN changes[f] ELSE @[f]]]

TextInit ==
  /\ files = <<>> /\ phase = "files" /\ drafts = <<>>
  /\ cur = "none" /\ newLine = 0 /\ changed = {}

-----------------------------------------------------------------------------
(* Headers                                                                  *)

(* parseGitDiffLine: git quotes a path with a quote or an odd byte, and     *)
(* that is decoded; a path with a space is not quoted, and the first two    *)
(* words of the line are taken for the two paths.                           *)
HeaderSource(old) == Words[old][1]
HeaderPath(old, path) == IF Len(Words[old]) > 1 THEN Words[old][2] ELSE Words[path][1]

(* "diff --git a/old b/path", or "diff --cc path" for an unmerged path,     *)
(* whose path is the rest of the line (parseCombinedDiffLine).              *)
Header(path, old, status, form) ==
  LET shown == IF form = "combined" THEN path ELSE HeaderPath(old, path)
      source == IF form = "combined" THEN path ELSE HeaderSource(old)
  IN /\ phase = "files" /\ Len(files) < MaxFiles
     /\ \A i \in 1..Len(files) : path \notin {files[i].path, files[i].old}
     /\ files' = Append(files, [path |-> path, old |-> old, status |-> status, form |-> form, text |-> FALSE,
                                deletions |-> 0, at |-> 1, lines |-> {},
                                count |-> IF files = <<>> THEN 0 ELSE Last(files).count, odd |-> FALSE])
     /\ drafts' = Append(drafts, [header |-> shown, sourcePath |-> source, path |-> shown,
                                  status |-> "modified", additions |-> 0, deletions |-> 0])
     /\ cur' = shown /\ newLine' = 0
     /\ phase' = IF status = "renamed" THEN "renaming" ELSE "sides"
     /\ UNCHANGED changed

(* "rename to path", unescapePath of the whole rest.                        *)
RenameTo ==
  /\ phase = "renaming" /\ phase' = "sides"
  /\ drafts' = OnLast(drafts, [path |-> Last(files).path, status |-> "renamed"])
  /\ cur' = Last(files).path
  /\ UNCHANGED <<files, newLine, changed>>

(* "--- a/old" and "+++ b/path", one of them /dev/null; only a file with    *)
(* hunks has them.                                                          *)
Sides ==
  /\ phase = "sides" /\ phase' = "hunk"
  /\ files' = OnLast(files, [text |-> TRUE])
  /\ drafts' = IF Last(files).status \in {"added", "deleted"}
               THEN OnLast(drafts, [status |-> Last(files).status]) ELSE drafts
  /\ UNCHANGED <<cur, newLine, changed>>

(* A binary or empty file, a change of mode, a rename of the same content.  *)
NoText ==
  /\ phase = "sides" /\ phase' = "files"
  /\ UNCHANGED <<files, drafts, cur, newLine, changed>>

-----------------------------------------------------------------------------
(* Hunks                                                                    *)

Line == phase \in {"opened", "lines"} /\ phase' = "lines" /\ Last(files).count < MaxLines
Plain == Last(files).form = "plain"

HunkStart_GoesOn ==
  /\ phase \in {"hunk", "lines"} /\ Last(files).count < MaxLines
  /\ phase' = "opened"
  /\ files' = OnLast(files, [at |-> Last(files).at + 1])
  /\ newLine' = (IF newLine = 0 THEN Last(files).at + 1 ELSE newLine)
  /\ UNCHANGED <<drafts, cur, changed>>
(* "@@ -n +m @@" and its combined form: line numbers start anew.            *)
HunkStart ==
  /\ phase \in {"hunk", "lines"} /\ Last(files).count < MaxLines
  /\ phase' = "opened"
  /\ files' = OnLast(files, [at |-> Last(files).at + 1])
  /\ newLine' = Last(files).at + 1
  /\ UNCHANGED <<drafts, cur, changed>>

(* A line of both versions.                                                 *)
Context ==
  /\ Line
  /\ files' = OnLast(files, [at |-> Last(files).at + 1, count |-> Last(files).count + 1])
  /\ newLine' = newLine + 1
  /\ UNCHANGED <<drafts, cur, changed>>

(* How the text of a changed line begins: with the marks of a header, "++"  *)
(* or "--", perhaps followed by " /dev/null"; in the combined form a mark   *)
(* less of the text does it, since the line has one for each parent.        *)
Looks == {"usual", "double", "null"}
Misread(look) == look = "null" \/ (look = "double" /\ Plain)

(* A new line.  One that looks like the header of a file is not counted,    *)
(* and not numbered in the plain form; with /dev/null the file is taken for *)
(* a deleted one.  A combined one may be new to some of the parents only.   *)
Added(look) ==
  /\ Line
  /\ LET f == Last(files)
         numbered == look = "usual" \/ ~Plain
     IN /\ files' = OnLast(files, [at |-> f.at + 1, lines |-> f.lines \cup {f.at}, count |-> f.count + 1,
                                   odd |-> f.odd \/ Misread(look)])
        /\ drafts' = IF look = "null" THEN OnLast(drafts, [status |-> "deleted"])
                     ELSE IF Misread(look) THEN drafts
                     ELSE OnLast(drafts, [additions |-> Last(drafts).additions + 1])
        /\ changed' = IF numbered THEN changed \cup {<<cur, newLine>>} ELSE changed
        /\ newLine' = IF numbered THEN newLine + 1 ELSE newLine
  /\ UNCHANGED cur

(* An old line; with /dev/null the file is taken for a new one.             *)
Removed(look) ==
  /\ Line
  /\ LET f == Last(files)
     IN files' = OnLast(files, [deletions |-> f.deletions + 1, count |-> f.count + 1,
                                odd |-> f.odd \/ Misread(look)])
  /\ drafts' = IF look = "null" THEN OnLast(drafts, [status |-> "added"])
               ELSE IF Misread(look) THEN drafts
               ELSE OnLast(drafts, [deletions |-> Last(drafts).deletions + 1])
  /\ UNCHANGED <<cur, newLine, changed>>

(* "\ No newline at end of file", which the numbering of the plain form     *)
(* takes for a line.                                                        *)
NoNewline ==
  /\ phase = "lines" /\ Line
  /\ files' = OnLast(files, [count |-> Last(files).count + 1, odd |-> Last(files).odd \/ Plain])
  /\ newLine' = IF Plain THEN newLine + 1 ELSE newLine
  /\ UNCHANGED <<drafts, cur, changed>>

FileEnds ==
  /\ phase = "lines"
  /\ phase' = "files"
  /\ UNCHANGED <<files, drafts, cur, newLine, changed>>

TextNext ==
  \/ \E path \in Names :
       \/ \E status \in {"added", "modified", "deleted"} : Header(path, path, status, "plain")
       \/ \E old \in Names \ {path} : Header(path, old, "renamed", "plain")
       \/ Header(path, path, "modified", "combined")
  \/ RenameTo \/ Sides \/ NoText \/ HunkStart \/ Context \/ NoNewline \/ FileEnds
  \/ \E look \in Looks : Added(look) \/ Removed(look)

-----------------------------------------------------------------------------
(* filterDiffRaw: the part of file i is shown when its header line names a  *)
(* path that the parsed diff has and the rules leave.                       *)
Included == {drafts[i].path : i \in 1..Len(drafts)} \cap Reviewable
Shown(i) == drafts[i].header \in Included

(* A file whose path is read whole wherever it stands.                      *)
Legible(f) == f.form = "combined" \/ (Len(Words[f.path]) = 1 /\ Len(Words[f.old]) = 1)
AllLegible == \A i \in 1..Len(files) : Legible(files[i])

(* What the readers have made of a file.                                    *)
Understood(f, d, pairs) ==
  /\ d.path = f.path /\ d.sourcePath = f.old
  /\ f.text /\ ~f.odd => d.status = f.status
  /\ ~f.odd => /\ {p \in pairs : p[1] = f.path} = {f.path} \X f.lines
               /\ d.additions = Cardinality(f.lines) /\ d.deletions = f.deletions

(* While no path has a space, the readers agree with each other and with    *)
(* git: every file is listed under its path and its old path, and exactly   *)
(* the files that the rules leave are shown; and as long as no line looks   *)
(* like another kind of line, its status is read if it has text, and the    *)
(* added lines are counted and numbered, each under its own file.           *)
ReadAsMeant ==
  AllLegible /\ phase = "files" =>
    \A i \in 1..Len(files) :
      Understood(files[i], drafts[i], changed) /\ (Shown(i) <=> files[i].path \in Reviewable)

(* blockingContextDegradations says that lost diff hunks fail closed: what  *)
(* is left out of the diff that a reviewer is shown, beside what the rules  *)
(* drop, is reported.  parseDiff reports only a diff that git cut short; a  *)
(* file that is listed under a path nothing can be read from is reported    *)
(* too, as unavailable.                                                     *)
LostHunksAreReported ==
  phase = "files" =>
    \A i \in 1..Len(files) :
      files[i].text /\ drafts[i].path = files[i].path /\ files[i].path \in Reviewable => Shown(i)

(* While no path has a space, every file is understood as far as it has been*)
(* printed: the lines of the last one go to its path, from its line on.     *)
Statuses == {"added", "modified", "deleted", "renamed"}
File ==
  [path : Names, old : Names, status : Statuses, form : {"plain", "combined"}, text : BOOLEAN,
   deletions : Nat, at : Nat \ {0}, lines : SUBSET Nat, count : Nat, odd : BOOLEAN]
Draft == [header : Names, sourcePath : Names, path : Names, status : Statuses, additions : Nat, deletions : Nat]
ReadSoFar ==
  /\ drafts \in Seq(Draft) /\ Len(drafts) = Len(files)
  /\ \A i \in 1..Len(files) : drafts[i].header = files[i].path /\ Understood(files[i], drafts[i], changed)
  /\ \A i, j \in 1..Len(files) : files[i].path = files[j].path => i = j
  /\ changed \subseteq {files[i].path : i \in 1..Len(files)} \X Nat /\ newLine \in Nat
  /\ phase # "files" => cur = Last(files).path
  /\ phase \in {"opened", "lines"} /\ ~Last(files).odd => newLine = Last(files).at
  /\ phase = "renaming" => Last(files).status = "renamed"
  /\ phase = "sides" =>
       Last(drafts).status = IF Last(files).status = "renamed" THEN "renamed" ELSE "modified"
FilesFit ==
  /\ files \in Seq(File)
  /\ \A i \in 1..Len(files) : IsFiniteSet(files[i].lines) /\ \A l \in files[i].lines : l < files[i].at
  /\ phase \in {"files", "renaming", "sides", "hunk", "opened", "lines"}
  /\ phase # "files" => files # <<>>
TextFits == FilesFit /\ (AllLegible => ReadSoFar)

TextSpec == TextInit /\ [][TextNext]_diffVars
===============================================================================
