-------------------------- MODULE HookInstallation --------------------------
(***************************************************************************)
(* Installing and removing the post-commit hook (src/git/                  *)
(* hook-installation.ts).  The hook script belongs to the user: diffowl    *)
(* keeps a section of it between two markers.  In a plain repository the   *)
(* section starts the review itself.  Under Husky the script is tracked, so*)
(* its section (the bridge) only looks for a launcher in the Git directory *)
(* of the worktree, or in the one that all worktrees share.                *)
(*                                                                         *)
(* A script is a sequence of lines: lines of the user, the two markers, and*)
(* between them one line that names the runtime, or "bridge".  Users edit  *)
(* their scripts, upgrade the runtime and kill a command at any point.     *)
(***************************************************************************)
EXTENDS Naturals, Sequences

CONSTANTS Trees, Home,   \* worktrees; Home is the main checkout
          UserLines, Runtimes,
          MaxEdits, MaxCommands

VARIABLES husky,      \* kind of the hook target
          script,     \* post-commit of each worktree; a plain hook is Home's
          executable, \* its mode
          launcher,   \* diffowl-post-commit in each Git directory
          runtime,    \* what resolveHookCommand pins now
          command,    \* place, worktree and previous text of the command
          edits, commands

hookVars == <<husky, script, executable, launcher, runtime, command, edits, commands>>

NoScript == <<"none">>
Absent == [text |-> "none", executable |-> FALSE]
Idle == [at |-> "idle", tree |-> Home, previous |-> NoScript]

InstallationInit ==
  /\ husky \in BOOLEAN
  /\ script = [w \in Trees |-> NoScript] /\ executable = [w \in Trees |-> FALSE]
  /\ launcher = [w \in Trees |-> Absent]
  /\ runtime \in Runtimes
  /\ command = Idle /\ edits = 0 /\ commands = 0

(* getHookTarget: the hooks directory of a plain repository is shared.      *)
Target(w) == IF husky THEN w ELSE Home

-----------------------------------------------------------------------------
(* The text of the script                                                   *)

FirstOf(S) == IF S = {} THEN 0 ELSE CHOOSE i \in S : \A j \in S : i <= j
Index(text, line) == FirstOf({i \in 1..Len(text) : text[i] = line})
EndAfter(text, start) == FirstOf({i \in start + 1..Len(text) : text[i] = "end"})
Managed(text) == Index(text, "start") # 0
Without(text, i) == SubSeq(text, 1, i - 1) \o SubSeq(text, i + 1, Len(text))

RemoveManaged_ToTheEnd(text) ==
  LET start == Index(text, "start") end == EndAfter(text, start) IN
  IF start = 0 THEN text
  ELSE SubSeq(text, 1, start - 1)
       \o SubSeq(text, IF end = 0 THEN Len(text) + 1 ELSE end + 1, Len(text))
(* removeManagedSection: without an end marker only the marker line goes.   *)
RemoveManaged(text) ==
  LET start == Index(text, "start") end == EndAfter(text, start) IN
  IF start = 0 THEN text
  ELSE SubSeq(text, 1, start - 1)
       \o SubSeq(text, (IF end = 0 THEN start ELSE end) + 1, Len(text))

(* extractManagedSection                                                    *)
Extracted(text) ==
  LET start == Index(text, "start") end == EndAfter(text, start) IN
  IF end = 0 THEN NoScript ELSE SubSeq(text, start, end)

(* generateManagedSection, generateHuskyManagedSection                      *)
Section == <<"start", IF husky THEN "bridge" ELSE runtime, "end">>

OnlyShebangs(text) == \A i \in DOMAIN text : text[i] = "shebang"

(* What installHook makes of a script, and uninstallHook.                   *)
Installed(text) ==
  LET base == IF text = NoScript THEN <<>> ELSE RemoveManaged(text) IN
  (IF OnlyShebangs(base) THEN <<"shebang">> ELSE base) \o Section
Uninstalled(text) ==
  LET base == RemoveManaged(text) IN IF OnlyShebangs(base) THEN NoScript ELSE base

-----------------------------------------------------------------------------
(* installHook, uninstallHook                                               *)

Step(here, there) == command.at = here /\ command' = [command EXCEPT !.at = there]
Starts(w, there) ==
  /\ command = Idle /\ commands < MaxCommands
  /\ command' = [Idle EXCEPT !.at = there, !.tree = w]
  /\ commands' = commands + 1
Finishes(here) == command.at = here /\ command' = Idle

(* isManagedLauncher: neither a file of the user nor one that was emptied   *)
(* and never filled is overwritten or removed.                              *)
Unmanaged(w) == launcher[w].text \in {"foreign", "empty"}

Install(w) ==
  /\ ~husky \/ ~Unmanaged(w)
  /\ Starts(w, IF husky THEN "launcher" ELSE "read")
  /\ UNCHANGED <<husky, script, executable, launcher, runtime, edits>>
EmptyLauncher ==
  /\ Step("launcher", "fill launcher")
  /\ launcher' = [launcher EXCEPT ![command.tree].text = "empty"]
  /\ UNCHANGED <<husky, script, executable, runtime, edits, commands>>
WriteLauncher ==
  /\ Step("fill launcher", "chmod launcher")
  /\ launcher' = [launcher EXCEPT ![command.tree].text = runtime]
  /\ UNCHANGED <<husky, script, executable, runtime, edits, commands>>
ChmodLauncher ==
  /\ Step("chmod launcher", "read")
  /\ launcher' = [launcher EXCEPT ![command.tree].executable = TRUE]
  /\ UNCHANGED <<husky, script, executable, runtime, edits, commands>>

ReadScript ==
  LET h == Target(command.tree) IN
  /\ \/ command.at = "read" /\ command' = [command EXCEPT
          !.at = IF script[h] = Installed(script[h]) THEN "chmod" ELSE "truncate",
          !.previous = script[h]]
     \/ command.at = "unread" /\ command' =
          IF script[h] = NoScript \/ ~Managed(script[h]) THEN Idle
          ELSE [command EXCEPT !.at = IF Uninstalled(script[h]) = NoScript
                                        THEN "unlink" ELSE "clear",
                               !.previous = script[h]]
  /\ UNCHANGED <<husky, script, executable, launcher, runtime, edits, commands>>

(* writeFile empties the file and then fills it.                            *)
Truncate ==
  /\ Step("truncate", "write") \/ Step("clear", "rewrite")
  /\ script' = [script EXCEPT ![Target(command.tree)] = <<>>]
  /\ UNCHANGED <<husky, executable, launcher, runtime, edits, commands>>
WriteScript ==
  /\ Step("write", "chmod")
  /\ script' = [script EXCEPT ![Target(command.tree)] = Installed(command.previous)]
  /\ UNCHANGED <<husky, executable, launcher, runtime, edits, commands>>
ChmodScript ==
  /\ Finishes("chmod")
  /\ executable' = [executable EXCEPT ![Target(command.tree)] = TRUE]
  /\ UNCHANGED <<husky, script, launcher, runtime, edits, commands>>

Uninstall(w) ==
  /\ Starts(w, "unread")
  /\ launcher' = IF husky /\ ~Unmanaged(w)
                   THEN [launcher EXCEPT ![w] = Absent] ELSE launcher
  /\ UNCHANGED <<husky, script, executable, runtime, edits>>
Unlink ==
  /\ Finishes("unlink")
  /\ script' = [script EXCEPT ![Target(command.tree)] = NoScript]
  /\ executable' = [executable EXCEPT ![Target(command.tree)] = FALSE]
  /\ UNCHANGED <<husky, launcher, runtime, edits, commands>>
Rewrite ==
  /\ Finishes("rewrite")
  /\ script' = [script EXCEPT ![Target(command.tree)] = Uninstalled(command.previous)]
  /\ UNCHANGED <<husky, executable, launcher, runtime, edits, commands>>

Kill ==
  /\ command # Idle /\ command' = Idle
  /\ UNCHANGED <<husky, script, executable, launcher, runtime, edits, commands>>

-----------------------------------------------------------------------------
(* What users do meanwhile                                                  *)

Edits == edits < MaxEdits /\ edits' = edits + 1

AddLine(w) ==
  /\ Edits /\ w = Target(w)
  /\ \E line \in UserLines \cup {"shebang"} :
       script' = [script EXCEPT ![w] =
         IF @ = NoScript THEN <<line>> ELSE IF line = "shebang" THEN <<line>> \o @ ELSE Append(@, line)]
  /\ UNCHANGED <<husky, executable, launcher, runtime, command, commands>>
LoseEndMarker(w) ==
  /\ Edits
  /\ Index(script[w], "end") # 0
  /\ script' = [script EXCEPT ![w] = Without(@, Index(@, "end"))]
  /\ UNCHANGED <<husky, executable, launcher, runtime, command, commands>>
ChangeMode(w) ==
  /\ Edits
  /\ \/ launcher[w] # Absent /\ launcher' = [launcher EXCEPT ![w].executable = ~@]
        /\ UNCHANGED executable
     \/ script[w] # NoScript /\ executable' = [executable EXCEPT ![w] = ~@]
        /\ UNCHANGED launcher
  /\ UNCHANGED <<husky, script, runtime, command, commands>>
Occupy(w) ==
  /\ Edits
  /\ husky /\ launcher' = [launcher EXCEPT ![w] = [text |-> "foreign", executable |-> TRUE]]
  /\ UNCHANGED <<husky, script, executable, runtime, command, commands>>
Upgrade ==
  /\ Edits
  /\ command = Idle /\ runtime' \in Runtimes \ {runtime}
  /\ UNCHANGED <<husky, script, executable, launcher, command, commands>>

InstallationNext ==
  \/ \E w \in Trees : Install(w) \/ Uninstall(w) \/ AddLine(w) \/ LoseEndMarker(w)
                      \/ ChangeMode(w) \/ Occupy(w)
  \/ EmptyLauncher \/ WriteLauncher \/ ChmodLauncher \/ ReadScript \/ Truncate \/ WriteScript
  \/ ChmodScript \/ Unlink \/ Rewrite \/ Kill \/ Upgrade

InstallationSpec == InstallationInit /\ [][InstallationNext]_hookVars

-----------------------------------------------------------------------------
(* checkHookStale                                                           *)

LauncherOf(w) == IF launcher[w] # Absent THEN launcher[w] ELSE launcher[Home]
FreshLauncher_AnyMode(w) == LauncherOf(w).text = runtime
FreshLauncher(w) == LauncherOf(w).executable /\ LauncherOf(w).text = runtime
Fresh(w) ==
  LET text == script[Target(w)] IN
  /\ text # NoScript /\ Managed(text)
  /\ Extracted(text) = Section
  /\ husky => FreshLauncher(w)

(* What the shell does after a commit in w: the section of a plain hook     *)
(* runs its runtime; the bridge runs the launcher of the worktree, else the *)
(* shared one, if it is executable.                                         *)
Runs(w) ==
  LET text == script[Target(w)] IN
  {l \in Runtimes :
     \/ ~husky /\ executable[Home] /\ Index(text, l) # 0
     \/ /\ husky /\ Index(text, "bridge") # 0
        /\ LET shared == IF launcher[w] = Absent THEN Home ELSE w IN
             launcher[shared].executable /\ launcher[shared].text = l}

-----------------------------------------------------------------------------
(* Properties                                                               *)

(* A hook that `hook status' calls installed and up to date starts a review *)
(* with the runtime of today after each commit in that worktree: the check  *)
(* in TypeScript agrees with the shell code it was generated with.  The mode*)
(* of a plain hook is not looked at, so it is assumed here.                 *)
FreshMeansRuns ==
  \A w \in Trees : Fresh(w) /\ (husky \/ executable[Home]) => runtime \in Runs(w)

(* Installing and removing keep the lines of the user that they have read,  *)
(* in their order, also when a marker was lost.                             *)
Joined(lists) ==
  LET upTo[n \in 0..Len(lists)] == IF n = 0 THEN <<>> ELSE upTo[n - 1] \o lists[n]
  IN upTo[Len(lists)]
UsersOnly(text) == Joined([i \in DOMAIN text |-> IF text[i] \in UserLines THEN <<text[i]>> ELSE <<>>])
KeepsUserLines ==
  command.at \in {"write", "rewrite"} /\ command' # command /\ script' # script =>
    UsersOnly(script'[Target(command.tree)]) = UsersOnly(command.previous)
UserLinesKept == [][KeepsUserLines]_hookVars

-----------------------------------------------------------------------------
(* What the proofs need: scripts are texts, also the one a command keeps.   *)
Lines == UserLines \cup Runtimes \cup {"shebang", "start", "bridge", "end", "none"}
InstallationFits ==
  /\ husky \in BOOLEAN /\ runtime \in Runtimes
  /\ script \in [Trees -> Seq(Lines)]
  /\ DOMAIN command = {"at", "tree", "previous"}
  /\ command.tree \in Trees /\ command.previous \in Seq(Lines)

(* A script has one section at most, without its end where a user lost it,  *)
(* and nothing of the user in it.                                           *)
WellMarked(text) ==
  /\ \A i, j \in 1..Len(text) : text[i] = "start" /\ text[j] = "start" => i = j
  /\ \A i \in 1..Len(text) :
       text[i] = "end" => i > 2 /\ text[i - 2] = "start" /\ text[i - 1] \notin UserLines
MarkersFit == WellMarked(command.previous) /\ \A w \in Trees : WellMarked(script[w])
================================================================================
