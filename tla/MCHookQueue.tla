---------------------------- MODULE MCHookQueue ----------------------------
(* Small instances of HookQueue for TLC. *)
EXTENDS HookQueue, TLC

(* Hooks and commits are interchangeable; used by safety runs only. *)
HooksAndCommits == Permutations(Hooks) \cup Permutations(Commits)
=============================================================================
