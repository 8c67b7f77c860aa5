------------------------- MODULE MCReviewExecution -------------------------
(* Small instances of ReviewExecution for TLC. *)
EXTENDS ReviewExecution, TLC

(* Runs are interchangeable; used by safety runs only. *)
RunSymmetry == Permutations(Runs)
=============================================================================
