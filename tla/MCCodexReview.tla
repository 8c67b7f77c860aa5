--------------------------- MODULE MCCodexReview ---------------------------
(* A small instance of CodexReview for TLC. *)
EXTENDS CodexReview, TLC

MCBodies == TurnBodies
=============================================================================
