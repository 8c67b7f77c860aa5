---------------------------- MODULE GuardedReview ----------------------------
(***************************************************************************)
(* What an executor that runs a reviewer as a child process promises, in   *)
(* src/claude/executor.ts and src/cursor/executor.ts: the repository is    *)
(* compared before and after, the child and its process group are gone     *)
(* when the review ends, and a report is the answer only if both checks    *)
(* were made and were good.  A change that was seen outranks every other   *)
(* outcome.                                                                *)
(***************************************************************************)
VARIABLES
  stage,     \* "starting", "working", "ended"
  alive,     \* a process of the child's group runs
  dirty,     \* the repository differs from the first snapshot
  verified,  \* the second snapshot was taken and its answer was used
  outcome    \* "none", "report", "changed" or "failed"

vars == <<stage, alive, dirty, verified, outcome>>

Init == /\ stage = "starting" /\ alive = FALSE /\ dirty = FALSE
        /\ verified = FALSE /\ outcome = "none"

GiveUp == /\ stage = "starting"
          /\ stage' = "ended" /\ outcome' = "failed"
          /\ UNCHANGED <<alive, dirty, verified>>
Start == /\ stage = "starting"
         /\ stage' = "working"
         /\ UNCHANGED <<alive, dirty, verified, outcome>>
Work == /\ stage = "working"
        /\ alive' \in BOOLEAN
        /\ dirty' \in BOOLEAN /\ (dirty => dirty')
        /\ UNCHANGED <<stage, verified, outcome>>
End == /\ stage = "working" /\ ~alive
       /\ stage' = "ended"
       /\ verified' \in BOOLEAN
       /\ outcome' \in {"report", "changed", "failed"}
       /\ outcome' = "report" => verified' /\ ~dirty
       /\ verified' /\ dirty <=> outcome' = "changed"
       /\ UNCHANGED <<alive, dirty>>

Next == GiveUp \/ Start \/ Work \/ End
Spec == Init /\ [][Next]_vars
=============================================================================
