---------------------------- MODULE ReviewLedger ----------------------------
(***************************************************************************)
(* What the state database promises about reviews, whoever writes to it: a *)
(* review attempt has one outcome, for good, and a review is saved in the  *)
(* same step as its attempt completes.  ReviewExecution implements this.   *)
(***************************************************************************)
CONSTANT Runs

VARIABLES outcome,  \* what is on record of each attempt
          saved     \* whether it has a review

ledger == <<outcome, saved>>

LInit == outcome = [r \in Runs |-> "none"] /\ saved = [r \in Runs |-> FALSE]

Begin(r) ==
  /\ outcome[r] = "none" /\ ~saved[r]
  /\ outcome' = [outcome EXCEPT ![r] = "running"]
  /\ UNCHANGED saved

Complete(r) ==
  /\ outcome[r] = "running"
  /\ outcome' = [outcome EXCEPT ![r] = "completed"]
  /\ saved' = [saved EXCEPT ![r] = TRUE]

Fail(r) ==
  /\ outcome[r] = "running"
  /\ outcome' = [outcome EXCEPT ![r] = "failed"]
  /\ UNCHANGED saved

(* Attempts whose owner is gone are closed together.                        *)
Interrupt(S) ==
  /\ \A r \in S : outcome[r] = "running"
  /\ outcome' = [r \in Runs |-> IF r \in S THEN "interrupted" ELSE outcome[r]]
  /\ UNCHANGED saved

(* Retention may forget failures, and nothing else.                         *)
Forget(S) ==
  /\ \A r \in S : outcome[r] = "failed"
  /\ outcome' = [r \in Runs |-> IF r \in S THEN "forgotten" ELSE outcome[r]]
  /\ UNCHANGED saved

(* A review that needs no attempt: nothing to review in the diff.           *)
SaveSkipped(r) ==
  /\ outcome[r] = "none" /\ ~saved[r]
  /\ saved' = [saved EXCEPT ![r] = TRUE]
  /\ UNCHANGED outcome

LNext ==
  \/ \E r \in Runs : Begin(r) \/ Complete(r) \/ Fail(r) \/ SaveSkipped(r)
  \/ \E S \in SUBSET Runs : Interrupt(S) \/ Forget(S)

LSpec == LInit /\ [][LNext]_ledger
=============================================================================
