---------------------------- MODULE MCLoanWorkflow ----------------------------
(* Callers are interchangeable. *)
EXTENDS LoanWorkflow, TLC

MCSymmetry == Permutations(Callers)
================================================================================
