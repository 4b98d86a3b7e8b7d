----------------------------- MODULE MCDebtLedger -----------------------------
(* The debt ledger on a small instance.  Penalty and payment identifiers are *)
(* interchangeable.                                                          *)
EXTENDS DebtLedger, TLC

Symmetry == Permutations(Penalties) \cup Permutations(Payments)
===============================================================================
