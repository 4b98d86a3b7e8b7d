---------------------------- MODULE MCDebtSignals ----------------------------
(* The handlers on a small instance.  Penalty identifiers are                *)
(* interchangeable.                                                          *)
EXTENDS DebtSignals, TLC

Symmetry == Permutations(Penalties)
===============================================================================
