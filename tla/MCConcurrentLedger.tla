-------------------------- MODULE MCConcurrentLedger --------------------------
(* Overlapping calls on a small instance.  Calls, penalties and payments are *)
(* interchangeable.                                                          *)
EXTENDS ConcurrentLedger, TLC

Symmetry ==
  Permutations(Txns) \cup Permutations(Penalties) \cup Permutations(Payments)
===============================================================================
