------------------------------ MODULE MCSyncQueue ------------------------------
(* Two passes and two phones over a short queue.                             *)
EXTENDS SyncQueue, TLC

Symmetry == Permutations(Phones) \cup Permutations(Passes)
================================================================================
