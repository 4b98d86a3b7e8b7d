----------------------------- MODULE MCSyncUpload -----------------------------
(* Two uploads and two workers over two payment methods and new ones.        *)
EXTENDS SyncUpload, TLC
CONSTANTS r1, r2

Edit(record, at) == [record |-> record, at |-> at]
MCBatches == {<<Edit(r1, 1), Edit("new", 0)>>, <<Edit(r1, 0), Edit(r1, 2)>>}
Symmetry == Permutations(Uploads) \cup Permutations(Workers)
===============================================================================
