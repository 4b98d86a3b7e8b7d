------------------------------- MODULE RowTotals -------------------------------
(***************************************************************************)
(* Sums over the rows of a table.                                          *)
(***************************************************************************)
EXTENDS Integers, FiniteSetsExt

\* The sum of the amounts of the rows that ids names.
TotalAmount(rows, ids) == MapThenSumSet(LAMBDA id : rows[id].amount, ids)
===============================================================================
