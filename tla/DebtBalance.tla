----------------------------- MODULE DebtBalance -----------------------------
(***************************************************************************)
(* What saving a debt or one of its penalties does to the debt's row: the  *)
(* net effect of the Django signals, as functions from row to row.  A row  *)
(* has at least the fields total, paid, rem and status.                    *)
(***************************************************************************)
EXTENDS Integers

CONSTANT Eps   \* balances up to Eps count as zero (0.01 in the code)

ASSUME EpsAssumption == Eps \in Nat

Statuses == {"active", "paid", "overdue", "defaulted"}
OpenStatuses == {"active", "overdue"}

Max0(x) == IF x < 0 THEN 0 ELSE x
Outstanding(r) == r.total - r.paid

\* pre_save: the balance follows total and paid when either differs from the stored row.
Recalculated(old, new) ==
  IF old.total # new.total \/ old.paid # new.paid
  THEN [new EXCEPT !.rem = Max0(Outstanding(new))]
  ELSE new

\* Wrong variant: a debt already marked paid is settled again.
SettlesAgain(r) == r.rem <= Eps

\* post_save settles a debt whose balance is at most Eps.
Settles(r) == r.rem <= Eps /\ r.status # "paid"

\* Wrong variant: a status outside the model's choices.
SettledMisspelt(r) == IF Settles(r) THEN [r EXCEPT !.status = "settled"] ELSE r

\* Settling marks the debt paid.
Settled(r) == IF Settles(r) THEN [r EXCEPT !.status = "paid"] ELSE r

\* Wrong variant: a queryset update, which sends no signal.
WithBalanceUnsignalled(r, x) == [r EXCEPT !.rem = x]

\* A save that writes only the balance.
WithBalance(r, x) == Settled([r EXCEPT !.rem = x])

\* PenaltyTransaction.save: every save of a penalty resets its debt's balance, unclamped.
Reset(r) == WithBalance(r, Outstanding(r))

\* Wrong variant: on_collect's addition survives next to the service's.
ChargedOverCollected(r, amount) == WithBalance(r, r.rem + amount + amount)

\* A new penalty: the reset, then the amount on top.
Charged(r, amount) == WithBalance(Reset(r), Outstanding(r) + amount)

\* on_restore_to_active also recomputes the balance.
Restored(r) == Reset([r EXCEPT !.status = "active"])
===============================================================================
