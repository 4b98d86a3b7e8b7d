------------------------------ MODULE DebtLedger ------------------------------
(***************************************************************************)
(* The money side of the collection backend: debts, the penalties charged  *)
(* on them, the payments recorded against them and the daily jobs that     *)
(* accrue interest, mark debts overdue and charge penalties.               *)
(*                                                                         *)
(* One action is one committed service call or one per-debt step of a job, *)
(* with every nested save the Django signals make on its behalf.  Amounts  *)
(* are centavos and dates are day numbers.  Interest, penalty and payment  *)
(* amounts are drawn from small sets instead of being computed from rates. *)
(* Calls that raise are rolled back and leave no step.                     *)
(*                                                                         *)
(* Of what phones upload past the services, payments are here.  Debts and  *)
(* penalties are not: an upload types any balance and status into a debt,  *)
(* and enters, edits or deletes a penalty whose charge nobody adds or      *)
(* takes back, so nothing is said here of debts that were uploaded so.     *)
(***************************************************************************)
EXTENDS DebtBalance, RowTotals, FiniteSets

CONSTANTS
  Debts,            \* debt identifiers
  Penalties,        \* penalty identifiers (a bound on the rows at one time)
  Payments,         \* payment identifiers (a bound on the rows ever recorded)
  Totals,           \* total_amount values a user enters
  PaidEdits,        \* paid_amount values a user enters
  PayAmounts,       \* amounts of payments and of forgiveness
  PenaltyAmounts,   \* amounts of penalties, entered or computed
  InterestAmounts,  \* interest one accrual may add, after rounding
  DueDates,         \* due dates a user enters
  AccrualDates,     \* last_interest_accrual_date values a user enters
  PenaltyDates,     \* penalty_date values a user enters
  PaymentDates,     \* payment_date values a user enters
  MaxDay,           \* bound: the last day
  MaxInterest,      \* bound: interest accrued on a debt over its life
  Grace,            \* setting penaltyGraceDays
  AutoPenalty,      \* setting enableAutoPenalty
  PartialPayment,   \* setting enablePartialPayment
  AllowedStatuses   \* setting allowedLoanStatuses


(* A deployment whose allowed statuses leave out "paid" rolls back every   *)
(* settlement; the model is of the others.                                 *)
ASSUME ParameterAssumption ==
  /\ MaxDay \in Nat /\ MaxInterest \in Nat /\ Grace \in Nat
  /\ Debts # {}
  /\ Totals \subseteq Nat \ {0} /\ PaidEdits \subseteq Nat
  /\ PayAmounts \subseteq Nat \ {0} /\ PenaltyAmounts \subseteq Nat \ {0}
  /\ InterestAmounts \subseteq Nat \ {0} /\ DueDates \subseteq Int
  /\ AccrualDates \subseteq Int /\ PenaltyDates \subseteq Int /\ PaymentDates \subseteq Int
  /\ AutoPenalty \in BOOLEAN /\ PartialPayment \in BOOLEAN
  /\ "paid" \in AllowedStatuses /\ AllowedStatuses \subseteq Statuses

VARIABLES
  debts,      \* [Debts -> row]; accrued is the day interest was last counted to
  penalties,  \* [Penalties -> row]
  payments,   \* [Payments -> row]
  today,      \* the current day
  interest,   \* history: interest added to the balance of each debt so far
  entered     \* history: the part of paid no payment on record accounts for: what users
              \* typed in, and what uploads have taken from payments since they were applied

vars == <<debts, penalties, payments, today, interest, entered>>

RowState == {"none", "live", "deleted"}

DebtRow == [state: RowState, total: Int, paid: Nat, rem: Int,
            status: Statuses, due: Int, accrued: Int]
PenaltyRow == [state: RowState, debt: Debts, amount: Nat, date: Int, auto: BOOLEAN]
PaymentRow == [state: {"none", "live"}, debt: Debts, amount: Nat]

NoDebt == [state |-> "none", total |-> 0, paid |-> 0, rem |-> 0,
           status |-> "active", due |-> 0, accrued |-> 0]

NoPenalty == [state |-> "none", debt |-> CHOOSE d \in Debts : TRUE, amount |-> 0,
              date |-> 0, auto |-> FALSE]
NoPayment == [state |-> "none", debt |-> CHOOSE d \in Debts : TRUE, amount |-> 0]

Exists(d) == debts[d].state # "none"
Live(d) == debts[d].state = "live"
LivePenalties(d) == {p \in Penalties : penalties[p].state = "live" /\ penalties[p].debt = d}
FreePenalties == {p \in Penalties : penalties[p].state = "none"}
PaymentsOf(d) == {p \in Payments : payments[p].state = "live" /\ payments[p].debt = d}
PaymentTotal(d) == TotalAmount(payments, PaymentsOf(d))
PenaltyTotal(d) == TotalAmount(penalties, LivePenalties(d))

(***************************************************************************)
(* Saving a debt, with the transition its new status calls for.            *)
(***************************************************************************)
NewPenalty(d, amount, date, auto) ==
  [state |-> "live", debt |-> d, amount |-> amount, date |-> date, auto |-> auto]

PenaltySinceDue(d, r) == \E p \in LivePenalties(d) : penalties[p].date >= r.due
PastGrace(r) == today - r.due > Grace

\* on_overdue, from a row r whose status has just become overdue.
EnterOverdue(d, r) ==
  /\ "overdue" \in AllowedStatuses
  /\ IF AutoPenalty /\ PastGrace(r) /\ ~PenaltySinceDue(d, r)
     THEN \E p \in FreePenalties, a \in PenaltyAmounts :
            /\ penalties' = [penalties EXCEPT ![p] = NewPenalty(d, a, today, TRUE)]
            /\ debts' = [debts EXCEPT ![d] = Charged(r, a)]
     ELSE /\ debts' = [debts EXCEPT ![d] = r]
          /\ UNCHANGED penalties

\* Saving row new over the stored row of d: settlement first, else the status transition.
SaveDebt(d, new) ==
  LET r == Recalculated(debts[d], new)
      changed == r.status # debts[d].status
  IN  \/ /\ Settles(r)
         /\ debts' = [debts EXCEPT ![d] = Settled(r)]
         /\ UNCHANGED penalties
      \/ /\ ~Settles(r) /\ (changed => r.status \in {"paid", "defaulted"} \cap AllowedStatuses)
         /\ debts' = [debts EXCEPT ![d] = r]
         /\ UNCHANGED penalties
      \/ /\ ~Settles(r) /\ changed /\ r.status = "active" /\ "active" \in AllowedStatuses
         /\ debts' = [debts EXCEPT ![d] = Restored(r)]
         /\ UNCHANGED penalties
      \/ /\ ~Settles(r) /\ changed /\ r.status = "overdue"
         /\ EnterOverdue(d, r)

(***************************************************************************)
(* DebtService and ForgivenessService.                                     *)
(***************************************************************************)
CreateDebt(d) ==
  /\ ~Exists(d)
  /\ \E total \in Totals, paid \in PaidEdits, status \in Statuses, due \in DueDates,
        accrued \in AccrualDates \cup {today} :
       /\ debts' = [debts EXCEPT ![d] =
            Settled([state |-> "live", total |-> total, paid |-> paid,
                     rem |-> Max0(total - paid), status |-> status,
                     due |-> due, accrued |-> accrued])]
       /\ entered' = [entered EXCEPT ![d] = paid]
  /\ interest' = [interest EXCEPT ![d] = 0]
  /\ UNCHANGED <<penalties, payments, today>>

UpdateDebt(d) ==
  /\ Live(d)
  /\ \E total \in Totals \cup {debts[d].total}, paid \in PaidEdits \cup {debts[d].paid},
        status \in Statuses, due \in DueDates \cup {debts[d].due},
        accrued \in AccrualDates \cup {debts[d].accrued} :
       /\ paid <= total
       /\ SaveDebt(d, [debts[d] EXCEPT !.total = total, !.paid = paid, !.status = status,
                                       !.due = due, !.accrued = accrued])
       /\ entered' = [entered EXCEPT ![d] = @ + paid - debts[d].paid]
  /\ UNCHANGED <<payments, today, interest>>

CorrectTotal(d) ==
  /\ Live(d)
  /\ \E total \in Totals :
       /\ total >= debts[d].paid
       /\ SaveDebt(d, [debts[d] EXCEPT !.total = total])
  /\ UNCHANGED <<payments, today, interest, entered>>

DeleteDebt(d) ==
  /\ Live(d)
  /\ debts' = [debts EXCEPT ![d] = Settled([@ EXCEPT !.state = "deleted"])]
  /\ UNCHANGED <<penalties, payments, today, interest, entered>>

RestoreDebt(d) ==
  /\ debts[d].state = "deleted"
  /\ debts' = [debts EXCEPT ![d] = Settled([@ EXCEPT !.state = "live"])]
  /\ UNCHANGED <<penalties, payments, today, interest, entered>>

\* Wrong variant: payments do not stop the deletion.
PurgeDebtWithPayments(d) ==
  /\ Exists(d)
  /\ debts' = [debts EXCEPT ![d] = NoDebt]
  /\ penalties' = [p \in Penalties |-> IF penalties[p].debt = d THEN NoPenalty
                                       ELSE penalties[p]]
  /\ interest' = [interest EXCEPT ![d] = 0]
  /\ entered' = [entered EXCEPT ![d] = 0]
  /\ UNCHANGED <<payments, today>>

\* permanent_delete takes the penalties along and is refused while payments exist.
PurgeDebt(d) ==
  /\ Exists(d)
  /\ PaymentsOf(d) = {}
  /\ debts' = [debts EXCEPT ![d] = NoDebt]
  /\ penalties' = [p \in Penalties |-> IF penalties[p].debt = d
                                       THEN NoPenalty
                                       ELSE penalties[p]]
  /\ interest' = [interest EXCEPT ![d] = 0]
  /\ entered' = [entered EXCEPT ![d] = 0]
  /\ UNCHANGED <<payments, today>>

\* The service sets total and remaining; the save recomputes remaining from total and paid.
Forgive(d) ==
  /\ Live(d)
  /\ \E amount \in PayAmounts :
       /\ amount <= debts[d].total
       /\ SaveDebt(d, [debts[d] EXCEPT !.total = @ - amount])
  /\ UNCHANGED <<payments, today, interest, entered>>

(***************************************************************************)
(* Interest and payments.                                                  *)
(***************************************************************************)
\* The rows apply_accrual may leave: interest that rounds to nothing changes nothing.
Accruals(r, asOf) ==
  IF r.status \in OpenStatuses /\ r.rem > Eps /\ r.accrued < asOf
  THEN {r} \cup {WithBalance([r EXCEPT !.accrued = asOf], r.rem + i) : i \in InterestAmounts}
  ELSE {r}

RecordInterest(d, r) ==
  /\ interest' = [interest EXCEPT ![d] = @ + r.rem - debts[d].rem]
  /\ interest'[d] <= MaxInterest

\* One debt of run_daily_accrual.
AccrueDaily(d) ==
  /\ Live(d)
  /\ \E r \in Accruals(debts[d], today) \ {debts[d]} :
       /\ debts' = [debts EXCEPT ![d] = r]
       /\ RecordInterest(d, r)
  /\ UNCHANGED <<penalties, payments, today, entered>>

\* The confirmation that the first save of a payment triggers, on a row r of its debt.
Confirm(d, p, r, amount) ==
  LET paidOff == Settled(Recalculated(r, [r EXCEPT !.paid = @ + amount]))
  IN  /\ PartialPayment \/ paidOff.rem <= Eps
      /\ debts' = [debts EXCEPT ![d] = paidOff]
      /\ payments' = [payments EXCEPT ![p] = [state |-> "live", debt |-> d, amount |-> amount]]
      /\ RecordInterest(d, r)

\* PaymentTransactionService.create.
RecordPayment(d, p) ==
  /\ Live(d)
  /\ payments[p].state = "none"
  /\ \E date \in PaymentDates \cup {today}, amount \in PayAmounts : \E r \in Accruals(debts[d], date) :
       amount <= r.rem /\ Confirm(d, p, r, amount)
  /\ UNCHANGED <<penalties, today, entered>>

\* An upload that creates a payment: no accrual, and no look at the balance.
UploadNewPayment(d, p) ==
  /\ Live(d)
  /\ payments[p].state = "none"
  /\ \E amount \in PayAmounts : Confirm(d, p, debts[d], amount)
  /\ UNCHANGED <<penalties, today, entered>>

\* What payment row y says was paid for d.
PaidBy(y, d) == IF y.debt = d THEN y.amount ELSE 0

\* An upload that edits a payment: its row is saved, and no receiver looks at what changed.
UploadPayment(p) ==
  /\ payments[p].state = "live"
  /\ \E d \in Debts, amount \in PayAmounts \cup {payments[p].amount} :
       LET new == [payments[p] EXCEPT !.debt = d, !.amount = amount]
       IN  /\ Exists(d)
           /\ payments' = [payments EXCEPT ![p] = new]
           /\ entered' = [e \in Debts |-> entered[e] + PaidBy(payments[p], e) - PaidBy(new, e)]
  /\ UNCHANGED <<debts, penalties, today, interest>>

(***************************************************************************)
(* PenaltyTransactionService.                                              *)
(***************************************************************************)
CreatePenalty(d) ==
  /\ Live(d)
  /\ \E p \in FreePenalties, amount \in PenaltyAmounts,
        date \in PenaltyDates \cup {today}, auto \in BOOLEAN :
       /\ penalties' = [penalties EXCEPT ![p] = NewPenalty(d, amount, date, auto)]
       /\ debts' = [debts EXCEPT ![d] = Charged(@, amount)]
  /\ UNCHANGED <<payments, today, interest, entered>>

\* The amount is adjusted on the balance, then the penalty's save resets the balance.
UpdatePenalty(p) ==
  /\ penalties[p].state = "live"
  /\ \E amount \in PenaltyAmounts \cup {penalties[p].amount},
        date \in PenaltyDates \cup {penalties[p].date}, auto \in BOOLEAN :
       /\ penalties' = [penalties EXCEPT ![p].amount = amount, ![p].date = date, ![p].auto = auto]
       /\ debts' = [debts EXCEPT ![penalties[p].debt] =
            IF amount = penalties[p].amount
            THEN Reset(@)
            ELSE Reset(WithBalance(@, Max0(@.rem - penalties[p].amount + amount)))]
  /\ UNCHANGED <<payments, today, interest, entered>>

DeletePenalty(p) ==
  /\ penalties[p].state = "live"
  /\ penalties' = [penalties EXCEPT ![p].state = "deleted"]
  /\ debts' = [debts EXCEPT ![penalties[p].debt] =
                 Reset(WithBalance(@, Max0(@.rem - penalties[p].amount)))]
  /\ UNCHANGED <<payments, today, interest, entered>>

RestorePenalty(p) ==
  /\ penalties[p].state = "deleted"
  /\ penalties' = [penalties EXCEPT ![p].state = "live"]
  /\ debts' = [debts EXCEPT ![penalties[p].debt] = Charged(@, penalties[p].amount)]
  /\ UNCHANGED <<payments, today, interest, entered>>

\* Deleting the row itself saves no penalty, so nothing resets the balance.
PurgePenalty(p) ==
  /\ penalties[p].state # "none"
  /\ penalties' = [penalties EXCEPT ![p] = NoPenalty]
  /\ debts' = IF penalties[p].state = "live"
              THEN [debts EXCEPT ![penalties[p].debt] =
                      WithBalance(@, Max0(@.rem - penalties[p].amount))]
              ELSE debts
  /\ UNCHANGED <<payments, today, interest, entered>>

(***************************************************************************)
(* Scheduled jobs, one debt at a time.                                     *)
(***************************************************************************)
PenaltyCandidate(d) ==
  /\ Live(d)
  /\ debts[d].status \in OpenStatuses
  /\ debts[d].rem > Eps
  /\ debts[d].due < today /\ PastGrace(debts[d])

ChargeAutoPenalty(d) ==
  /\ \E p \in FreePenalties, amount \in PenaltyAmounts :
       /\ penalties' = [penalties EXCEPT ![p] = NewPenalty(d, amount, today, TRUE)]
       /\ debts' = [debts EXCEPT ![d] = Charged(@, amount)]
  /\ UNCHANGED <<payments, today, interest, entered>>

\* Wrong variant: no look at the penalties already there.
ApplyAutoPenaltiesAgain(d) ==
  /\ AutoPenalty
  /\ PenaltyCandidate(d)
  /\ ChargeAutoPenalty(d)

\* The nightly task charges a debt once per due date.
ApplyAutoPenalties(d) ==
  /\ AutoPenalty
  /\ PenaltyCandidate(d)
  /\ ~PenaltySinceDue(d, debts[d])
  /\ ChargeAutoPenalty(d)

\* The endpoint charges a debt once per day.
RunAutoPenalties(d) ==
  /\ AutoPenalty
  /\ PenaltyCandidate(d)
  /\ ~\E p \in LivePenalties(d) : penalties[p].date = today
  /\ ChargeAutoPenalty(d)

\* Wrong variant: every debt past due with a balance, paid ones included.
UpdateOverdueStatusesOfAny(d) ==
  /\ Live(d)
  /\ debts[d].status # "overdue"
  /\ debts[d].due < today
  /\ debts[d].rem > Eps
  /\ EnterOverdue(d, [debts[d] EXCEPT !.status = "overdue"])
  /\ UNCHANGED <<payments, today, interest, entered>>

UpdateOverdueStatuses(d) ==
  /\ Live(d)
  /\ debts[d].status = "active"
  /\ debts[d].due < today
  /\ debts[d].rem > Eps
  /\ EnterOverdue(d, [debts[d] EXCEPT !.status = "overdue"])
  /\ UNCHANGED <<payments, today, interest, entered>>

CorrectMisoverdue(d) ==
  /\ Live(d)
  /\ debts[d].status = "overdue"
  /\ debts[d].rem <= Eps \/ debts[d].due >= today
  /\ SaveDebt(d, [debts[d] EXCEPT !.status =
                    IF debts[d].rem <= Eps THEN "paid" ELSE "active"])
  /\ UNCHANGED <<payments, today, interest, entered>>

NextDay ==
  /\ today < MaxDay
  /\ today' = today + 1
  /\ UNCHANGED <<debts, penalties, payments, interest, entered>>

Init ==
  /\ debts = [d \in Debts |-> NoDebt]
  /\ penalties = [p \in Penalties |-> NoPenalty]
  /\ payments = [p \in Payments |-> NoPayment]
  /\ today = 0
  /\ interest = [d \in Debts |-> 0]
  /\ entered = [d \in Debts |-> 0]

\* Calls on a debt that do not say what status it should have.
StatuslessCall(d) ==
  \/ CorrectTotal(d) \/ Forgive(d) \/ DeleteDebt(d) \/ RestoreDebt(d) \/ CreatePenalty(d)
  \/ \E p \in Payments : RecordPayment(d, p) \/ UploadNewPayment(d, p)

DebtCall(d) == CreateDebt(d) \/ UpdateDebt(d) \/ PurgeDebt(d) \/ StatuslessCall(d)

PenaltyCall(p) ==
  UpdatePenalty(p) \/ DeletePenalty(p) \/ RestorePenalty(p) \/ PurgePenalty(p)

Job(d) ==
  \/ AccrueDaily(d) \/ ApplyAutoPenalties(d) \/ RunAutoPenalties(d)
  \/ UpdateOverdueStatuses(d) \/ CorrectMisoverdue(d)

Next ==
  \/ \E d \in Debts : DebtCall(d) \/ Job(d)
  \/ \E p \in Penalties : PenaltyCall(p)
  \/ \E p \in Payments : UploadPayment(p)
  \/ NextDay

Spec == Init /\ [][Next]_vars

(***************************************************************************)
(* Properties.                                                             *)
(***************************************************************************)
TypeOK ==
  /\ debts \in [Debts -> DebtRow]
  /\ penalties \in [Penalties -> PenaltyRow]
  /\ payments \in [Payments -> PaymentRow]
  /\ today \in Nat
  /\ interest \in [Debts -> Int]
  /\ entered \in [Debts -> Int]

(* A debt whose balance is at most Eps is marked paid after every call and *)
(* job, so the nightly zero-balance fixer and the "fully paid" branch of   *)
(* the overdue corrector find nothing to do.                               *)
SettledIsPaid ==
  \A d \in Debts : Exists(d) /\ debts[d].rem <= Eps => debts[d].status = "paid"

(* What a debt shows as paid is what users typed in plus the payments on   *)
(* record for it: no call, job or signal takes or invents money.  The one  *)
(* exception is an upload that edits a payment, which the debt does not    *)
(* notice; entered keeps count of the difference it makes, so that the     *)
(* equation says of every other step that it makes none.  (A payment that  *)
(* is uploaded as already deleted is left out: it is applied, and is on no *)
(* record.)                                                                *)
PaidIsBacked ==
  \A d \in Debts : Exists(d) =>
    debts[d].paid = entered[d] + PaymentTotal(d)

(* No sequence of resets, charges and reversals asks a borrower for more   *)
(* than the unpaid principal, the penalties now in force and the interest  *)
(* ever accrued, as long as no phone uploads the debt or a penalty of it.  *)
NeverOvercharged ==
  \A d \in Debts : Exists(d) =>
    debts[d].rem <= Max0(Outstanding(debts[d])) + interest[d] + PenaltyTotal(d)

ChargedTwice(d) ==
  \E p, q \in LivePenalties(d) :
    p # q /\ penalties[p].auto /\ penalties[q].auto /\ penalties[p].date = penalties[q].date

\* What may charge an automatic penalty of its own accord.
Charges(d) == Job(d) \/ UpdateDebt(d) \/ CorrectTotal(d) \/ Forgive(d)

(* The overdue transition, the nightly task and the endpoint each charge   *)
(* automatic penalties under a check of their own; together they never     *)
(* charge a debt twice in a day.  Two automatic penalties of one date come *)
(* only from a user who enters one as automatic, restores one, or edits    *)
(* one: no job is ever the step that makes them two.                       *)
OneAutoPenaltyPerDay ==
  [][\A d \in Debts : ChargedTwice(d)' /\ ~ChargedTwice(d) =>
       /\ CreatePenalty(d) \/ \E p \in Penalties : RestorePenalty(p) \/ UpdatePenalty(p)
       /\ ~Charges(d)]_vars

(* Once paid, a debt is reopened only by a user editing its status: no     *)
(* payment, forgiveness, correction, penalty call or job takes it out of   *)
(* "paid", whatever balance it comes to have.                              *)
OnlyUsersReopen ==
  [][\A d \in Debts : debts[d].status = "paid" /\ debts'[d].status # "paid" =>
       /\ ~StatuslessCall(d) /\ ~Job(d)
       /\ ~\E p \in Penalties : PenaltyCall(p)]_vars

(* A payment takes off the balance no more than its own amount: interest   *)
(* and penalties charged before it stay due.                               *)
ChargesOutlivePayments ==
  [][\A d \in Debts, p \in Payments :
       RecordPayment(d, p) => debts'[d].rem >= debts[d].rem - payments'[p].amount]_vars
===============================================================================
