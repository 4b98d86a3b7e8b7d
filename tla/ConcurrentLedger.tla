--------------------------- MODULE ConcurrentLedger ---------------------------
(***************************************************************************)
(* Calls on debts that overlap.  No code takes a row lock when it reads    *)
(* (there is no select_for_update) and the database runs READ COMMITTED:   *)
(* a call reads the debt's row up to three times, each time as last        *)
(* committed, into instances of its own; its first UPDATE locks the row,   *)
(* so from there to its commit no other call writes the row or sees what   *)
(* it writes.  A call is therefore its reads, one step each, and a step    *)
(* for all of its writes, with the handlers of DebtSignals run on the      *)
(* instances it has read.  The two reads of the debt's pre_save receivers, *)
(* which follow one another, are one.  Of uploads there are those that     *)
(* edit payments; one that creates a payment is a call to pay that does    *)
(* not look at the balance.                                                *)
(***************************************************************************)
EXTENDS DebtSignals, SequencesExt

CONSTANTS
  Txns,   \* web requests and Celery workers
  Calls   \* the kinds of call they make

ASSUME CallAssumption ==
  Calls \subseteq {"pay", "charge", "run", "overdue", "accrue", "edit", "correct", "fix"}

VARIABLE txns   \* the call each is in, if any

concurrentVars == <<signalVars, txns>>

\* Reads of the debt before the first UPDATE: the instance, in some calls another, and
\* the row pre_save compares with.
Reads(call) == IF call \in {"accrue", "edit", "correct", "fix"} THEN 2 ELSE 3

Idle == [call |-> "none", debt |-> CHOOSE d \in Debts : TRUE, reads |-> <<>>, alone |-> TRUE]

Loaded(t) == Instance(Head(txns[t].reads))     \* the first instance
Fetched(t) == Instance(txns[t].reads[2])       \* the second
Stored(t) == Last(txns[t].reads)               \* what pre_save compares with

\* The status correct_misoverdue_debts gives an overdue debt.
Correction(r) ==
  IF r.rem <= Eps THEN "paid" ELSE IF r.due >= today THEN "active" ELSE "none"

\* Wrong variant: the fixer looks at overdue debts only.
FixableOverdue(r) == r.rem <= Eps /\ r.status = "overdue"

Fixable(r) == r.rem <= Eps /\ r.status # "paid"

\* What the query that loads the debt, or a check on the debt loaded, asks of it.
Selects(call, d) ==
  /\ Live(d)
  /\ call = "pay" => \E amount \in PayAmounts : amount <= debts[d].rem
  /\ call = "edit" => debts[d].paid <= debts[d].total
  /\ call = "run" => AutoPenalty /\ PenaltyCandidate(d)
  /\ call = "overdue" => debts[d].status = "active" /\ debts[d].due < today /\ debts[d].rem > Eps
  /\ call = "accrue" => debts[d].status \in OpenStatuses /\ debts[d].rem > Eps
                        /\ debts[d].accrued < today
  /\ call = "correct" => debts[d].status = "overdue" /\ Correction(debts[d]) # "none"
  /\ call = "fix" => Fixable(debts[d])

BeginCall(t, call, d) ==
  /\ txns[t].call = "none"
  /\ Selects(call, d)
  /\ txns' = [txns EXCEPT ![t] = [call |-> call, debt |-> d, reads |-> <<debts[d]>>,
                                  alone |-> TRUE]]
  /\ UNCHANGED signalVars

PenaltyToday(d) == \E p \in LivePenalties(d) : penalties[p].date = today

\* A debt that has been charged today is skipped by run_auto_penalties.
ReadAgain(t) ==
  /\ txns[t].call # "none"
  /\ Len(txns[t].reads) < Reads(txns[t].call)
  /\ txns' = [txns EXCEPT ![t] =
       IF txns[t].call = "run" /\ Len(txns[t].reads) = 1 /\ PenaltyToday(txns[t].debt) THEN Idle
       ELSE [txns[t] EXCEPT !.reads = Append(@, debts[txns[t].debt])]]
  /\ UNCHANGED signalVars

\* A commit: the call ends, and it has disturbed whoever else has read the debt.
EndCall(t) ==
  txns' = [u \in Txns |->
             IF u = t THEN Idle
             ELSE IF txns[u].call # "none" /\ txns[u].debt = txns[t].debt
             THEN [txns[u] EXCEPT !.alone = FALSE]
             ELSE txns[u]]

Writes(t, call) ==
  /\ txns[t].call = call
  /\ Len(txns[t].reads) = Reads(call)
  /\ EndCall(t)
  /\ UNCHANGED <<today, entered, sent>>

FreePayments == {p \in Payments : payments[p].state = "none"}

\* Wrong variant: saving the payment as confirmed applies it once more.
WritePaymentTwice(t) ==
  /\ Writes(t, "pay")
  /\ FreePayments # {}
  /\ \E amount \in PayAmounts :
       LET p == CHOOSE p \in FreePayments : TRUE
           i == [Fetched(t) EXCEPT !.data.paid = @ + amount + amount]
       IN  /\ amount <= Loaded(t).data.rem
           /\ Store(SaveOver(Saves, Plain(txns[t].debt), Stored(t), i, {"paid", "rem"}).w)
           /\ payments' = [payments EXCEPT ![p] =
                             [state |-> "live", debt |-> txns[t].debt, amount |-> amount]]
  /\ UNCHANGED interest

\* on_confirm and apply_payment; which free row takes the payment does not matter.
WritePayment(t) ==
  /\ Writes(t, "pay")
  /\ FreePayments # {}
  /\ \E amount \in PayAmounts :
       LET p == CHOOSE p \in FreePayments : TRUE
           i == [Fetched(t) EXCEPT !.data.paid = @ + amount]
       IN  /\ amount <= Loaded(t).data.rem
           /\ Store(SaveOver(Saves, Plain(txns[t].debt), Stored(t), i, {"paid", "rem"}).w)
           /\ payments' = [payments EXCEPT ![p] =
                             [state |-> "live", debt |-> txns[t].debt, amount |-> amount]]
  /\ UNCHANGED interest

\* Wrong variant: the service leaves the addition to on_collect.
WritePenaltyOnce(t, auto) ==
  /\ \E p \in FreePenalties, amount \in PenaltyAmounts :
       Store(InsertPenalty(Saves, Plain(txns[t].debt), Stored(t), Fetched(t), Loaded(t), p,
                           NewPenalty(txns[t].debt, amount, today, auto)).w)
  /\ UNCHANGED <<payments, interest>>

\* PenaltyTransactionService.create, for a user and for run_auto_penalties.  Nothing here reads
\* whether a penalty is automatic; a user's is taken not to be, so that those of runs are told
\* apart.
WritePenalty(t, auto) ==
  /\ \E p \in FreePenalties, amount \in PenaltyAmounts :
       Store(ChargePenalty(Plain(txns[t].debt), Stored(t), Fetched(t), Loaded(t), p,
                           NewPenalty(txns[t].debt, amount, today, auto)))
  /\ UNCHANGED <<payments, interest>>

WriteCharge(t) == Writes(t, "charge") /\ WritePenalty(t, FALSE)
WriteRun(t) == Writes(t, "run") /\ WritePenalty(t, TRUE)

WriteOverdue(t) ==
  /\ Writes(t, "overdue")
  /\ \E w \in Worlds(txns[t].debt) : Store(OnOverdueOver(Saves, w, Stored(t), Fetched(t)))
  /\ UNCHANGED <<payments, interest>>

\* The interest is what the accrual adds, whatever the row has become since.
WriteAccrual(t) ==
  /\ Writes(t, "accrue")
  /\ \E x \in InterestAmounts :
       LET d == txns[t].debt
           i == [Loaded(t) EXCEPT !.data.rem = @ + x, !.data.accrued = today]
       IN  /\ interest[d] + x <= MaxInterest
           /\ Store(SaveOver(Saves, Plain(d), Stored(t), i, {"rem", "accrued"}).w)
           /\ interest' = [interest EXCEPT ![d] = @ + x]
  /\ UNCHANGED payments

\* DebtService.update of a field the ledger does not show, such as the name.
WriteEdit(t) ==
  /\ Writes(t, "edit")
  /\ Store(SaveOver(Saves, Plain(txns[t].debt), Stored(t), Loaded(t), AllFields).w)
  /\ UNCHANGED <<payments, interest>>

WriteStatus(t, status) ==
  /\ Store(SaveOver(Saves, Plain(txns[t].debt), Stored(t), [Loaded(t) EXCEPT !.data.status = status],
                    {"status"}).w)
  /\ UNCHANGED <<payments, interest>>

WriteCorrection(t) == Writes(t, "correct") /\ WriteStatus(t, Correction(Loaded(t).data))
WriteFix(t) == Writes(t, "fix") /\ WriteStatus(t, "paid")

Write(t) ==
  \/ WritePayment(t) \/ WriteCharge(t) \/ WriteRun(t)
  \/ WriteOverdue(t) \/ WriteAccrual(t) \/ WriteEdit(t)
  \/ WriteCorrection(t) \/ WriteFix(t)

\* A call with no row left to record it in (a bound) fails and rolls back.
RollBack(t) ==
  /\ txns[t].call # "none"
  /\ Len(txns[t].reads) = Reads(txns[t].call)
  /\ \/ txns[t].call = "pay" /\ FreePayments = {}
     \/ txns[t].call \in {"charge", "run"} /\ FreePenalties = {}
     \/ txns[t].call = "accrue"
        /\ \A x \in InterestAmounts : interest[txns[t].debt] + x > MaxInterest
  /\ txns' = [txns EXCEPT ![t] = Idle]
  /\ UNCHANGED signalVars

\* It is the last day.  Nothing has happened to a debt since its creation, except that it
\* was overdue if its due date is still to come: a user has put that date off.
ConcurrentInit ==
  /\ \E total \in Totals, due \in DueDates :
       debts = [d \in Debts |-> [state |-> "live", total |-> total, paid |-> 0, rem |-> total,
                                 status |-> IF due < MaxDay THEN "active" ELSE "overdue",
                                 due |-> due, accrued |-> 0]]
  /\ penalties = [p \in Penalties |-> NoPenalty]
  /\ payments = [p \in Payments |-> NoPayment]
  /\ today = MaxDay
  /\ interest = [d \in Debts |-> 0]
  /\ entered = [d \in Debts |-> 0]
  /\ sent = <<>> /\ outcome = "done"
  /\ txns = [t \in Txns |-> Idle]

\* An upload that edits a payment writes its row alone, and nothing that a call reads.
EditPayment(p) == UploadPayment(p) /\ UNCHANGED <<sent, outcome, txns>>

ConcurrentNext ==
  \/ \E t \in Txns :
       \/ \E call \in Calls, d \in Debts : BeginCall(t, call, d)
       \/ ReadAgain(t)
       \/ Write(t)
       \/ RollBack(t)
  \/ \E p \in Payments : EditPayment(p)

ConcurrentSpec == ConcurrentInit /\ [][ConcurrentNext]_concurrentVars

\* What ReadAgain, Write and RollBack do to the call of t, one of which is always possible.
Advance(t) ==
  /\ txns[t].call # "none"
  /\ \/ txns' = [txns EXCEPT ![t].reads = Append(@, debts[txns[t].debt])]
     \/ txns' = [txns EXCEPT ![t] = Idle]
     \/ EndCall(t)

\* A call once begun ends.
FairSpec == ConcurrentSpec /\ \A t \in Txns : WF_txns(Advance(t))

(***************************************************************************)
(* Properties.                                                             *)
(***************************************************************************)
(* However calls overlap, a debt never shows more as paid than its         *)
(* payments: a lost write may hide a payment, it never counts one twice.   *)
(* (What uploads have since taken from payments, entered keeps count of.)  *)
NeverOvercredited == \A d \in Debts : debts[d].paid <= entered[d] + PaymentTotal(d)

(* A call whose reads no other call's commit has overtaken does what the   *)
(* ledger says of it run alone.  (The ledger has no zero-balance fixer:    *)
(* calls that do not overlap leave it nothing to fix.)                     *)
IsolatedIsSerial ==
  [][\A t \in Txns : Write(t) /\ txns[t].alone /\ txns[t].call # "fix" => Next]_concurrentVars

(* Overlapping calls can leave a debt with nothing to pay in an open       *)
(* status.  If the fixer is started again and again while it has work, the *)
(* debt does not stay so.  (No schedule starts it under the name by which  *)
(* workers know it; an administrator does.)                                *)
FixerIsStarted == \A d \in Debts : SF_concurrentVars(\E t \in Txns : BeginCall(t, "fix", d))

PaidOffIsMarked ==
  FixerIsStarted =>
    \A d \in Debts : (debts[d].rem <= Eps) ~> (debts[d].status = "paid" \/ debts[d].rem > Eps)

(* Runs of the automatic penalties skip a debt that already has a penalty   *)
(* today, so it gets one a day.                                            *)
OneRunPenaltyPerDay ==
  \A p, q \in Penalties :
    /\ penalties[p].state = "live" /\ penalties[q].state = "live"
    /\ penalties[p].auto /\ penalties[q].auto
    /\ penalties[p].debt = penalties[q].debt /\ penalties[p].date = penalties[q].date
    => p = q
===============================================================================
