----------------------------- MODULE DebtSignals -----------------------------
(***************************************************************************)
(* The calls of DebtLedger handler by handler: every save of a debt or a   *)
(* penalty runs its pre_save and post_save receivers, whose transitions    *)
(* fetch the debt again and save it in turn.  A call carries a world: the  *)
(* rows it has written so far, the notices it has sent and whether it has  *)
(* raised.  A Python instance is its own copy of the row (data), the flag  *)
(* _skip_recalc (skip) and the row captured before its last save (old).    *)
(*                                                                         *)
(* Handlers recur through the saves they make.  A handler therefore takes  *)
(* as its argument save the function that does the saves nested in it, and *)
(* Saves nests them as deep as the receivers ever do; a deeper one would   *)
(* be recursion without end, and ends the call as Python does.             *)
(*                                                                         *)
(* The module shares its variables with DebtLedger, which it implements.   *)
(***************************************************************************)
EXTENDS DebtLedger, Sequences, Functions

VARIABLES
  sent,     \* notices the last call sent to borrowers, in order
  outcome   \* whether the last call returned, raised or recurred without end

signalVars == <<debts, penalties, payments, today, interest, entered, sent, outcome>>

AllFields == DOMAIN NoDebt

\* A call on debt d; p and amount are what an automatic penalty would get.
World(d, p, amount) ==
  [row |-> debts[d], penalties |-> penalties, debt |-> d, free |-> p, amount |-> amount,
   sent |-> <<>>, outcome |-> "done"]
Plain(d) == World(d, "none", 0)

Instance(row) == [data |-> row, skip |-> FALSE, old |-> row]
Fetch(w) == Instance(w.row)
Send(w, notice) == [w EXCEPT !.sent = Append(@, notice)]
End(w, how) == [w EXCEPT !.outcome = IF @ = "done" THEN how ELSE @]
Raise(w) == End(w, "raised")
CheckAllowed(w, status) == IF status \in AllowedStatuses THEN w ELSE Raise(w)

(***************************************************************************)
(* Receivers of Debt and the transitions they trigger.                     *)
(***************************************************************************)
Notices == {"paid", "overdue", "defaulted", "restored", "forgiveness", "penalty", "payment"}
Outcomes == {"done", "raised", "endless"}
WorldType == [row : DebtRow, penalties : [Penalties -> PenaltyRow], debt : Debts,
              free : Penalties \cup {"none"}, amount : Nat, sent : Seq(Notices),
              outcome : Outcomes]
InstanceType == [data : DebtRow, skip : BOOLEAN, old : DebtRow]

\* What is saved: the given fields of instance i, the row stored having been read before.
\* The save returns the world and the instance after it.
Situations == [w : WorldType, stored : DebtRow, i : InstanceType, fields : SUBSET AllFields]

SaveOver(save, w, stored, i, fields) ==
  save[[w |-> w, stored |-> stored, i |-> i, fields |-> fields]]
Save(save, w, i, fields) == SaveOver(save, w, w.row, i, fields)

\* The transitions save an instance of their own with the new status.
SaveStatusOver(save, w, stored, i, status) ==
  SaveOver(save, CheckAllowed(w, status), stored, [i EXCEPT !.data.status = status], AllFields)
SaveStatus(save, w, status) == SaveStatusOver(save, w, w.row, Fetch(w), status)

OnPaid(save, w) == Send(SaveStatus(save, w, "paid").w, "paid")

OnDefaulted(save, w) == Send(SaveStatus(save, w, "defaulted").w, "defaulted")

OnRestoreToActive(save, w) ==
  LET s == SaveStatus(save, w, "active")
      remaining == Outstanding(s.i.data)
  IN  Send(IF remaining = s.i.data.rem THEN s.w
           ELSE Save(save, s.w, [s.i EXCEPT !.data.rem = remaining], AllFields).w,
           "restored")

(***************************************************************************)
(* PenaltyTransaction.save, with the debt instance i the penalty holds.    *)
(***************************************************************************)
ResetDebt(save, w, i) == Save(save, w, [i EXCEPT !.data.rem = Outstanding(i.data)], AllFields)

\* Wrong variant: a plain save that leaves the debt alone.
SavePenaltyAlone(save, w, i, p, penalty) == [w |-> [w EXCEPT !.penalties[p] = penalty], i |-> i]

SavePenalty(save, w, i, p, penalty) == ResetDebt(save, [w EXCEPT !.penalties[p] = penalty], i)

\* The first save of a penalty: on_collect charges a debt instance of its own (fresh) and
\* saves the penalty again before the penalty's own save resets the debt.
InsertPenalty(save, w, stored, fresh, i, p, penalty) ==
  LET collected == SaveOver(save, [w EXCEPT !.penalties[p] = penalty], stored,
                            [fresh EXCEPT !.data.rem = @ + penalty.amount], {"rem"})
      again == SavePenalty(save, collected.w, i, p, penalty)
  IN  ResetDebt(save, Send(again.w, "penalty"), again.i)

(***************************************************************************)
(* The overdue transition, with its automatic penalty.                     *)
(***************************************************************************)
BillsPenalty(w, r) ==
  /\ AutoPenalty
  /\ PastGrace(r)
  /\ ~\E p \in Penalties : w.penalties[p].state = "live" /\ w.penalties[p].debt = w.debt
                           /\ w.penalties[p].date >= r.due

\* A call may bill a free penalty row; with none left (a bound), billing raises.
BillPenalty(save, w, i) ==
  LET penalty == NewPenalty(w.debt, w.amount, today, TRUE)
      s == InsertPenalty(save, w, w.row, Fetch(w), i, w.free, penalty)
  IN  IF w.free = "none" THEN Raise(w)
      ELSE Save(save, s.w, [s.i EXCEPT !.data.rem = @ + w.amount], AllFields).w

OnOverdueOver(save, w, stored, i) ==
  LET s == SaveStatusOver(save, w, stored, i, "overdue")
  IN  Send(IF BillsPenalty(s.w, s.i.data) THEN BillPenalty(save, s.w, s.i) ELSE s.w, "overdue")

OnOverdue(save, w) == OnOverdueOver(save, w, w.row, Fetch(w))

(***************************************************************************)
(* The receivers around a save, in their order of registration.            *)
(***************************************************************************)
Settle(save, w, i) ==
  LET s == Save(save, w, [i EXCEPT !.data.status = "paid", !.skip = TRUE], {"status"})
  IN  [s EXCEPT !.w = OnPaid(save, @)]

\* Wrong variant: a debt that users mark paid gets no transition.
TransitionUnlessPaid(save, w, i) ==
  IF i.old.status = i.data.status \/ i.data.status = "paid" THEN w
  ELSE CASE i.data.status = "overdue" -> OnOverdue(save, w)
         [] i.data.status = "defaulted" -> OnDefaulted(save, w)
         [] i.data.status = "active" -> OnRestoreToActive(save, w)

\* debt_post_save: a status that changed, then a total that shrank.
Transition(save, w, i) ==
  LET moved == IF i.old.status = i.data.status THEN w
               ELSE CASE i.data.status = "paid" -> OnPaid(save, w)
                      [] i.data.status = "overdue" -> OnOverdue(save, w)
                      [] i.data.status = "defaulted" -> OnDefaulted(save, w)
                      [] i.data.status = "active" -> OnRestoreToActive(save, w)
  IN  IF i.old.total > i.data.total
      THEN Send(CheckAllowed(moved, i.data.status), "forgiveness")
      ELSE moved

Saved(save, w, stored, i, fields) ==
  LET data == IF i.skip THEN i.data ELSE Recalculated(stored, i.data)
      written == [w EXCEPT !.row = [f \in AllFields |-> IF f \in fields THEN data[f] ELSE @[f]]]
      saved == [i EXCEPT !.data = data, !.old = stored]
      settled == IF ~i.skip /\ Settles(data) THEN Settle(save, written, saved)
                 ELSE [w |-> written, i |-> saved]
  IN  [settled EXCEPT !.w = Transition(save, @, settled.i)]

\* One level of nesting more.
Nested(save) == [s \in Situations |-> Saved(save, s.w, s.stored, s.i, s.fields)]

TooDeep == [s \in Situations |-> [w |-> End(s.w, "endless"), i |-> s.i]]

\* Saves nest no deeper than this.
Saves == Nested(Nested(Nested(Nested(Nested(TooDeep)))))

(***************************************************************************)
(* Calls.  One that raises leaves the rows as they were.                   *)
(***************************************************************************)
Store(w) ==
  /\ debts' = IF w.outcome = "done" THEN [debts EXCEPT ![w.debt] = w.row] ELSE debts
  /\ penalties' = IF w.outcome = "done" THEN w.penalties ELSE penalties
  /\ outcome' = w.outcome

Commit(w) ==
  /\ Store(w)
  /\ sent' = IF w.outcome = "done" THEN w.sent ELSE <<>>

Worlds(d) ==
  IF FreePenalties = {} THEN {Plain(d)}
  ELSE {World(d, p, amount) : p \in FreePenalties, amount \in PenaltyAmounts}

DebtServiceCreate(d) ==
  /\ ~Exists(d)
  /\ \E total \in Totals, paid \in PaidEdits, status \in Statuses, due \in DueDates,
        accrued \in AccrualDates \cup {today} :
       LET row == [state |-> "live", total |-> total, paid |-> paid,
                   rem |-> Max0(total - paid), status |-> status,
                   due |-> due, accrued |-> accrued]
           w == [Plain(d) EXCEPT !.row = row]
       IN  /\ Commit(IF Settles(row) THEN Settle(Saves, w, Fetch(w)).w ELSE w)
           /\ entered' = [entered EXCEPT ![d] = paid]
  /\ interest' = [interest EXCEPT ![d] = 0]
  /\ UNCHANGED <<payments, today>>

\* A call that loads a debt, sets fields and saves all of them.
SaveDebtAs(d, row) ==
  \E w \in Worlds(d) : Commit(Save(Saves, w, [Fetch(w) EXCEPT !.data = row], AllFields).w)

DebtServiceUpdate(d) ==
  /\ Live(d)
  /\ \E total \in Totals \cup {debts[d].total}, paid \in PaidEdits \cup {debts[d].paid},
        status \in Statuses, due \in DueDates \cup {debts[d].due},
        accrued \in AccrualDates \cup {debts[d].accrued} :
       /\ paid <= total
       /\ SaveDebtAs(d, [debts[d] EXCEPT !.total = total, !.paid = paid, !.status = status,
                                         !.due = due, !.accrued = accrued])
       /\ entered' = [entered EXCEPT ![d] = IF outcome' = "done" THEN @ + paid - debts[d].paid
                                            ELSE @]
  /\ UNCHANGED <<payments, today, interest>>

DebtServiceCorrectTotal(d) ==
  /\ Live(d)
  /\ \E total \in Totals :
       /\ total >= debts[d].paid
       /\ SaveDebtAs(d, [debts[d] EXCEPT !.total = total])
  /\ UNCHANGED <<payments, today, interest, entered>>

ForgivenessServiceApply(d) ==
  /\ Live(d)
  /\ \E amount \in PayAmounts :
       /\ amount <= debts[d].total
       /\ SaveDebtAs(d, [debts[d] EXCEPT !.total = @ - amount,
                                         !.rem = Max0(Outstanding(debts[d]) - amount)])
  /\ UNCHANGED <<payments, today, interest, entered>>

\* soft_delete and restore save deleted_at alone.
DebtServiceDelete(d) ==
  /\ Live(d)
  /\ LET w == Plain(d)
     IN  Commit(Save(Saves, w, [Fetch(w) EXCEPT !.data.state = "deleted"], {"state"}).w)
  /\ UNCHANGED <<payments, today, interest, entered>>

DebtServiceRestore(d) ==
  /\ debts[d].state = "deleted"
  /\ LET w == Plain(d)
     IN  Commit(Save(Saves, w, [Fetch(w) EXCEPT !.data.state = "live"], {"state"}).w)
  /\ UNCHANGED <<payments, today, interest, entered>>

DebtServicePermanentDelete(d) ==
  /\ PurgeDebt(d)
  /\ outcome' = "done" /\ sent' = <<>>

(***************************************************************************)
(* Interest and payments.                                                  *)
(***************************************************************************)
\* The worlds and instances apply_accrual may leave.
Accrue(w, i, asOf) ==
  IF i.data.status \in OpenStatuses /\ i.data.rem > Eps /\ i.data.accrued < asOf
  THEN {[w |-> w, i |-> i]} \cup
       {Save(Saves, w, [i EXCEPT !.data.rem = @ + x, !.data.accrued = asOf], {"rem", "accrued"}) :
          x \in InterestAmounts}
  ELSE {[w |-> w, i |-> i]}

AccrualRun(d) ==
  /\ Live(d)
  /\ \E s \in Accrue(Plain(d), Fetch(Plain(d)), today) :
       /\ s.w.row # debts[d]
       /\ Commit(s.w)
       /\ RecordInterest(d, s.w.row)
  /\ UNCHANGED <<payments, today, entered>>

\* The save of a new payment runs on_confirm, which applies the payment to a fresh instance of
\* the debt; s is where the call has come before it.
OnConfirm(d, p, s, amount) ==
  LET w == Save(Saves, s.w, [Fetch(s.w) EXCEPT !.data.paid = @ + amount], {"paid", "rem"}).w
      partial == ~PartialPayment /\ w.row.rem > Eps
  IN  /\ Commit(Send(IF partial THEN Raise(w) ELSE w, "payment"))
      /\ IF outcome' = "done"
         THEN /\ payments' = [payments EXCEPT ![p] =
                               [state |-> "live", debt |-> d, amount |-> amount]]
              /\ RecordInterest(d, s.w.row)
         ELSE UNCHANGED <<payments, interest>>

PaymentServiceCreate(d, p) ==
  /\ Live(d)
  /\ payments[p].state = "none"
  /\ \E date \in PaymentDates \cup {today}, amount \in PayAmounts :
       \E s \in Accrue(Plain(d), Fetch(Plain(d)), date) :
         amount <= s.i.data.rem /\ OnConfirm(d, p, s, amount)
  /\ UNCHANGED <<today, entered>>

\* What an upload saves goes through the receivers, not through the service.
CreateUploadedPayment(d, p) ==
  /\ Live(d)
  /\ payments[p].state = "none"
  /\ \E amount \in PayAmounts : OnConfirm(d, p, [w |-> Plain(d), i |-> Fetch(Plain(d))], amount)
  /\ UNCHANGED <<today, entered>>

UpdateUploadedPayment(p) ==
  /\ UploadPayment(p)
  /\ outcome' = "done" /\ sent' = <<>>

\* The post_save of a payment just deleted runs on_void, which refuses a deleted payment.
OnVoid(w, deleted) == IF deleted THEN Raise(w) ELSE w

VoidPayment(p) ==
  /\ payments[p].state = "live"
  /\ LET w == Plain(payments[p].debt)
         i == [Fetch(w) EXCEPT !.data.paid = Max0(@ - payments[p].amount)]
         saved == Save(Saves, w, [i EXCEPT !.data.rem = Max0(Outstanding(i.data))], AllFields).w
     IN  Commit(OnVoid(saved, TRUE))
  /\ payments' = [payments EXCEPT ![p].state = IF outcome' = "done" THEN "deleted" ELSE @]
  /\ UNCHANGED <<today, interest, entered>>

(***************************************************************************)
(* PenaltyTransactionService.                                              *)
(***************************************************************************)
\* Adds x to the balance of the instance in s and saves the balance.
AddToBalance(s, x) == Save(Saves, s.w, [s.i EXCEPT !.data.rem = @ + x], {"rem"})

\* Takes x off the balance, never below zero, and saves the balance.
LowerBalance(w, i, x) == Save(Saves, w, [i EXCEPT !.data.rem = Max0(@ - x)], {"rem"})

ChargePenalty(w, stored, fresh, i, p, penalty) ==
  AddToBalance(InsertPenalty(Saves, w, stored, fresh, i, p, penalty), penalty.amount).w

ServicePenalty(d, p, penalty) ==
  LET w == Plain(d)
  IN  Commit(ChargePenalty(w, w.row, Fetch(w), Fetch(w), p, penalty))

PenaltyServiceCreate(d) ==
  /\ Live(d)
  /\ \E p \in FreePenalties, amount \in PenaltyAmounts, date \in PenaltyDates \cup {today},
        auto \in BOOLEAN :
       ServicePenalty(d, p, NewPenalty(d, amount, date, auto))
  /\ UNCHANGED <<payments, today, interest, entered>>

PenaltyServiceUpdate(p) ==
  /\ penalties[p].state = "live"
  /\ \E amount \in PenaltyAmounts \cup {penalties[p].amount},
        date \in PenaltyDates \cup {penalties[p].date}, auto \in BOOLEAN, edited \in BOOLEAN :
       LET w == Plain(penalties[p].debt)
           i == Fetch(w)
           s == IF edited
                THEN LowerBalance(w, i, penalties[p].amount - amount)
                ELSE [w |-> w, i |-> i]
       IN  /\ ~edited => amount = penalties[p].amount
           /\ Commit(SavePenalty(Saves, s.w, s.i, p, [penalties[p] EXCEPT !.amount = amount,
                                                      !.date = date, !.auto = auto]).w)
  /\ UNCHANGED <<payments, today, interest, entered>>

PenaltyServiceDelete(p) ==
  /\ penalties[p].state = "live"
  /\ LET w == Plain(penalties[p].debt)
         s == LowerBalance(w, Fetch(w), penalties[p].amount)
     IN  Commit(SavePenalty(Saves, s.w, s.i, p, [penalties[p] EXCEPT !.state = "deleted"]).w)
  /\ UNCHANGED <<payments, today, interest, entered>>

PenaltyServiceRestore(p) ==
  /\ penalties[p].state = "deleted"
  /\ LET w == Plain(penalties[p].debt)
         s == SavePenalty(Saves, w, Fetch(w), p, [penalties[p] EXCEPT !.state = "live"])
     IN  Commit(AddToBalance(s, penalties[p].amount).w)
  /\ UNCHANGED <<payments, today, interest, entered>>

PenaltyServicePermanentDelete(p) ==
  /\ penalties[p].state # "none"
  /\ LET w == Plain(penalties[p].debt)
         s == IF penalties[p].state = "live"
              THEN LowerBalance(w, Fetch(w), penalties[p].amount).w
              ELSE w
     IN  Commit([s EXCEPT !.penalties[p] = NoPenalty])
  /\ UNCHANGED <<payments, today, interest, entered>>

(***************************************************************************)
(* Scheduled jobs, one debt at a time.                                     *)
(***************************************************************************)
\* The task calls on_collect once more on a penalty already collected: nothing to do.
PenaltyTask(d) ==
  /\ AutoPenalty
  /\ PenaltyCandidate(d)
  /\ ~PenaltySinceDue(d, debts[d]) \/ ~\E p \in LivePenalties(d) : penalties[p].date = today
  /\ \E p \in FreePenalties, amount \in PenaltyAmounts :
       ServicePenalty(d, p, NewPenalty(d, amount, today, TRUE))
  /\ UNCHANGED <<payments, today, interest, entered>>

OverdueTask(d) ==
  /\ Live(d)
  /\ debts[d].status = "active"
  /\ debts[d].due < today
  /\ debts[d].rem > Eps
  /\ \E w \in Worlds(d) : Commit(OnOverdue(Saves, w))
  /\ UNCHANGED <<payments, today, interest, entered>>

CorrectorTask(d) ==
  /\ Live(d)
  /\ debts[d].status = "overdue"
  /\ debts[d].rem <= Eps \/ debts[d].due >= today
  /\ LET w == Plain(d)
         status == IF debts[d].rem <= Eps THEN "paid" ELSE "active"
     IN  Commit(Save(Saves, w, [Fetch(w) EXCEPT !.data.status = status], {"status"}).w)
  /\ UNCHANGED <<payments, today, interest, entered>>

Midnight == NextDay /\ sent' = <<>> /\ outcome' = "done"

SignalInit == Init /\ sent = <<>> /\ outcome = "done"

DebtServiceCall(d) ==
  \/ DebtServiceCreate(d) \/ DebtServiceUpdate(d) \/ DebtServiceCorrectTotal(d)
  \/ ForgivenessServiceApply(d) \/ DebtServiceDelete(d) \/ DebtServiceRestore(d)
  \/ DebtServicePermanentDelete(d) \/ PenaltyServiceCreate(d)
  \/ \E p \in Payments : PaymentServiceCreate(d, p) \/ CreateUploadedPayment(d, p)

PenaltyServiceCall(p) ==
  \/ PenaltyServiceUpdate(p) \/ PenaltyServiceDelete(p) \/ PenaltyServiceRestore(p)
  \/ PenaltyServicePermanentDelete(p)

Task(d) == AccrualRun(d) \/ PenaltyTask(d) \/ OverdueTask(d) \/ CorrectorTask(d)

SignalNext ==
  \/ \E d \in Debts : DebtServiceCall(d) \/ Task(d)
  \/ \E p \in Payments : VoidPayment(p) \/ UpdateUploadedPayment(p)
  \/ \E p \in Penalties : PenaltyServiceCall(p)
  \/ Midnight

SignalSpec == SignalInit /\ [][SignalNext]_signalVars

(***************************************************************************)
(* Properties.                                                             *)
(***************************************************************************)
(* Handler by handler, every call comes to what DebtLedger says it does:   *)
(* no receiver, nested save or stale instance adds to or undoes the net    *)
(* effect.                                                                 *)
ImplementsLedger == Spec

(* A debt that becomes paid is announced, and one that a call changes and   *)
(* announces as paid is paid once the call is over.                         *)
PaidIsAnnounced ==
  [][\A d \in Debts :
       Exists(d) => /\ debts[d].status # "paid" /\ debts'[d].status = "paid"
                         => "paid" \in Range(sent')
                    /\ debts'[d] # debts[d] /\ "paid" \in Range(sent')
                         => debts'[d].status = "paid"]_signalVars

(* The receivers of a save save again, and the flag that stops them is set  *)
(* on one instance only; still no call recurs without end.                 *)
SavesEnd == outcome # "endless"

(* Voiding a payment takes its amount back off what the debt shows as paid. *)
VoidReverses ==
  [][\A p \in Payments : LET d == payments[p].debt IN
       VoidPayment(p) => debts'[d].paid = Max0(debts[d].paid - payments[p].amount)]_signalVars
===============================================================================
