------------------------- MODULE ConcurrentLedger_proofs -------------------------
(***************************************************************************)
(* What overlapping calls on debts preserve, for any number of debts,      *)
(* calls and transactions.                                                 *)
(***************************************************************************)
EXTENDS ConcurrentLedger, DebtSignals_proofs

(***************************************************************************)
(* What is invariant while calls overlap.                                  *)
(***************************************************************************)
Credit(d) == entered[d] + PaymentTotal(d)

TxnType == [call : Calls \cup {"none"}, debt : Debts, reads : Seq(DebtRow), alone : BOOLEAN]

ConcurrentTypeOK ==
  /\ TypeOK
  /\ txns \in [Txns -> TxnType]
  /\ \A t \in Txns : txns[t].call # "none" =>
       Len(txns[t].reads) \in 1..Reads(txns[t].call)

\* What calls have read shows no more as paid than what is stored may.
CreditInv ==
  /\ ConcurrentTypeOK
  /\ FinitePayments
  /\ NeverOvercredited
  /\ \A t \in Txns, d \in Debts : txns[t].debt = d =>
       \A n \in 1..Len(txns[t].reads) : txns[t].reads[n].paid <= Credit(d)
  /\ \A t \in Txns, r \in DebtRow :
       txns[t].call = "correct" /\ r = txns[t].reads[1] => Correction(r) # "none"

LEMMA IdleType == Idle \in TxnType /\ Len(Idle.reads) = 0 /\ Idle.call = "none"
<1>1. (CHOOSE d \in Debts : TRUE) \in Debts
  BY ParameterAssumption
<1> QED BY <1>1 DEF Idle, TxnType

LEMMA IdleReads ==
  /\ \A n \in 1..Len(Idle.reads) : FALSE
  /\ Idle.call # "none" => FALSE
  /\ Idle.call = "correct" => FALSE
BY IdleType

LEMMA InitCredit == ConcurrentInit => CreditInv
<1> SUFFICES ASSUME ConcurrentInit PROVE CreditInv
  OBVIOUS
<1>0. PICK total \in Totals, due \in DueDates :
        debts = [d \in Debts |-> [state |-> "live", total |-> total, paid |-> 0, rem |-> total,
                                  status |-> IF due < MaxDay THEN "active" ELSE "overdue",
                                  due |-> due, accrued |-> 0]]
  BY DEF ConcurrentInit
<1>1. total \in Nat /\ due \in Int /\ MaxDay \in Nat
  BY ParameterAssumption
<1>2. debts \in [Debts -> DebtRow] /\ \A d \in Debts : debts[d].paid = 0
  BY <1>0, <1>1 DEF DebtRow, RowState, Statuses
<1>3. NoPenalty \in PenaltyRow /\ NoPayment \in PaymentRow /\ NoPayment.state = "none"
  <2>1. (CHOOSE d \in Debts : TRUE) \in Debts
    BY ParameterAssumption
  <2> QED BY <2>1 DEF NoPenalty, NoPayment, PenaltyRow, PaymentRow, RowState
<1>4. TypeOK
  BY <1>1, <1>2, <1>3 DEF ConcurrentInit, TypeOK
<1>5. txns = [t \in Txns |-> Idle]
  BY DEF ConcurrentInit
<1>6. ConcurrentTypeOK
  BY <1>4, <1>5, IdleType DEF ConcurrentTypeOK
<1>7. \A d \in Debts : PaymentsOf(d) = {}
  BY <1>3 DEF PaymentsOf, ConcurrentInit
<1>8. FinitePayments
  BY <1>7, FS_EmptySet DEF FinitePayments
<1>9. NeverOvercredited
  <2> SUFFICES ASSUME NEW d \in Debts PROVE debts[d].paid <= entered[d] + PaymentTotal(d)
    BY DEF NeverOvercredited
  <2>1. PaymentTotal(d) \in Nat
    BY <1>4, <1>8, TotalsAreNaturals DEF FinitePayments
  <2>2. entered[d] = 0 /\ debts[d].paid = 0
    BY <1>2 DEF ConcurrentInit
  <2> QED BY <2>1, <2>2
<1>10. \A t \in Txns : Len(txns[t].reads) = 0 /\ txns[t].call = "none"
  BY <1>5, IdleType
<1> QED BY <1>6, <1>8, <1>9, <1>10 DEF CreditInv

\* The world a call writes in, and an instance, when neither shows more than b as paid.
UpTo(d, b) == [debts |-> {d}, paids |-> {n \in Nat : n <= b}, ends |-> Outcomes]

LEMMA UpToKind ==
  ASSUME NEW d \in Debts, NEW b
  PROVE  UpTo(d, b) \in Kinds
BY DEF UpTo, Kinds

LEMMA WorldUpTo ==
  ASSUME TypeOK, NEW d \in Debts, NEW b \in Int, debts[d].paid <= b,
         NEW p \in Penalties \cup {"none"}, NEW a \in Nat
  PROVE  World(d, p, a) \in WorldsIn(UpTo(d, b)) /\ Plain(d) \in WorldsIn(UpTo(d, b))
<1>1. debts[d] \in DebtRow /\ debts[d].paid \in Nat
  BY DEF TypeOK, DebtRow
<1>2. <<>> \in Seq(Notices)
  OBVIOUS
<1> QED BY <1>1, <1>2 DEF World, Plain, WorldsIn, UpTo, WorldType, TypeOK, Outcomes

LEMMA InstanceUpTo ==
  ASSUME NEW d \in Debts, NEW b \in Int, NEW r \in DebtRow, r.paid <= b
  PROVE  Instance(r) \in InstancesIn(UpTo(d, b))
BY DEF Instance, InstancesIn, UpTo, InstanceType, DebtRow

LEMMA StoreUpTo ==
  ASSUME TypeOK, NEW d \in Debts, NEW b \in Int, NEW w \in WorldsIn(UpTo(d, b)), Store(w)
  PROVE  /\ debts' \in [Debts -> DebtRow] /\ penalties' \in [Penalties -> PenaltyRow]
         /\ debts'[d] = debts[d] \/ debts'[d].paid <= b
         /\ \A e \in Debts \ {d} : debts'[e] = debts[e]
<1>1. w.debt = d /\ w.row \in DebtRow /\ w.row.paid <= b /\ w.penalties \in [Penalties -> PenaltyRow]
  BY DEF WorldsIn, UpTo, WorldType
<1> QED BY <1>1 DEF Store, TypeOK

(***************************************************************************)
(* The writes.                                                             *)
(***************************************************************************)
LEMMA WhatIsRead ==
  ASSUME CreditInv, NEW t \in Txns, NEW call \in Calls, Writes(t, call)
  PROVE  /\ txns[t].debt \in Debts
         /\ Credit(txns[t].debt) \in Int /\ debts[txns[t].debt].paid <= Credit(txns[t].debt)
         /\ Stored(t) \in DebtRow
         /\ Loaded(t).data \in DebtRow /\ Loaded(t).data.paid <= Credit(txns[t].debt)
         /\ Fetched(t).data \in DebtRow /\ Fetched(t).data.paid <= Credit(txns[t].debt)
         /\ Loaded(t) = Instance(Loaded(t).data) /\ Fetched(t) = Instance(Fetched(t).data)
         /\ Loaded(t).data = txns[t].reads[1]
<1> DEFINE reads == txns[t].reads
           d == txns[t].debt
<1>1. txns[t] \in TxnType /\ Len(reads) \in 2..3
  BY DEF CreditInv, ConcurrentTypeOK, Writes, Reads
<1>2. d \in Debts /\ reads \in Seq(DebtRow)
  BY <1>1 DEF TxnType
<1>3. Credit(d) \in Int /\ debts[d].paid <= Credit(d)
  BY <1>2, TotalsAreNaturals
     DEF CreditInv, ConcurrentTypeOK, FinitePayments, NeverOvercredited, Credit, TypeOK
<1>4. \A n \in 1..Len(reads) : reads[n] \in DebtRow /\ reads[n].paid <= Credit(d)
  BY <1>2 DEF CreditInv
<1> HIDE DEF reads, d
<1>5. 1 \in 1..Len(reads) /\ 2 \in 1..Len(reads) /\ Len(reads) \in 1..Len(reads)
  <2>1. Len(reads) \in 2..3
    BY <1>1
  <2> QED BY <2>1
<1>6. Head(reads) = reads[1]
  BY <1>1, <1>2
<1>7. /\ reads[1] \in DebtRow /\ reads[1].paid <= Credit(d)
      /\ reads[2] \in DebtRow /\ reads[2].paid <= Credit(d)
      /\ reads[Len(reads)] \in DebtRow
  BY <1>4, <1>5
<1>8. Loaded(t) = Instance(reads[1]) /\ Fetched(t) = Instance(reads[2]) /\ Stored(t) = reads[Len(reads)]
  BY <1>6 DEF Loaded, Fetched, Stored, Last, reads
<1>9. Loaded(t).data = reads[1] /\ Fetched(t).data = reads[2]
  BY <1>8 DEF Instance
<1> QED BY <1>2, <1>3, <1>7, <1>8, <1>9 DEF d, reads

LEMMA WriteStep ==
  ASSUME CreditInv, NEW t \in Txns, NEW a \in Nat, TypeOK', PaysIn(txns[t].debt, a),
         EndCall(t), entered' = entered, today' = today,
         \A e \in Debts : debts'[e].paid <= Credit(e) + IF e = txns[t].debt THEN a ELSE 0
  PROVE  CreditInv'
<1>1. ConcurrentTypeOK'
  <2>1. txns' \in [Txns -> TxnType]
    BY IdleType DEF CreditInv, ConcurrentTypeOK, EndCall, TxnType
  <2>2. \A u \in Txns : txns'[u].call # "none" =>
          txns'[u].call = txns[u].call /\ txns'[u].reads = txns[u].reads
    BY IdleType DEF CreditInv, ConcurrentTypeOK, EndCall, TxnType
  <2> QED BY <2>1, <2>2 DEF CreditInv, ConcurrentTypeOK
<1>2. FinitePayments'
  BY DEF PaysIn, FinitePayments
<1>3. \A e \in Debts : /\ Credit(e)' = Credit(e) + IF e = txns[t].debt THEN a ELSE 0
                       /\ Credit(e) \in Int
  <2> SUFFICES ASSUME NEW e \in Debts
               PROVE  /\ Credit(e)' = Credit(e) + IF e = txns[t].debt THEN a ELSE 0
                      /\ Credit(e) \in Int
    OBVIOUS
  <2>1. PaymentTotal(e) \in Nat /\ entered[e] \in Int
    BY TotalsAreNaturals DEF CreditInv, ConcurrentTypeOK, FinitePayments, TypeOK
  <2>2. PaymentTotal(e)' = PaymentTotal(e) + IF e = txns[t].debt THEN a ELSE 0
    BY DEF PaysIn
  <2> QED BY <2>1, <2>2 DEF Credit
<1>4. NeverOvercredited'
  BY <1>3 DEF NeverOvercredited, Credit
<1>5. ASSUME NEW u \in Txns, NEW e \in Debts, txns'[u].debt = e, NEW n \in 1..Len(txns'[u].reads)
      PROVE  txns'[u].reads[n].paid <= Credit(e)'
  <2>1. u # t
    BY <1>5, IdleType DEF EndCall
  <2>2. txns'[u].reads = txns[u].reads /\ txns'[u].debt = txns[u].debt
    BY <2>1 DEF EndCall, CreditInv, ConcurrentTypeOK, TxnType
  <2>3. txns[u].reads \in Seq(DebtRow)
    BY DEF CreditInv, ConcurrentTypeOK, TxnType
  <2>4. txns[u].reads[n].paid <= Credit(e)
    BY <1>5, <2>2 DEF CreditInv
  <2>6. txns[u].reads[n] \in DebtRow
    BY <1>5, <2>2, <2>3
  <2>7. txns[u].reads[n].paid \in Int
    BY <2>6 DEF DebtRow
  <2>5. Credit(e) \in Int /\ Credit(e)' = Credit(e) + IF e = txns[t].debt THEN a ELSE 0
    BY <1>3
  <2> QED BY <2>2, <2>4, <2>5, <2>7
<1>6. ASSUME NEW u \in Txns, NEW r \in DebtRow, txns'[u].call = "correct",
             r = txns'[u].reads[1]
      PROVE  Correction(r)' # "none"
  <2>1. u # t
    BY <1>6, IdleType DEF EndCall
  <2>2. txns'[u].reads = txns[u].reads /\ txns'[u].call = txns[u].call
    BY <2>1 DEF EndCall, CreditInv, ConcurrentTypeOK, TxnType
  <2>3. Correction(r) # "none"
    BY <1>6, <2>2 DEF CreditInv
  <2> QED BY <2>3 DEF Correction
<1> QED BY <1>1, <1>2, <1>4, <1>5, <1>6 DEF CreditInv

\* Calls but payments.
LEMMA OtherWrite ==
  ASSUME CreditInv, NEW t \in Txns, NEW call \in Calls, Writes(t, call),
         NEW w \in WorldsIn(UpTo(txns[t].debt, Credit(txns[t].debt))), Store(w),
         payments' = payments, interest' \in [Debts -> Int]
  PROVE  CreditInv'
<1> DEFINE d == txns[t].debt
<1>1. d \in Debts /\ Credit(d) \in Int
  BY WhatIsRead
<1>2. TypeOK
  BY DEF CreditInv, ConcurrentTypeOK
<1>3. /\ debts' \in [Debts -> DebtRow] /\ penalties' \in [Penalties -> PenaltyRow]
      /\ debts'[d] = debts[d] \/ debts'[d].paid <= Credit(d)
      /\ \A e \in Debts \ {d} : debts'[e] = debts[e]
  BY <1>1, <1>2, StoreUpTo
<1>4. TypeOK'
  BY <1>2, <1>3 DEF TypeOK, Writes
<1>5. PaysIn(d, 0)
  BY <1>1, <1>2, NoPayments DEF CreditInv
<1>6. \A e \in Debts : debts'[e].paid <= Credit(e) + IF e = d THEN 0 ELSE 0
  <2>1. \A e \in Debts : Credit(e) \in Int /\ debts[e].paid <= Credit(e)
    BY <1>2, TotalsAreNaturals DEF CreditInv, FinitePayments, NeverOvercredited, Credit, TypeOK
  <2> QED BY <1>3, <2>1
<1>7. EndCall(t) /\ entered' = entered /\ today' = today
  BY DEF Writes
<1> HIDE DEF d
<1> QED BY <1>4, <1>5, <1>6, <1>7, WriteStep DEF d

LEMMA SaveWrite ==
  ASSUME CreditInv, NEW t \in Txns, NEW call \in Calls, Writes(t, call),
         NEW i, NEW fields \in SUBSET AllFields,
         i \in InstancesIn(UpTo(txns[t].debt, Credit(txns[t].debt))),
         Store(SaveOver(Saves, Plain(txns[t].debt), Stored(t), i, fields).w),
         payments' = payments, interest' \in [Debts -> Int]
  PROVE  CreditInv'
<1> DEFINE d == txns[t].debt
           k == UpTo(d, Credit(d))
           w == SaveOver(Saves, Plain(d), Stored(t), i, fields).w
<1>1. d \in Debts /\ Credit(d) \in Int /\ debts[d].paid <= Credit(d) /\ Stored(t) \in DebtRow
  BY WhatIsRead
<1>2. TypeOK /\ today \in Nat
  BY DEF CreditInv, ConcurrentTypeOK, TypeOK
<1>3. k \in Kinds /\ Keeps(Saves, k)
  BY <1>1, <1>2, UpToKind, SavesKeep
<1>4. Plain(d) \in WorldsIn(k)
  BY <1>1, <1>2, WorldUpTo
<1>5. w \in WorldsIn(k)
  <2> HIDE DEF k, d
  <2>1. i \in InstancesIn(k)
    BY DEF k, d
  <2> QED BY <1>1, <1>3, <1>4, <2>1, SaveKeeps
<1> HIDE DEF w
<1> QED BY <1>5, OtherWrite DEF w, k, d

LEMMA CreditedInstance ==
  ASSUME NEW d \in Debts, NEW b \in Int, NEW i \in InstanceType, NEW a \in Nat, i.data.paid + a <= b
  PROVE  [i EXCEPT !.data.paid = @ + a] \in InstancesIn(UpTo(d, b))
BY DEF InstancesIn, InstanceType, UpTo, DebtRow

LEMMA AccruedInstance ==
  ASSUME NEW d \in Debts, NEW b \in Int, NEW i \in InstanceType, NEW x \in Nat, NEW day \in Int,
         i.data.paid <= b
  PROVE  [i EXCEPT !.data.rem = @ + x, !.data.accrued = day] \in InstancesIn(UpTo(d, b))
<1> DEFINE j == [i EXCEPT !.data.rem = @ + x, !.data.accrued = day]
           r == [i.data EXCEPT !.rem = @ + x, !.accrued = day]
<1>1. i.data \in DebtRow
  BY DEF InstanceType
<1>2. r \in DebtRow /\ r.paid = i.data.paid /\ r.paid \in Nat
  <2>1. \A q \in DebtRow, y \in Int :
          LET n == [q EXCEPT !.rem = y, !.accrued = day]
          IN  n \in DebtRow /\ n.paid = q.paid /\ n.paid \in Nat
    BY DEF DebtRow
  <2>2. i.data.rem + x \in Int
    BY <1>1 DEF DebtRow
  <2> QED BY <1>1, <2>1, <2>2
<1>3. j = [i EXCEPT !.data = r]
  BY DEF InstanceType
<1> HIDE DEF r
<1> QED BY <1>2, <1>3 DEF InstancesIn, InstanceType, UpTo

LEMMA InstanceIsTyped ==
  ASSUME NEW r \in DebtRow
  PROVE  Instance(r) \in InstanceType /\ Instance(r).data = r
BY DEF Instance, InstanceType

LEMMA PaymentWrite ==
  ASSUME CreditInv, NEW t \in Txns, "pay" \in Calls, WritePayment(t)
  PROVE  CreditInv'
<1> DEFINE d == txns[t].debt
           p == CHOOSE p \in FreePayments : TRUE
<1>1. TypeOK /\ FinitePayments /\ today \in Nat
  BY DEF CreditInv, ConcurrentTypeOK, TypeOK
<1>2. Writes(t, "pay")
  BY DEF WritePayment
<1>3. PICK amount \in PayAmounts :
        /\ Store(SaveOver(Saves, Plain(d), Stored(t), [Fetched(t) EXCEPT !.data.paid = @ + amount],
                          {"paid", "rem"}).w)
        /\ payments' = [payments EXCEPT ![p] = [state |-> "live", debt |-> d, amount |-> amount]]
  BY DEF WritePayment
<1>4. amount \in Nat
  BY ParameterAssumption
<1> DEFINE b == Credit(d) + amount
           k == UpTo(d, b)
           i == [Fetched(t) EXCEPT !.data.paid = @ + amount]
           w == SaveOver(Saves, Plain(d), Stored(t), i, {"paid", "rem"}).w
<1>5. /\ d \in Debts /\ Credit(d) \in Int /\ debts[d].paid <= Credit(d) /\ Stored(t) \in DebtRow
      /\ Fetched(t).data \in DebtRow /\ Fetched(t).data.paid <= Credit(d)
      /\ Fetched(t) = Instance(Fetched(t).data)
  BY <1>2, WhatIsRead
<1>6. p \in Payments /\ payments[p].state = "none"
  <2>1. FreePayments # {}
    BY DEF WritePayment
  <2>2. p \in FreePayments
    BY <2>1
  <2> QED BY <2>2 DEF FreePayments
<1> HIDE DEF p, d
<1>7. b \in Int /\ debts[d].paid <= b
  <2>1. debts[d].paid \in Int
    BY <1>1, <1>5 DEF TypeOK, DebtRow
  <2> QED BY <1>4, <1>5, <2>1
<1>8. k \in Kinds /\ Keeps(Saves, k) /\ Plain(d) \in WorldsIn(k)
  BY <1>1, <1>5, <1>7, UpToKind, SavesKeep, WorldUpTo
<1>9. i \in InstancesIn(k)
  <2>1. Fetched(t) \in InstanceType
    BY <1>5, InstanceIsTyped
  <2>2. Fetched(t).data.paid \in Int
    BY <2>1 DEF InstanceType, DebtRow
  <2>3. Fetched(t).data.paid + amount <= b
    BY <1>4, <1>5, <2>2
  <2> HIDE DEF b
  <2> QED BY <1>4, <1>5, <1>7, <2>1, <2>3, CreditedInstance
<1>10. w \in WorldsIn(k)
  <2> HIDE DEF k, i
  <2>1. {"paid", "rem"} \in SUBSET AllFields
    BY Fields
  <2> QED BY <1>5, <1>8, <1>9, <2>1, SaveKeeps
<1>11. /\ debts' \in [Debts -> DebtRow] /\ penalties' \in [Penalties -> PenaltyRow]
       /\ debts'[d] = debts[d] \/ debts'[d].paid <= b
       /\ \A e \in Debts \ {d} : debts'[e] = debts[e]
  <2>1. Store(w)
    BY <1>3
  <2> HIDE DEF w, b
  <2> QED BY <1>1, <1>5, <1>7, <1>10, <2>1, StoreUpTo DEF k
<1>12. TypeOK'
  <2>1. payments' \in [Payments -> PaymentRow]
    BY <1>1, <1>3, <1>4, <1>5 DEF TypeOK, PaymentRow
  <2>2. interest' = interest /\ today' = today /\ entered' = entered
    BY <1>2 DEF WritePayment, Writes
  <2> QED BY <1>1, <1>11, <2>1, <2>2 DEF TypeOK
<1>13. PaysIn(d, amount)
  BY <1>1, <1>3, <1>5, <1>6, <1>12, PaymentPaysIn
<1>14. \A e \in Debts : debts'[e].paid <= Credit(e) + IF e = d THEN amount ELSE 0
  <2>1. \A e \in Debts : Credit(e) \in Int /\ debts[e].paid <= Credit(e)
    BY <1>1, TotalsAreNaturals DEF CreditInv, FinitePayments, NeverOvercredited, Credit, TypeOK
  <2> QED BY <1>4, <1>7, <1>11, <2>1
<1>15. EndCall(t) /\ entered' = entered /\ today' = today
  BY <1>2 DEF Writes
<1> QED BY <1>4, <1>12, <1>13, <1>14, <1>15, WriteStep DEF d

LEMMA PenaltyWrite ==
  ASSUME CreditInv, NEW t \in Txns, NEW call \in Calls, Writes(t, call), NEW auto \in BOOLEAN,
         WritePenalty(t, auto)
  PROVE  CreditInv'
<1> DEFINE d == txns[t].debt
<1>1. PICK p \in FreePenalties, amount \in PenaltyAmounts :
        Store(ChargePenalty(Plain(d), Stored(t), Fetched(t), Loaded(t), p,
                            NewPenalty(d, amount, today, auto)))
  BY DEF WritePenalty
<1> DEFINE k == UpTo(d, Credit(d))
           n == NewPenalty(d, amount, today, auto)
           s == InsertPenalty(Saves, Plain(d), Stored(t), Fetched(t), Loaded(t), p, n)
           w == ChargePenalty(Plain(d), Stored(t), Fetched(t), Loaded(t), p, n)
<1>2. TypeOK /\ today \in Nat /\ amount \in Nat /\ p \in Penalties
  BY Inputs DEF CreditInv, ConcurrentTypeOK, TypeOK, FreePenalties
<1>3. /\ d \in Debts /\ Credit(d) \in Int /\ debts[d].paid <= Credit(d) /\ Stored(t) \in DebtRow
      /\ Fetched(t).data \in DebtRow /\ Fetched(t).data.paid <= Credit(d)
      /\ Loaded(t).data \in DebtRow /\ Loaded(t).data.paid <= Credit(d)
      /\ Fetched(t) = Instance(Fetched(t).data) /\ Loaded(t) = Instance(Loaded(t).data)
  BY WhatIsRead
<1>4. n \in PenaltyRow /\ n.amount \in Int /\ n.amount = amount
  BY <1>2, <1>3 DEF NewPenalty, PenaltyRow, RowState
<1>5. k \in Kinds /\ Keeps(Saves, k) /\ Plain(d) \in WorldsIn(k)
  BY <1>2, <1>3, UpToKind, SavesKeep, WorldUpTo
<1>6. Fetched(t) \in InstancesIn(k) /\ Loaded(t) \in InstancesIn(k)
  BY <1>3, InstanceUpTo
<1>7. w = AddToBalance(s, n.amount).w
  BY DEF ChargePenalty
<1> HIDE DEF n, k, d
<1>8. s.w \in WorldsIn(k) /\ s.i \in InstancesIn(k)
  BY <1>2, <1>3, <1>4, <1>5, <1>6, InsertKeeps
<1> HIDE DEF s
<1>9. [s.i EXCEPT !.data.rem = @ + n.amount] \in InstancesIn(k)
  <2>1. s.i.data.rem + n.amount \in Int
    BY <1>4, <1>5, <1>8, OutstandingIsInt
  <2> QED BY <1>5, <1>8, <2>1, BalanceKeeps
<1>10. w \in WorldsIn(k)
  <2>1. AddToBalance(s, n.amount).w \in WorldsIn(k)
    BY <1>5, <1>8, <1>9, RowOf, WholeRow, SaveKeeps DEF AddToBalance, Save
  <2> QED BY <1>7, <2>1
<1>11. Store(w) /\ payments' = payments /\ interest' \in [Debts -> Int]
  BY <1>1, <1>2 DEF WritePenalty, n, d, TypeOK
<1> HIDE DEF w
<1> QED BY <1>10, <1>11, OtherWrite DEF k, d

LEMMA OverdueWrite ==
  ASSUME CreditInv, NEW t \in Txns, "overdue" \in Calls, WriteOverdue(t)
  PROVE  CreditInv'
<1> DEFINE d == txns[t].debt
           k == UpTo(d, Credit(d))
<1>1. PICK v \in Worlds(d) : Store(OnOverdueOver(Saves, v, Stored(t), Fetched(t)))
  BY DEF WriteOverdue
<1> DEFINE w == OnOverdueOver(Saves, v, Stored(t), Fetched(t))
<1>2. TypeOK /\ today \in Nat /\ Writes(t, "overdue")
  BY DEF CreditInv, ConcurrentTypeOK, TypeOK, WriteOverdue
<1>3. /\ d \in Debts /\ Credit(d) \in Int /\ debts[d].paid <= Credit(d) /\ Stored(t) \in DebtRow
      /\ Fetched(t).data \in DebtRow /\ Fetched(t).data.paid <= Credit(d)
      /\ Fetched(t) = Instance(Fetched(t).data)
  BY <1>2, WhatIsRead
<1>4. k \in Kinds /\ Keeps(Saves, k) /\ Fetched(t) \in InstancesIn(k)
  BY <1>2, <1>3, UpToKind, SavesKeep, InstanceUpTo
<1>5. v \in WorldsIn(k)
  <2> HIDE DEF d
  <2>1. CASE v = Plain(d)
    BY <1>2, <1>3, <2>1, WorldUpTo
  <2>2. CASE v # Plain(d)
    <3>1. PICK p \in FreePenalties, amount \in PenaltyAmounts : v = World(d, p, amount)
      BY <2>2 DEF Worlds
    <3>2. p \in Penalties \cup {"none"} /\ amount \in Nat
      BY Inputs DEF FreePenalties
    <3> QED BY <1>2, <1>3, <3>1, <3>2, WorldUpTo
  <2> QED BY <2>1, <2>2
<1>6. w \in WorldsIn(k)
  <2> HIDE DEF k
  <2> QED BY <1>2, <1>3, <1>4, <1>5, OnOverdueKeeps
<1>7. Store(w) /\ payments' = payments /\ interest' \in [Debts -> Int]
  BY <1>1, <1>2 DEF WriteOverdue, TypeOK
<1> HIDE DEF w
<1> QED BY <1>2, <1>6, <1>7, OtherWrite DEF k, d

LEMMA AccrualWrite ==
  ASSUME CreditInv, NEW t \in Txns, "accrue" \in Calls, WriteAccrual(t)
  PROVE  CreditInv'
<1> DEFINE d == txns[t].debt
<1>1. PICK x \in InterestAmounts :
        /\ Store(SaveOver(Saves, Plain(d), Stored(t),
                          [Loaded(t) EXCEPT !.data.rem = @ + x, !.data.accrued = today],
                          {"rem", "accrued"}).w)
        /\ interest' = [interest EXCEPT ![d] = @ + x]
  BY DEF WriteAccrual
<1> DEFINE i == [Loaded(t) EXCEPT !.data.rem = @ + x, !.data.accrued = today]
           r == Loaded(t).data
<1>2. TypeOK /\ today \in Nat /\ x \in Nat /\ Writes(t, "accrue")
  BY ParameterAssumption DEF CreditInv, ConcurrentTypeOK, TypeOK, WriteAccrual
<1>3. /\ d \in Debts /\ Credit(d) \in Int /\ r \in DebtRow /\ r.paid <= Credit(d)
      /\ Loaded(t) = Instance(r)
  BY <1>2, WhatIsRead
<1>4. i \in InstancesIn(UpTo(d, Credit(d)))
  <2>1. Loaded(t) \in InstanceType /\ today \in Int
    BY <1>2, <1>3, InstanceIsTyped
  <2> HIDE DEF d
  <2> QED BY <1>2, <1>3, <2>1, AccruedInstance
<1>5. {"rem", "accrued"} \in SUBSET AllFields
  BY Fields
<1>6. payments' = payments /\ interest' \in [Debts -> Int]
  <2>1. payments' = payments
    BY DEF WriteAccrual
  <2>2. interest \in [Debts -> Int] /\ x \in Int
    BY <1>2 DEF TypeOK
  <2>3. interest' = [interest EXCEPT ![d] = @ + x]
    BY <1>1
  <2> HIDE DEF d
  <2> QED BY <1>3, <2>1, <2>2, <2>3
<1> HIDE DEF i
<1> QED BY <1>1, <1>2, <1>4, <1>5, <1>6, SaveWrite DEF i

LEMMA EditWrite ==
  ASSUME CreditInv, NEW t \in Txns, "edit" \in Calls, WriteEdit(t)
  PROVE  CreditInv'
<1> DEFINE d == txns[t].debt
<1>1. Writes(t, "edit") /\ payments' = payments /\ interest' \in [Debts -> Int]
  BY DEF WriteEdit, CreditInv, ConcurrentTypeOK, TypeOK
<1>2. Loaded(t) \in InstancesIn(UpTo(d, Credit(d)))
  BY <1>1, WhatIsRead, InstanceUpTo
<1> QED BY <1>1, <1>2, WholeRow, SaveWrite DEF WriteEdit

LEMMA StatusWrite ==
  ASSUME CreditInv, NEW t \in Txns, NEW call \in Calls, Writes(t, call), NEW status \in Statuses,
         WriteStatus(t, status)
  PROVE  CreditInv'
<1> DEFINE k == UpTo(txns[t].debt, Credit(txns[t].debt))
<1>1. payments' = payments /\ interest' \in [Debts -> Int]
  BY DEF WriteStatus, CreditInv, ConcurrentTypeOK, TypeOK
<1>2. Loaded(t) \in InstancesIn(k)
  BY WhatIsRead, InstanceUpTo
<1>3. [Loaded(t) EXCEPT !.data.status = status] \in InstancesIn(k)
  <2>1. k \in Kinds
    BY WhatIsRead, UpToKind
  <2> HIDE DEF k
  <2> QED BY <1>2, <2>1, StatusKeeps
<1> QED BY <1>1, <1>3, WholeRow, SaveWrite DEF WriteStatus

LEMMA WriteKeepsCredit ==
  ASSUME CreditInv, NEW t \in Txns, Write(t)
  PROVE  CreditInv'
<1>0. txns[t].call \in Calls
  <2>1. txns[t].call # "none"
    BY DEF Write, WritePayment, WriteCharge, WriteRun, WriteOverdue, WriteAccrual, WriteEdit,
           WriteCorrection, WriteFix, Writes
  <2> QED BY <2>1 DEF CreditInv, ConcurrentTypeOK, TxnType
<1>1. CASE WritePayment(t)
  BY <1>0, <1>1, PaymentWrite DEF WritePayment, Writes
<1>2. CASE WriteCharge(t)
  BY <1>0, <1>2, PenaltyWrite DEF WriteCharge, Writes
<1>3. CASE WriteRun(t)
  BY <1>0, <1>3, PenaltyWrite DEF WriteRun, Writes
<1>4. CASE WriteOverdue(t)
  BY <1>0, <1>4, OverdueWrite DEF WriteOverdue, Writes
<1>5. CASE WriteAccrual(t)
  BY <1>0, <1>5, AccrualWrite DEF WriteAccrual, Writes
<1>6. CASE WriteEdit(t)
  BY <1>0, <1>6, EditWrite DEF WriteEdit, Writes
<1>7. CASE WriteCorrection(t)
  <2> DEFINE status == Correction(Loaded(t).data)
  <2>1. Writes(t, "correct") /\ WriteStatus(t, status) /\ "correct" \in Calls
    BY <1>0, <1>7 DEF WriteCorrection, Writes
  <2>2. status # "none"
    BY <2>1, WhatIsRead DEF CreditInv, Writes
  <2>3. status \in Statuses
    BY <2>2 DEF Correction, Statuses
  <2> HIDE DEF status
  <2> QED BY <2>1, <2>3, StatusWrite
<1>8. CASE WriteFix(t)
  BY <1>0, <1>8, StatusWrite DEF WriteFix, Writes, Statuses
<1> QED BY <1>1, <1>2, <1>3, <1>4, <1>5, <1>6, <1>7, <1>8 DEF Write

\* A call begins, reads once more or gives up.
ReadsOnly(t) ==
  /\ UNCHANGED signalVars
  /\ \E x \in TxnType :
       /\ txns' = [txns EXCEPT ![t] = x]
       /\ x.call # "none" => Len(x.reads) \in 1..Reads(x.call)
       /\ \A n \in 1..Len(x.reads) :
            x.reads[n].paid <= Credit(x.debt)
       /\ x.call = "correct" => Correction(x.reads[1]) # "none"

LEMMA ReadsKeepCredit ==
  ASSUME CreditInv, NEW t \in Txns, ReadsOnly(t)
  PROVE  CreditInv'
<1>1. PICK x \in TxnType :
        /\ txns' = [txns EXCEPT ![t] = x]
        /\ x.call # "none" => Len(x.reads) \in 1..Reads(x.call)
        /\ \A n \in 1..Len(x.reads) : x.reads[n].paid <= Credit(x.debt)
        /\ x.call = "correct" => Correction(x.reads[1]) # "none"
  BY DEF ReadsOnly
<1>2. /\ TypeOK' /\ FinitePayments' /\ NeverOvercredited'
      /\ \A d \in Debts : Credit(d)' = Credit(d)
  BY DEF ReadsOnly, signalVars, CreditInv, ConcurrentTypeOK, TypeOK, FinitePayments, PaymentsOf,
         NeverOvercredited, PaymentTotal, Credit
<1>3. txns' \in [Txns -> TxnType] /\ \A u \in Txns : txns'[u] = IF u = t THEN x ELSE txns[u]
  BY <1>1 DEF CreditInv, ConcurrentTypeOK
<1>4. ConcurrentTypeOK'
  BY <1>1, <1>2, <1>3 DEF CreditInv, ConcurrentTypeOK
<1>5. ASSUME NEW u \in Txns, NEW d \in Debts, txns'[u].debt = d, NEW n \in 1..Len(txns'[u].reads)
      PROVE  txns'[u].reads[n].paid <= Credit(d)'
  BY <1>1, <1>2, <1>3, <1>5 DEF CreditInv
<1>6. ASSUME NEW u \in Txns, NEW r \in DebtRow, txns'[u].call = "correct",
             r = txns'[u].reads[1]
      PROVE  Correction(r)' # "none"
  <2>1. Correction(r) # "none"
    BY <1>1, <1>3, <1>6 DEF CreditInv
  <2>2. today' = today
    BY DEF ReadsOnly, signalVars
  <2> QED BY <2>1, <2>2 DEF Correction
<1> QED BY <1>2, <1>4, <1>5, <1>6 DEF CreditInv

LEMMA IdleOnly ==
  ASSUME NEW t \in Txns, txns' = [txns EXCEPT ![t] = Idle], UNCHANGED signalVars
  PROVE  ReadsOnly(t)
<1>1. Idle \in TxnType
  BY IdleType
<1>2. /\ Idle.call # "none" => Len(Idle.reads) \in 1..Reads(Idle.call)
      /\ \A n \in 1..Len(Idle.reads) : Idle.reads[n].paid <= Credit(Idle.debt)
      /\ Idle.call = "correct" => Correction(Idle.reads[1]) # "none"
  BY IdleReads
<1> QED BY <1>1, <1>2 DEF ReadsOnly

LEMMA BeginReads ==
  ASSUME CreditInv, NEW t \in Txns, NEW call \in Calls, NEW d \in Debts, BeginCall(t, call, d)
  PROVE  ReadsOnly(t)
<1> DEFINE x == [call |-> call, debt |-> d, reads |-> <<debts[d]>>, alone |-> TRUE]
<1>1. debts[d] \in DebtRow /\ debts[d].paid <= Credit(d)
  BY DEF CreditInv, ConcurrentTypeOK, TypeOK, NeverOvercredited, Credit
<1>2. x \in TxnType
  BY <1>1 DEF TxnType
<1>3. Len(x.reads) = 1 /\ x.reads[1] = debts[d] /\ 1 \in 1..Reads(call)
  BY DEF Reads
<1>4. x.call = call /\ x.debt = d
  OBVIOUS
<1>5. call = "correct" => Correction(x.reads[1]) # "none"
  BY <1>3 DEF BeginCall, Selects
<1>6. UNCHANGED signalVars /\ txns' = [txns EXCEPT ![t] = x]
  BY DEF BeginCall
<1> HIDE DEF x
<1>7. /\ x.call # "none" => Len(x.reads) \in 1..Reads(x.call)
      /\ \A n \in 1..Len(x.reads) : x.reads[n].paid <= Credit(x.debt)
  BY <1>1, <1>3, <1>4
<1> QED BY <1>2, <1>4, <1>5, <1>6, <1>7 DEF ReadsOnly

LEMMA ReadAgainReads ==
  ASSUME CreditInv, NEW t \in Txns, ReadAgain(t)
  PROVE  ReadsOnly(t)
<1> DEFINE d == txns[t].debt
           x == [txns[t] EXCEPT !.reads = Append(@, debts[d])]
<1>1. txns[t] \in TxnType /\ d \in Debts /\ txns[t].reads \in Seq(DebtRow)
  BY DEF CreditInv, ConcurrentTypeOK, TxnType
<1>2. debts[d] \in DebtRow /\ debts[d].paid <= Credit(d)
  BY <1>1 DEF CreditInv, ConcurrentTypeOK, TypeOK, NeverOvercredited, Credit
<1>3. txns' = [txns EXCEPT ![t] = Idle] \/ txns' = [txns EXCEPT ![t] = x]
  BY DEF ReadAgain
<1>4. CASE txns' = [txns EXCEPT ![t] = Idle]
  BY <1>4, IdleOnly DEF ReadAgain
<1>5. CASE txns' = [txns EXCEPT ![t] = x]
  <2>1. x \in TxnType /\ x.reads = Append(txns[t].reads, debts[d]) /\ x.debt = d /\ x.call = txns[t].call
    BY <1>1, <1>2 DEF TxnType
  <2>2. /\ Len(x.reads) = Len(txns[t].reads) + 1
        /\ \A n \in 1..Len(txns[t].reads) : x.reads[n] = txns[t].reads[n]
        /\ x.reads[Len(x.reads)] = debts[d]
    BY <1>1, <1>2, <2>1
  <2>3. Len(x.reads) \in 1..Reads(x.call)
    BY <1>1, <2>1, <2>2 DEF ReadAgain, Reads
  <2>4. ASSUME NEW n \in 1..Len(x.reads) PROVE x.reads[n].paid <= Credit(d)
    <3>1. CASE n = Len(x.reads)
      BY <1>2, <2>2, <3>1
    <3>2. CASE n # Len(x.reads)
      <4>1. n \in 1..Len(txns[t].reads)
        BY <1>1, <2>2, <3>2
      <4> QED BY <1>1, <2>2, <4>1 DEF CreditInv
    <3> QED BY <3>1, <3>2
  <2> HIDE DEF x
  <2>5. UNCHANGED signalVars
    BY DEF ReadAgain
  <2>6. x.call = "correct" => Correction(x.reads[1]) # "none"
    <3>1. 1 \in 1..Len(txns[t].reads)
      BY <1>1, <2>1 DEF ReadAgain, CreditInv, ConcurrentTypeOK
    <3>2. x.reads[1] = txns[t].reads[1] /\ txns[t].reads[1] \in DebtRow
      BY <1>1, <2>2, <3>1
    <3> QED BY <2>1, <3>2 DEF CreditInv
  <2> QED BY <1>5, <2>1, <2>3, <2>4, <2>5, <2>6 DEF ReadsOnly
<1> QED BY <1>3, <1>4, <1>5

\* An upload that edits a payment leaves what every debt may show as paid.
LEMMA EditKeepsCredit ==
  ASSUME CreditInv, NEW p \in Payments, EditPayment(p)
  PROVE  CreditInv'
<1>1. TypeOK /\ FinitePayments /\ UploadPayment(p) /\ UNCHANGED <<debts, penalties, today, interest, txns>>
  BY DEF CreditInv, ConcurrentTypeOK, EditPayment, UploadPayment
<1>2. TypeOK'
  <2>1. PICK d \in Debts, amount \in PayAmounts \cup {payments[p].amount} :
          LET new == [payments[p] EXCEPT !.debt = d, !.amount = amount]
          IN  /\ payments' = [payments EXCEPT ![p] = new]
              /\ entered' = [e \in Debts |-> entered[e] + PaidBy(payments[p], e) - PaidBy(new, e)]
    BY <1>1 DEF UploadPayment
  <2> DEFINE new == [payments[p] EXCEPT !.debt = d, !.amount = amount]
  <2>2. payments[p] \in PaymentRow /\ new \in PaymentRow
    BY <1>1, ParameterAssumption DEF TypeOK, PaymentRow
  <2>3. \A e : PaidBy(payments[p], e) \in Nat /\ PaidBy(new, e) \in Nat
    BY <2>2 DEF PaidBy, PaymentRow
  <2> HIDE DEF new
  <2>4. payments' \in [Payments -> PaymentRow] /\ entered' \in [Debts -> Int]
    BY <1>1, <2>1, <2>2, <2>3 DEF TypeOK, new
  <2> QED BY <1>1, <2>4 DEF TypeOK
<1>3. \A e \in Debts : IsFiniteSet(PaymentsOf(e))' /\ Credit(e)' = Credit(e)
  BY <1>1, <1>2, UploadKeepsCredit DEF Credit
<1>4. ConcurrentTypeOK'
  BY <1>1, <1>2 DEF CreditInv, ConcurrentTypeOK
<1>5. FinitePayments' /\ NeverOvercredited'
  BY <1>1, <1>3 DEF CreditInv, FinitePayments, NeverOvercredited, Credit
<1>6. ASSUME NEW u \in Txns, NEW d \in Debts, txns'[u].debt = d, NEW n \in 1..Len(txns'[u].reads)
      PROVE  txns'[u].reads[n].paid <= Credit(d)'
  BY <1>1, <1>3, <1>6 DEF CreditInv
<1>7. ASSUME NEW u \in Txns, NEW r \in DebtRow, txns'[u].call = "correct",
             r = txns'[u].reads[1]
      PROVE  Correction(r)' # "none"
  BY <1>1, <1>7 DEF CreditInv, Correction
<1> QED BY <1>4, <1>5, <1>6, <1>7 DEF CreditInv

LEMMA CreditNext ==
  ASSUME CreditInv, [ConcurrentNext]_concurrentVars
  PROVE  CreditInv'
<1>1. ASSUME NEW t \in Txns, NEW call \in Calls, NEW d \in Debts, BeginCall(t, call, d)
      PROVE  CreditInv'
  BY <1>1, BeginReads, ReadsKeepCredit
<1>2. ASSUME NEW t \in Txns, ReadAgain(t)
      PROVE  CreditInv'
  BY <1>2, ReadAgainReads, ReadsKeepCredit
<1>3. ASSUME NEW t \in Txns, Write(t)
      PROVE  CreditInv'
  BY <1>3, WriteKeepsCredit
<1>4. ASSUME NEW t \in Txns, RollBack(t)
      PROVE  CreditInv'
  <2>1. ReadsOnly(t)
    BY <1>4, IdleOnly DEF RollBack
  <2> QED BY <2>1, ReadsKeepCredit
<1>5. CASE UNCHANGED concurrentVars
  BY <1>5 DEF concurrentVars, signalVars, CreditInv, ConcurrentTypeOK, TypeOK, FinitePayments,
              PaymentsOf, NeverOvercredited, PaymentTotal, Credit, Correction
<1>6. ASSUME NEW p \in Payments, EditPayment(p)
      PROVE  CreditInv'
  BY <1>6, EditKeepsCredit
<1> QED BY <1>1, <1>2, <1>3, <1>4, <1>5, <1>6 DEF ConcurrentNext

(* However many calls overlap, on however many debts, no debt shows more   *)
(* as paid than its payments, up to what uploads have edited of them.      *)
THEOREM PaymentsCountOnce == ConcurrentSpec => []NeverOvercredited
<1>1. CreditInv => NeverOvercredited
  BY DEF CreditInv
<1> QED BY <1>1, InitCredit, CreditNext, PTL DEF ConcurrentSpec
==================================================================================
