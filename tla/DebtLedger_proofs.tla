-------------------------- MODULE DebtLedger_proofs --------------------------
(***************************************************************************)
(* The properties of the debt ledger, for all values of the constants:     *)
(* debts that are settled are paid and stay paid, no day charges twice,    *)
(* paid amounts are backed and balances justified.                         *)
(***************************************************************************)
EXTENDS DebtLedger, FiniteSetTheorems, TLAPS

(***************************************************************************)
(* Induction over finite sets.                                             *)
(***************************************************************************)
\* Induction over the subsets of a finite set: G holds the sets of which something is true.
LEMMA SubsetInduction ==
  ASSUME NEW S, IsFiniteSet(S), NEW G,
         \A T \in SUBSET S : (\A U \in SUBSET T : U # T => U \in G) => T \in G
  PROVE  S \in G
<1> DEFINE Others == (SUBSET S) \ G
<1>1. FiniteSubsetsOf(S) = SUBSET S
  BY FS_FiniteSubsetsOfFinite
<1>2. IsWellFoundedOn(StrictSubsetOrdering(S), SUBSET S)
  BY <1>1, FS_StrictSubsetOrderingWellFounded
<1>3. SUFFICES ASSUME Others # {} PROVE FALSE
  OBVIOUS
<1>4. Others \subseteq SUBSET S
  OBVIOUS
<1>5. \E T \in Others : \A U \in Others : ~(<<U, T>> \in StrictSubsetOrdering(S))
  <2> HIDE DEF Others
  <2> QED BY <1>2, <1>3, <1>4, WFMin
<1>6. PICK T \in Others : \A U \in Others : ~(<<U, T>> \in StrictSubsetOrdering(S))
  BY <1>5
<1>7. \A U \in SUBSET T : U # T => U \in G
  BY <1>6 DEF StrictSubsetOrdering
<1> QED BY <1>7

(***************************************************************************)
(* The recursive function behind a total does satisfy its equation.        *)
(***************************************************************************)
Chosen(s) == CHOOSE x \in s : TRUE

IsTotal(g, rows, S) ==
  g = [s \in SUBSET S |-> IF s = {} THEN 0
                          ELSE rows[Chosen(s)].amount + g[s \ {Chosen(s)}]]

Adds(rows, s) ==
  TotalAmount(rows, s) = IF s = {} THEN 0
                         ELSE rows[Chosen(s)].amount + TotalAmount(rows, s \ {Chosen(s)})

LEMMA ChosenLemma ==
  ASSUME NEW s, s # {}
  PROVE  Chosen(s) \in s /\ s \ {Chosen(s)} # s
<1>1. Chosen(s) \in s
  BY DEF Chosen
<1> QED BY <1>1

LEMMA TotalIsFunction ==
  ASSUME NEW rows, NEW S
  PROVE  TotalAmount(rows, S) = (CHOOSE g : IsTotal(g, rows, S))[S]
BY DEF TotalAmount, MapThenSumSet, MapThenFoldSet, IsTotal, Chosen

LEMMA TotalExists ==
  ASSUME NEW rows, NEW S, \A s \in SUBSET S : s # S => Adds(rows, s)
  PROVE  \E g : IsTotal(g, rows, S)
<1> DEFINE h == [s \in SUBSET S |-> IF s = {} THEN 0
                                   ELSE rows[Chosen(s)].amount + TotalAmount(rows, s \ {Chosen(s)})]
<1>1. ASSUME NEW s \in SUBSET S, s # {}
      PROVE  h[s \ {Chosen(s)}] = TotalAmount(rows, s \ {Chosen(s)})
  <2>1. s \ {Chosen(s)} \in SUBSET S /\ s \ {Chosen(s)} # S
    BY <1>1, ChosenLemma
  <2> QED BY <2>1 DEF Adds
<1>2. h = [s \in SUBSET S |-> IF s = {} THEN 0
                             ELSE rows[Chosen(s)].amount + h[s \ {Chosen(s)}]]
  BY <1>1
<1>3. IsTotal(h, rows, S)
  <2> HIDE DEF h
  <2> QED BY <1>2 DEF IsTotal
<1> QED BY <1>3

LEMMA TotalAdds ==
  ASSUME NEW rows, NEW S, IsFiniteSet(S), \A s \in SUBSET S : s # S => Adds(rows, s)
  PROVE  Adds(rows, S)
<1> DEFINE g == CHOOSE g : IsTotal(g, rows, S)
<1>1. IsTotal(g, rows, S)
  BY TotalExists
<1>2. TotalAmount(rows, S) = g[S]
  BY TotalIsFunction
<1> HIDE DEF g
<1>3. \A s \in SUBSET S : g[s] = IF s = {} THEN 0
                                 ELSE rows[Chosen(s)].amount + g[s \ {Chosen(s)}]
  BY <1>1 DEF IsTotal
<1>4. ASSUME NEW s \in SUBSET S, s # S, \A t \in SUBSET s : t # s => g[t] = TotalAmount(rows, t)
      PROVE  g[s] = TotalAmount(rows, s)
  <2>1. CASE s = {}
    BY <1>3, <1>4, <2>1 DEF Adds
  <2>2. CASE s # {}
    BY <1>3, <1>4, <2>2, ChosenLemma DEF Adds
  <2> QED BY <2>1, <2>2
<1>5. ASSUME NEW s \in SUBSET S, s # S
      PROVE  g[s] = TotalAmount(rows, s)
  <2> DEFINE H == {t \in SUBSET s : g[t] = TotalAmount(rows, t)}
  <2>1. ASSUME NEW t \in SUBSET s, \A u \in SUBSET t : u # t => u \in H
        PROVE  t \in H
    <3>1. t \in SUBSET S /\ t # S
      BY <1>5
    <3> QED BY <1>4, <2>1, <3>1
  <2>2. s \in H
    <3>1. IsFiniteSet(s)
      BY FS_Subset
    <3> HIDE DEF H
    <3> QED BY <2>1, <3>1, SubsetInduction
  <2> QED BY <2>2
<1> QED BY <1>2, <1>3, <1>5, ChosenLemma DEF Adds

LEMMA TotalEquation ==
  ASSUME NEW rows, NEW S, IsFiniteSet(S)
  PROVE  Adds(rows, S)
<1> DEFINE G == {s \in SUBSET S : Adds(rows, s)}
<1>1. ASSUME NEW s \in SUBSET S, \A t \in SUBSET s : t # s => t \in G
      PROVE  s \in G
  <2>1. IsFiniteSet(s)
    BY FS_Subset
  <2> QED BY <1>1, <2>1, TotalAdds
<1>2. S \in G
  <2> HIDE DEF G
  <2> QED BY <1>1, SubsetInduction
<1> QED BY <1>2

(***************************************************************************)
(* Totals.                                                                 *)
(***************************************************************************)
LEMMA TotalOfNone == \A rows : TotalAmount(rows, {}) = 0
BY TotalEquation, FS_EmptySet DEF Adds

LEMMA TotalType ==
  ASSUME NEW rows, NEW S, IsFiniteSet(S), \A x \in S : rows[x].amount \in Nat
  PROVE  TotalAmount(rows, S) \in Nat
<1> DEFINE G == {s \in SUBSET S : TotalAmount(rows, s) \in Nat}
<1>1. ASSUME NEW s \in SUBSET S, \A t \in SUBSET s : t # s => t \in G
      PROVE  s \in G
  <2>1. Adds(rows, s)
    BY FS_Subset, TotalEquation
  <2>2. CASE s = {}
    BY <2>1, <2>2 DEF Adds
  <2>3. CASE s # {}
    <3>1. Chosen(s) \in s /\ TotalAmount(rows, s \ {Chosen(s)}) \in Nat
      BY <1>1, <2>3, ChosenLemma
    <3>2. rows[Chosen(s)].amount \in Nat
      BY <3>1
    <3> QED BY <2>1, <2>3, <3>1, <3>2 DEF Adds
  <2> QED BY <2>2, <2>3
<1>2. S \in G
  <2> HIDE DEF G
  <2> QED BY <1>1, SubsetInduction
<1> QED BY <1>2

\* Any element can be taken out first.
LEMMA TotalWithout ==
  ASSUME NEW rows, NEW S, IsFiniteSet(S), \A x \in S : rows[x].amount \in Nat, NEW e \in S
  PROVE  TotalAmount(rows, S) = rows[e].amount + TotalAmount(rows, S \ {e})
<1> DEFINE Out(s, x) == TotalAmount(rows, s) = rows[x].amount + TotalAmount(rows, s \ {x})
           G == {s \in SUBSET S : \A x \in s : Out(s, x)}
<1>1. ASSUME NEW s \in SUBSET S, \A t \in SUBSET s : t # s => t \in G
      PROVE  s \in G
  <2>1. SUFFICES ASSUME NEW x \in s PROVE Out(s, x)
    OBVIOUS
  <2> DEFINE y == Chosen(s)
  <2>2. y \in s
    BY ChosenLemma
  <2>3. Out(s, y)
    BY FS_Subset, TotalEquation DEF Adds
  <2> HIDE DEF y
  <2>4. CASE x # y
    <3>1. Out(s \ {y}, x) /\ Out(s \ {x}, y)
      BY <1>1, <2>2, <2>4
    <3>2. (s \ {x}) \ {y} = (s \ {y}) \ {x}
      OBVIOUS
    <3>3. /\ rows[x].amount \in Int /\ rows[y].amount \in Int
          /\ TotalAmount(rows, (s \ {y}) \ {x}) \in Int
      <4>1. (s \ {y}) \ {x} \in SUBSET S
        OBVIOUS
      <4>2. IsFiniteSet((s \ {y}) \ {x})
        BY <4>1, FS_Subset
      <4>3. TotalAmount(rows, (s \ {y}) \ {x}) \in Nat
        BY <4>1, <4>2, TotalType
      <4> QED BY <2>2, <4>3
    <3> DEFINE rest == TotalAmount(rows, (s \ {y}) \ {x})
    <3>4. /\ TotalAmount(rows, s) = rows[y].amount + (rows[x].amount + rest)
          /\ TotalAmount(rows, s \ {x}) = rows[y].amount + rest
      BY <2>3, <3>1, <3>2
    <3> HIDE DEF rest
    <3> QED BY <3>3, <3>4 DEF rest
  <2> QED BY <2>3, <2>4
<1>2. S \in G
  <2> HIDE DEF G
  <2> QED BY <1>1, SubsetInduction
<1> QED BY <1>2

\* A total depends on the amounts in it alone.
LEMMA TotalSame ==
  ASSUME NEW rows, NEW others, NEW S, IsFiniteSet(S), \A x \in S : rows[x].amount = others[x].amount
  PROVE  TotalAmount(rows, S) = TotalAmount(others, S)
<1> DEFINE G == {s \in SUBSET S : TotalAmount(rows, s) = TotalAmount(others, s)}
<1>1. ASSUME NEW s \in SUBSET S, \A t \in SUBSET s : t # s => t \in G
      PROVE  s \in G
  <2>1. Adds(rows, s) /\ Adds(others, s)
    BY FS_Subset, TotalEquation
  <2>2. CASE s = {}
    BY <2>1, <2>2 DEF Adds
  <2>3. CASE s # {}
    <3>1. Chosen(s) \in s /\ s \ {Chosen(s)} \in G
      BY <1>1, <2>3, ChosenLemma
    <3> QED BY <2>1, <2>3, <3>1 DEF Adds
  <2> QED BY <2>2, <2>3
<1>2. S \in G
  <2> HIDE DEF G
  <2> QED BY <1>1, SubsetInduction
<1> QED BY <1>2

(***************************************************************************)
(* Types, and what is settled.                                             *)
(***************************************************************************)
Sound(r) == r.rem <= Eps => r.status = "paid"

Inv == TypeOK /\ SettledIsPaid

LEMMA Inputs ==
  /\ Totals \subseteq Int /\ PaidEdits \subseteq Nat /\ PenaltyAmounts \subseteq Nat
  /\ DueDates \subseteq Int /\ AccrualDates \subseteq Int /\ PenaltyDates \subseteq Int
BY ParameterAssumption

(***************************************************************************)
(* What the save operators return.                                         *)
(***************************************************************************)
LEMMA SettledLemma ==
  ASSUME NEW r \in DebtRow
  PROVE  Settled(r) \in DebtRow /\ Sound(Settled(r))
BY EpsAssumption DEF Settled, Settles, DebtRow, Statuses, Sound

LEMMA WithBalanceLemma ==
  ASSUME NEW r \in DebtRow, NEW x \in Int
  PROVE  WithBalance(r, x) \in DebtRow /\ Sound(WithBalance(r, x))
<1>1. [r EXCEPT !.rem = x] \in DebtRow
  BY DEF DebtRow
<1> QED BY <1>1, SettledLemma DEF WithBalance

LEMMA ResetLemma ==
  ASSUME NEW r \in DebtRow
  PROVE  Reset(r) \in DebtRow /\ Sound(Reset(r))
<1>1. Outstanding(r) \in Int
  BY DEF DebtRow, Outstanding
<1> QED BY <1>1, WithBalanceLemma DEF Reset

LEMMA ChargedLemma ==
  ASSUME NEW r \in DebtRow, NEW a \in Int
  PROVE  Charged(r, a) \in DebtRow /\ Sound(Charged(r, a))
<1>1. Outstanding(r) + a \in Int
  BY DEF DebtRow, Outstanding
<1>2. Reset(r) \in DebtRow
  BY ResetLemma
<1> QED BY <1>1, <1>2, WithBalanceLemma DEF Charged

LEMMA RecalculatedLemma ==
  ASSUME NEW old \in DebtRow, NEW new \in DebtRow
  PROVE  /\ Recalculated(old, new) \in DebtRow
         /\ Recalculated(old, new).status = new.status
BY DEF Recalculated, DebtRow, Max0, Outstanding

LEMMA EditedRow ==
  ASSUME NEW r \in DebtRow, NEW total \in Int, NEW paid \in Nat, NEW status \in Statuses,
         NEW due \in Int, NEW accrued \in Int
  PROVE  [r EXCEPT !.total = total, !.paid = paid, !.status = status,
                   !.due = due, !.accrued = accrued] \in DebtRow
BY DEF DebtRow

LEMMA AccrualsLemma ==
  ASSUME NEW r \in DebtRow, NEW asOf \in Int, NEW s \in Accruals(r, asOf)
  PROVE  s \in DebtRow /\ (Sound(r) => Sound(s))
<1>1. CASE s = r
  BY <1>1
<1>2. CASE \E i \in InterestAmounts : s = WithBalance([r EXCEPT !.accrued = asOf], r.rem + i)
  <2>1. PICK i \in InterestAmounts : s = WithBalance([r EXCEPT !.accrued = asOf], r.rem + i)
    BY <1>2
  <2>2. [r EXCEPT !.accrued = asOf] \in DebtRow /\ r.rem + i \in Int
    BY ParameterAssumption DEF DebtRow
  <2> QED BY <2>1, <2>2, WithBalanceLemma
<1> QED BY <1>1, <1>2 DEF Accruals

(***************************************************************************)
(* How a step changes the debts and the penalties.                         *)
(***************************************************************************)
\* A payment recorded by the service or by an upload is confirmed in the same way.
LEMMA ConfirmedPayment ==
  ASSUME TypeOK, NEW d \in Debts, NEW p \in Payments,
         RecordPayment(d, p) \/ UploadNewPayment(d, p)
  PROVE  /\ \E date \in Int, amount \in PayAmounts :
              \E r \in Accruals(debts[d], date) : Confirm(d, p, r, amount)
         /\ Live(d) /\ payments[p].state = "none"
         /\ UNCHANGED <<penalties, today, entered>>
<1>1. \A date : debts[d] \in Accruals(debts[d], date)
  BY DEF Accruals
<1>2. PaymentDates \cup {today} \subseteq Int
  BY ParameterAssumption DEF TypeOK
<1>3. CASE RecordPayment(d, p)
  BY <1>2, <1>3 DEF RecordPayment
<1>4. CASE UploadNewPayment(d, p)
  BY <1>1, <1>4 DEF UploadNewPayment
<1> QED BY <1>3, <1>4

LEMMA DebtStep ==
  ASSUME Inv, NEW d \in Debts, NEW r \in DebtRow, Sound(r),
         debts' = [debts EXCEPT ![d] = r]
  PROVE  debts' \in [Debts -> DebtRow] /\ SettledIsPaid'
BY DEF Inv, TypeOK, SettledIsPaid, Sound, Exists

LEMMA NewPenaltyStep ==
  ASSUME TypeOK, NEW d \in Debts, NEW p \in Penalties, NEW a \in PenaltyAmounts,
         NEW date \in Int, NEW auto \in BOOLEAN,
         penalties' = [penalties EXCEPT ![p] = NewPenalty(d, a, date, auto)]
  PROVE  penalties' \in [Penalties -> PenaltyRow]
<1>1. NewPenalty(d, a, date, auto) \in PenaltyRow
  BY ParameterAssumption DEF NewPenalty, PenaltyRow, RowState
<1> QED BY <1>1 DEF TypeOK

LEMMA EnterOverdueStep ==
  ASSUME Inv, NEW d \in Debts, NEW r \in DebtRow, Sound(r), EnterOverdue(d, r)
  PROVE  /\ debts' \in [Debts -> DebtRow] /\ SettledIsPaid'
         /\ penalties' \in [Penalties -> PenaltyRow]
<1>1. CASE AutoPenalty /\ PastGrace(r) /\ ~PenaltySinceDue(d, r)
  <2>1. PICK p \in FreePenalties, a \in PenaltyAmounts :
           /\ penalties' = [penalties EXCEPT ![p] = NewPenalty(d, a, today, TRUE)]
           /\ debts' = [debts EXCEPT ![d] = Charged(r, a)]
    BY <1>1 DEF EnterOverdue
  <2>2. p \in Penalties /\ today \in Int /\ a \in Int
    BY ParameterAssumption DEF FreePenalties, Inv, TypeOK
  <2>3. Charged(r, a) \in DebtRow /\ Sound(Charged(r, a))
    BY <2>2, ChargedLemma
  <2>4. debts' \in [Debts -> DebtRow] /\ SettledIsPaid'
    BY <2>1, <2>3, DebtStep
  <2>5. penalties' \in [Penalties -> PenaltyRow]
    BY <2>1, <2>2, NewPenaltyStep DEF Inv
  <2> QED BY <2>4, <2>5
<1>2. CASE ~(AutoPenalty /\ PastGrace(r) /\ ~PenaltySinceDue(d, r))
  <2>1. debts' = [debts EXCEPT ![d] = r] /\ penalties' = penalties
    BY <1>2 DEF EnterOverdue
  <2> QED BY <2>1, DebtStep DEF Inv, TypeOK
<1> QED BY <1>1, <1>2

LEMMA SaveDebtStep ==
  ASSUME Inv, NEW d \in Debts, NEW new \in DebtRow, SaveDebt(d, new)
  PROVE  /\ debts' \in [Debts -> DebtRow] /\ SettledIsPaid'
         /\ penalties' \in [Penalties -> PenaltyRow]
<1> DEFINE r == Recalculated(debts[d], new)
<1>1. r \in DebtRow
  BY RecalculatedLemma DEF Inv, TypeOK
<1>2. ~Settles(r) => Sound(r)
  BY DEF Settles, Sound
<1> HIDE DEF r
<1>3. \/ /\ Settles(r)
         /\ debts' = [debts EXCEPT ![d] = Settled(r)] /\ UNCHANGED penalties
      \/ /\ ~Settles(r)
         /\ debts' = [debts EXCEPT ![d] = r] /\ UNCHANGED penalties
      \/ /\ ~Settles(r)
         /\ debts' = [debts EXCEPT ![d] = Restored(r)] /\ UNCHANGED penalties
      \/ ~Settles(r) /\ EnterOverdue(d, r)
  BY DEF SaveDebt, r
<1>4. CASE debts' = [debts EXCEPT ![d] = Settled(r)] /\ UNCHANGED penalties
  <2>1. Settled(r) \in DebtRow /\ Sound(Settled(r))
    BY <1>1, SettledLemma
  <2> QED BY <1>4, <2>1, DebtStep DEF Inv, TypeOK
<1>5. CASE ~Settles(r) /\ debts' = [debts EXCEPT ![d] = r] /\ UNCHANGED penalties
  BY <1>1, <1>2, <1>5, DebtStep DEF Inv, TypeOK
<1>6. CASE debts' = [debts EXCEPT ![d] = Restored(r)] /\ UNCHANGED penalties
  <2>1. [r EXCEPT !.status = "active"] \in DebtRow
    BY <1>1 DEF DebtRow, Statuses
  <2>2. Restored(r) \in DebtRow /\ Sound(Restored(r))
    BY <2>1, ResetLemma DEF Restored
  <2> QED BY <1>6, <2>2, DebtStep DEF Inv, TypeOK
<1>7. CASE ~Settles(r) /\ EnterOverdue(d, r)
  BY <1>1, <1>2, <1>7, EnterOverdueStep
<1> QED BY <1>3, <1>4, <1>5, <1>6, <1>7

(***************************************************************************)
(* Inv is inductive.                                                       *)
(***************************************************************************)
LEMMA Defaults == NoDebt \in DebtRow /\ NoPenalty \in PenaltyRow /\ NoPayment \in PaymentRow
<1>1. (CHOOSE d \in Debts : TRUE) \in Debts
  BY ParameterAssumption
<1> QED BY <1>1 DEF NoDebt, NoPenalty, NoPayment, DebtRow, PenaltyRow, PaymentRow, RowState,
             Statuses

LEMMA InvInit == Init => Inv
BY Defaults DEF Init, Inv, TypeOK, SettledIsPaid, Exists, NoDebt

LEMMA DebtCallStep ==
  ASSUME Inv, NEW d \in Debts, DebtCall(d)
  PROVE  Inv'
<1> USE DEF Inv
<1>1. CASE CreateDebt(d)
  <2>1. PICK total \in Totals, paid \in PaidEdits, status \in Statuses, due \in DueDates,
             accrued \in AccrualDates \cup {today} :
         /\ debts' = [debts EXCEPT ![d] =
              Settled([state |-> "live", total |-> total, paid |-> paid,
                       rem |-> Max0(total - paid), status |-> status,
                       due |-> due, accrued |-> accrued])]
         /\ entered' = [entered EXCEPT ![d] = paid]
    BY <1>1 DEF CreateDebt
  <2> DEFINE r == [state |-> "live", total |-> total, paid |-> paid,
                   rem |-> Max0(total - paid), status |-> status,
                   due |-> due, accrued |-> accrued]
  <2>2. r \in DebtRow
    BY ParameterAssumption DEF DebtRow, RowState, Max0, TypeOK
  <2>3. Settled(r) \in DebtRow /\ Sound(Settled(r))
    BY <2>2, SettledLemma
  <2>4. debts' \in [Debts -> DebtRow] /\ SettledIsPaid'
    BY <2>1, <2>3, DebtStep
  <2>5. entered' \in [Debts -> Int] /\ interest' \in [Debts -> Int]
    BY <1>1, <2>1, ParameterAssumption DEF CreateDebt, TypeOK
  <2> QED BY <1>1, <2>4, <2>5 DEF CreateDebt, TypeOK
<1>2. CASE UpdateDebt(d)
  <2>1. PICK total \in Totals \cup {debts[d].total}, paid \in PaidEdits \cup {debts[d].paid},
             status \in Statuses, due \in DueDates \cup {debts[d].due},
             accrued \in AccrualDates \cup {debts[d].accrued} :
         /\ SaveDebt(d, [debts[d] EXCEPT !.total = total, !.paid = paid, !.status = status,
                                         !.due = due, !.accrued = accrued])
         /\ entered' = [entered EXCEPT ![d] = @ + paid - debts[d].paid]
    BY <1>2 DEF UpdateDebt
  <2>2. [debts[d] EXCEPT !.total = total, !.paid = paid, !.status = status,
                         !.due = due, !.accrued = accrued] \in DebtRow
    <3>1. debts[d] \in DebtRow /\ debts[d].total \in Int /\ debts[d].paid \in Nat
          /\ debts[d].due \in Int /\ debts[d].accrued \in Int
      BY DEF DebtRow, TypeOK
    <3>2. total \in Int /\ paid \in Nat /\ due \in Int /\ accrued \in Int
      BY <3>1, Inputs
    <3> QED BY <3>1, <3>2, EditedRow
  <2>3. /\ debts' \in [Debts -> DebtRow] /\ SettledIsPaid'
        /\ penalties' \in [Penalties -> PenaltyRow]
    BY <2>1, <2>2, SaveDebtStep
  <2>4. entered' \in [Debts -> Int]
    BY <2>1, ParameterAssumption DEF DebtRow, TypeOK
  <2> QED BY <1>2, <2>3, <2>4 DEF UpdateDebt, TypeOK
<1>3. CASE CorrectTotal(d)
  <2>1. PICK total \in Totals : SaveDebt(d, [debts[d] EXCEPT !.total = total])
    BY <1>3 DEF CorrectTotal
  <2>2. [debts[d] EXCEPT !.total = total] \in DebtRow
    BY ParameterAssumption DEF DebtRow, TypeOK
  <2> QED BY <1>3, <2>1, <2>2, SaveDebtStep DEF CorrectTotal, TypeOK
<1>4. CASE Forgive(d)
  <2>1. PICK amount \in PayAmounts : SaveDebt(d, [debts[d] EXCEPT !.total = @ - amount])
    BY <1>4 DEF Forgive
  <2>2. [debts[d] EXCEPT !.total = @ - amount] \in DebtRow
    BY ParameterAssumption DEF DebtRow, TypeOK
  <2> QED BY <1>4, <2>1, <2>2, SaveDebtStep DEF Forgive, TypeOK
<1>5. CASE DeleteDebt(d)
  <2>1. [debts[d] EXCEPT !.state = "deleted"] \in DebtRow
    BY DEF DebtRow, RowState, TypeOK
  <2> QED BY <1>5, <2>1, SettledLemma, DebtStep DEF DeleteDebt, TypeOK
<1>6. CASE RestoreDebt(d)
  <2>1. [debts[d] EXCEPT !.state = "live"] \in DebtRow
    BY DEF DebtRow, RowState, TypeOK
  <2> QED BY <1>6, <2>1, SettledLemma, DebtStep DEF RestoreDebt, TypeOK
<1>7. CASE PurgeDebt(d)
  <2>1. debts' \in [Debts -> DebtRow] /\ SettledIsPaid'
    BY <1>7, Defaults DEF PurgeDebt, TypeOK, SettledIsPaid, Exists, NoDebt
  <2>2. penalties' \in [Penalties -> PenaltyRow]
    BY <1>7, Defaults DEF PurgeDebt, TypeOK
  <2>3. interest' \in [Debts -> Int] /\ entered' \in [Debts -> Int]
    BY <1>7 DEF PurgeDebt, TypeOK
  <2> QED BY <1>7, <2>1, <2>2, <2>3 DEF PurgeDebt, TypeOK
<1>8. CASE CreatePenalty(d)
  <2>1. PICK p \in FreePenalties, amount \in PenaltyAmounts,
             date \in PenaltyDates \cup {today}, auto \in BOOLEAN :
         /\ penalties' = [penalties EXCEPT ![p] = NewPenalty(d, amount, date, auto)]
         /\ debts' = [debts EXCEPT ![d] = Charged(@, amount)]
    BY <1>8 DEF CreatePenalty
  <2>2. p \in Penalties /\ amount \in Int /\ date \in Int /\ debts[d] \in DebtRow
    BY ParameterAssumption DEF FreePenalties, TypeOK
  <2>3. penalties' \in [Penalties -> PenaltyRow]
    BY <2>1, <2>2, NewPenaltyStep
  <2>4. debts' \in [Debts -> DebtRow] /\ SettledIsPaid'
    BY <2>1, <2>2, ChargedLemma, DebtStep
  <2> QED BY <1>8, <2>3, <2>4 DEF CreatePenalty, TypeOK
<1>9. ASSUME NEW p \in Payments, RecordPayment(d, p) \/ UploadNewPayment(d, p)
      PROVE  Inv'
  <2>1. PICK date \in Int, amount \in PayAmounts :
          \E r \in Accruals(debts[d], date) : Confirm(d, p, r, amount)
    BY <1>9, ConfirmedPayment
  <2>2. PICK r \in Accruals(debts[d], date) :
         /\ debts' = [debts EXCEPT ![d] =
                        Settled(Recalculated(r, [r EXCEPT !.paid = @ + amount]))]
         /\ payments' = [payments EXCEPT ![p] =
                           [state |-> "live", debt |-> d, amount |-> amount]]
         /\ RecordInterest(d, r)
    BY <2>1 DEF Confirm
  <2>3. debts[d] \in DebtRow /\ date \in Int /\ amount \in Nat
    BY ParameterAssumption DEF TypeOK
  <2>4. r \in DebtRow
    BY <2>3, AccrualsLemma
  <2>5. [r EXCEPT !.paid = @ + amount] \in DebtRow
    BY <2>3, <2>4 DEF DebtRow
  <2>6. Recalculated(r, [r EXCEPT !.paid = @ + amount]) \in DebtRow
    BY <2>4, <2>5, RecalculatedLemma
  <2>7. debts' \in [Debts -> DebtRow] /\ SettledIsPaid'
    BY <2>2, <2>6, SettledLemma, DebtStep
  <2>8. payments' \in [Payments -> PaymentRow]
    BY <2>2, <2>3 DEF TypeOK, PaymentRow
  <2>9. interest' \in [Debts -> Int]
    BY <2>2, <2>3, <2>4 DEF RecordInterest, DebtRow, TypeOK
  <2>10. UNCHANGED <<penalties, today, entered>>
    BY <1>9, ConfirmedPayment
  <2> QED BY <2>7, <2>8, <2>9, <2>10 DEF TypeOK
<1> QED BY <1>1, <1>2, <1>3, <1>4, <1>5, <1>6, <1>7, <1>8, <1>9 DEF DebtCall, StatuslessCall

LEMMA PenaltyCallStep ==
  ASSUME Inv, NEW p \in Penalties, PenaltyCall(p)
  PROVE  Inv'
<1> USE DEF Inv
<1> DEFINE d == penalties[p].debt
           b == Max0(debts[d].rem - penalties[p].amount)
<1>1. /\ d \in Debts /\ debts[d] \in DebtRow /\ penalties[p] \in PenaltyRow
      /\ penalties[p].amount \in Nat /\ penalties[p].date \in Int
  BY DEF TypeOK, PenaltyRow
<1>2. b \in Int
  BY <1>1 DEF Max0, DebtRow
<1>3. WithBalance(debts[d], b) \in DebtRow /\ Sound(WithBalance(debts[d], b))
  BY <1>1, <1>2, WithBalanceLemma
<1>4. Reset(WithBalance(debts[d], b)) \in DebtRow /\ Sound(Reset(WithBalance(debts[d], b)))
  BY <1>3, ResetLemma
<1>5. CASE UpdatePenalty(p)
  <2>1. PICK amount \in PenaltyAmounts \cup {penalties[p].amount},
             date \in PenaltyDates \cup {penalties[p].date}, auto \in BOOLEAN :
         /\ penalties' = [penalties EXCEPT ![p].amount = amount, ![p].date = date,
                                            ![p].auto = auto]
         /\ debts' = [debts EXCEPT ![d] =
              IF amount = penalties[p].amount THEN Reset(@)
              ELSE Reset(WithBalance(@, Max0(@.rem - penalties[p].amount + amount)))]
    BY <1>5 DEF UpdatePenalty
  <2>2. amount \in Nat /\ date \in Int
    BY <1>1, Inputs
  <2>3. penalties' \in [Penalties -> PenaltyRow]
    BY <1>1, <2>1, <2>2 DEF TypeOK, PenaltyRow
  <2> DEFINE c == Max0(debts[d].rem - penalties[p].amount + amount)
  <2>4. c \in Int
    BY <1>1, <2>2 DEF Max0, DebtRow
  <2>5. /\ Reset(debts[d]) \in DebtRow /\ Sound(Reset(debts[d]))
        /\ Reset(WithBalance(debts[d], c)) \in DebtRow
        /\ Sound(Reset(WithBalance(debts[d], c)))
    BY <1>1, <2>4, ResetLemma, WithBalanceLemma
  <2>6. debts' \in [Debts -> DebtRow] /\ SettledIsPaid'
    BY <1>1, <2>1, <2>5, DebtStep
  <2> QED BY <1>5, <2>3, <2>6 DEF UpdatePenalty, TypeOK
<1>6. CASE DeletePenalty(p)
  <2>1. penalties' \in [Penalties -> PenaltyRow]
    BY <1>1, <1>6 DEF DeletePenalty, TypeOK, PenaltyRow, RowState
  <2>2. debts' \in [Debts -> DebtRow] /\ SettledIsPaid'
    BY <1>1, <1>4, <1>6, DebtStep DEF DeletePenalty
  <2> QED BY <1>6, <2>1, <2>2 DEF DeletePenalty, TypeOK
<1>7. CASE RestorePenalty(p)
  <2>1. penalties' \in [Penalties -> PenaltyRow]
    BY <1>1, <1>7 DEF RestorePenalty, TypeOK, PenaltyRow, RowState
  <2>2. debts' \in [Debts -> DebtRow] /\ SettledIsPaid'
    <3>1. debts' = [debts EXCEPT ![d] = Charged(debts[d], penalties[p].amount)]
      BY <1>7 DEF RestorePenalty
    <3>2. /\ Charged(debts[d], penalties[p].amount) \in DebtRow
          /\ Sound(Charged(debts[d], penalties[p].amount))
      BY <1>1, ChargedLemma
    <3> QED BY <1>1, <3>1, <3>2, DebtStep
  <2> QED BY <1>7, <2>1, <2>2 DEF RestorePenalty, TypeOK
<1>8. CASE PurgePenalty(p)
  <2>1. penalties' \in [Penalties -> PenaltyRow]
    BY <1>8, Defaults DEF PurgePenalty, TypeOK
  <2>2. debts' \in [Debts -> DebtRow] /\ SettledIsPaid'
    <3>1. CASE penalties[p].state = "live"
      BY <1>1, <1>3, <1>8, <3>1, DebtStep DEF PurgePenalty
    <3>2. CASE penalties[p].state # "live"
      BY <1>8, <3>2 DEF PurgePenalty, TypeOK, SettledIsPaid, Exists
    <3> QED BY <3>1, <3>2
  <2> QED BY <1>8, <2>1, <2>2 DEF PurgePenalty, TypeOK
<1> QED BY <1>5, <1>6, <1>7, <1>8 DEF PenaltyCall

LEMMA JobStep ==
  ASSUME Inv, NEW d \in Debts, Job(d)
  PROVE  Inv'
<1> USE DEF Inv
<1>1. debts[d] \in DebtRow /\ today \in Int
  BY DEF TypeOK
<1>2. Live(d) => Sound(debts[d])
  BY DEF SettledIsPaid, Exists, Live, Sound
<1>3. CASE AccrueDaily(d)
  <2>1. PICK r \in Accruals(debts[d], today) :
           debts' = [debts EXCEPT ![d] = r] /\ RecordInterest(d, r)
    BY <1>3 DEF AccrueDaily
  <2>2. r \in DebtRow /\ Sound(r)
    BY <1>1, <1>2, <1>3, AccrualsLemma DEF AccrueDaily
  <2>3. debts' \in [Debts -> DebtRow] /\ SettledIsPaid'
    BY <2>1, <2>2, DebtStep
  <2>4. interest' \in [Debts -> Int]
    BY <1>1, <2>1, <2>2 DEF RecordInterest, DebtRow, TypeOK
  <2> QED BY <1>3, <2>3, <2>4 DEF AccrueDaily, TypeOK
<1>4. CASE ApplyAutoPenalties(d) \/ RunAutoPenalties(d)
  <2>1. PICK p \in FreePenalties, amount \in PenaltyAmounts :
         /\ penalties' = [penalties EXCEPT ![p] = NewPenalty(d, amount, today, TRUE)]
         /\ debts' = [debts EXCEPT ![d] = Charged(@, amount)]
    BY <1>4 DEF ApplyAutoPenalties, RunAutoPenalties, ChargeAutoPenalty
  <2>2. p \in Penalties /\ amount \in Int
    BY ParameterAssumption DEF FreePenalties
  <2>3. penalties' \in [Penalties -> PenaltyRow]
    BY <1>1, <2>1, <2>2, NewPenaltyStep
  <2>4. debts' \in [Debts -> DebtRow] /\ SettledIsPaid'
    BY <1>1, <2>1, <2>2, ChargedLemma, DebtStep
  <2> QED BY <1>4, <2>3, <2>4
          DEF ApplyAutoPenalties, RunAutoPenalties, ChargeAutoPenalty, TypeOK
<1>5. CASE UpdateOverdueStatuses(d)
  <2> DEFINE r == [debts[d] EXCEPT !.status = "overdue"]
  <2>1. r \in DebtRow /\ Sound(r)
    BY <1>1, <1>5, EpsAssumption DEF UpdateOverdueStatuses, DebtRow, Statuses, Sound
  <2>2. /\ debts' \in [Debts -> DebtRow] /\ SettledIsPaid'
        /\ penalties' \in [Penalties -> PenaltyRow]
    BY <1>5, <2>1, EnterOverdueStep DEF UpdateOverdueStatuses
  <2> QED BY <1>5, <2>2 DEF UpdateOverdueStatuses, TypeOK
<1>6. CASE CorrectMisoverdue(d)
  <2>1. PICK status \in {"paid", "active"} : SaveDebt(d, [debts[d] EXCEPT !.status = status])
    BY <1>6 DEF CorrectMisoverdue
  <2>2. [debts[d] EXCEPT !.status = status] \in DebtRow
    BY <1>1 DEF DebtRow, Statuses
  <2> QED BY <1>6, <2>1, <2>2, SaveDebtStep DEF CorrectMisoverdue, TypeOK
<1> QED BY <1>3, <1>4, <1>5, <1>6 DEF Job

LEMMA UploadStep ==
  ASSUME Inv, NEW p \in Payments, UploadPayment(p)
  PROVE  Inv'
<1> USE DEF Inv
<1>1. PICK d \in Debts, amount \in PayAmounts \cup {payments[p].amount} :
        LET new == [payments[p] EXCEPT !.debt = d, !.amount = amount]
        IN  /\ payments' = [payments EXCEPT ![p] = new]
            /\ entered' = [e \in Debts |-> entered[e] + PaidBy(payments[p], e) - PaidBy(new, e)]
  BY DEF UploadPayment
<1> DEFINE new == [payments[p] EXCEPT !.debt = d, !.amount = amount]
<1>2. payments[p] \in PaymentRow /\ amount \in Nat
  BY ParameterAssumption DEF TypeOK, PaymentRow
<1>3. new \in PaymentRow
  BY <1>2 DEF PaymentRow
<1>4. \A e : PaidBy(payments[p], e) \in Nat /\ PaidBy(new, e) \in Nat
  BY <1>2, <1>3 DEF PaidBy, PaymentRow
<1> HIDE DEF new
<1>5. payments' \in [Payments -> PaymentRow]
  BY <1>1, <1>3 DEF TypeOK, new
<1>6. entered' \in [Debts -> Int]
  BY <1>1, <1>4 DEF TypeOK, new
<1> QED BY <1>5, <1>6 DEF UploadPayment, TypeOK, SettledIsPaid, Exists

LEMMA InvNext == Inv /\ [Next]_vars => Inv'
<1> SUFFICES ASSUME Inv, [Next]_vars PROVE Inv'
  OBVIOUS
<1>1. CASE \E d \in Debts : DebtCall(d) \/ Job(d)
  BY <1>1, DebtCallStep, JobStep
<1>2. CASE \E p \in Penalties : PenaltyCall(p)
  BY <1>2, PenaltyCallStep
<1>3. CASE NextDay
  BY <1>3 DEF NextDay, Inv, TypeOK, SettledIsPaid, Exists
<1>4. CASE UNCHANGED vars
  BY <1>4 DEF vars, Inv, TypeOK, SettledIsPaid, Exists
<1>5. CASE \E p \in Payments : UploadPayment(p)
  BY <1>5, UploadStep
<1> QED BY <1>1, <1>2, <1>3, <1>4, <1>5 DEF Next

THEOREM InvAlways == Spec => []Inv
BY InvInit, InvNext, PTL DEF Spec

(* Every row keeps its shape: amounts stay integers, paid amounts natural  *)
(* numbers, statuses among the four choices of the model.                  *)
THEOREM TypeCorrect == Spec => []TypeOK
<1>1. Inv => TypeOK
  BY DEF Inv
<1> QED BY <1>1, InvAlways, PTL

(* After every service call and job step, a debt whose balance is at most  *)
(* Eps is marked paid, whatever the amounts, dates, settings and numbers   *)
(* of debts, penalties and payments.                                       *)
THEOREM SettledDebtsArePaid == Spec => []SettledIsPaid
<1>1. Inv => SettledIsPaid
  BY DEF Inv
<1> QED BY <1>1, InvAlways, PTL

(***************************************************************************)
(* A paid debt stays paid.                                                 *)
(***************************************************************************)
KeepsPaid == \A d \in Debts : debts[d].status = "paid" => debts'[d].status = "paid"

LEMMA PaidRows ==
  ASSUME NEW r \in DebtRow, r.status = "paid"
  PROVE  /\ Settled(r).status = "paid" /\ Reset(r).status = "paid"
         /\ \A x : WithBalance(r, x).status = "paid" /\ Charged(r, x).status = "paid"
<1>1. ASSUME NEW s \in DebtRow, s.status = "paid", NEW x
      PROVE  /\ WithBalance(s, x).status = "paid"
             /\ WithBalance(s, x) = [s EXCEPT !.rem = x]
  BY <1>1 DEF WithBalance, Settled, Settles, DebtRow
<1>2. Settled(r).status = "paid"
  BY DEF Settled, Settles
<1>3. Outstanding(r) \in Int
  BY DEF Outstanding, DebtRow
<1>4. Reset(r) \in DebtRow /\ Reset(r).status = "paid"
  BY <1>1, <1>3 DEF Reset, DebtRow
<1>5. \A x : Charged(r, x).status = "paid"
  BY <1>1, <1>4 DEF Charged
<1> QED BY <1>1, <1>2, <1>4, <1>5

LEMMA RowKeepsPaid ==
  ASSUME TypeOK, NEW d \in Debts, NEW r, debts' = [debts EXCEPT ![d] = r],
         debts[d].status = "paid" => r.status = "paid"
  PROVE  KeepsPaid
BY DEF TypeOK, KeepsPaid

LEMMA EnterOverdueFrame ==
  ASSUME TypeOK, NEW d \in Debts, NEW r, EnterOverdue(d, r)
  PROVE  \E s : debts' = [debts EXCEPT ![d] = s]
BY DEF EnterOverdue

LEMMA SaveDebtFrame ==
  ASSUME TypeOK, NEW d \in Debts, NEW new \in DebtRow, SaveDebt(d, new)
  PROVE  /\ \E s : debts' = [debts EXCEPT ![d] = s]
         /\ new.status = debts[d].status => KeepsPaid
<1> DEFINE r == Recalculated(debts[d], new)
<1>1. debts[d] \in DebtRow
  BY DEF TypeOK
<1>2. r \in DebtRow /\ r.status = new.status
  BY <1>1, RecalculatedLemma
<1> HIDE DEF r
<1>3. \/ Settles(r) /\ debts' = [debts EXCEPT ![d] = Settled(r)]
      \/ debts' = [debts EXCEPT ![d] = r]
      \/ r.status # debts[d].status /\ debts' = [debts EXCEPT ![d] = Restored(r)]
      \/ r.status # debts[d].status /\ EnterOverdue(d, r)
  BY DEF SaveDebt, r
<1>4. \E s : debts' = [debts EXCEPT ![d] = s]
  BY <1>3, EnterOverdueFrame
<1>5. ASSUME new.status = debts[d].status
      PROVE  KeepsPaid
  <2>1. CASE debts' = [debts EXCEPT ![d] = Settled(r)]
    BY <1>2, <1>5, <2>1, PaidRows, RowKeepsPaid
  <2>2. CASE debts' = [debts EXCEPT ![d] = r]
    BY <1>2, <1>5, <2>2, RowKeepsPaid
  <2> QED BY <1>2, <1>3, <1>5, <2>1, <2>2
<1> QED BY <1>4, <1>5

LEMMA StatuslessCallKeepsPaid ==
  ASSUME TypeOK, NEW d \in Debts, StatuslessCall(d)
  PROVE  KeepsPaid
<1>1. debts[d] \in DebtRow
  BY DEF TypeOK
<1>2. CASE CorrectTotal(d)
  <2>1. PICK total \in Totals : SaveDebt(d, [debts[d] EXCEPT !.total = total])
    BY <1>2 DEF CorrectTotal
  <2>2. /\ [debts[d] EXCEPT !.total = total] \in DebtRow
        /\ [debts[d] EXCEPT !.total = total].status = debts[d].status
    BY <1>1, ParameterAssumption DEF DebtRow
  <2> QED BY <2>1, <2>2, SaveDebtFrame
<1>3. CASE Forgive(d)
  <2>1. PICK amount \in PayAmounts : SaveDebt(d, [debts[d] EXCEPT !.total = @ - amount])
    BY <1>3 DEF Forgive
  <2>2. /\ [debts[d] EXCEPT !.total = @ - amount] \in DebtRow
        /\ [debts[d] EXCEPT !.total = @ - amount].status = debts[d].status
    BY <1>1, ParameterAssumption DEF DebtRow
  <2> QED BY <2>1, <2>2, SaveDebtFrame
<1>4. CASE DeleteDebt(d) \/ RestoreDebt(d)
  <2>1. PICK state \in RowState :
          debts' = [debts EXCEPT ![d] = Settled([debts[d] EXCEPT !.state = state])]
    BY <1>4 DEF DeleteDebt, RestoreDebt, RowState
  <2>2. /\ [debts[d] EXCEPT !.state = state] \in DebtRow
        /\ [debts[d] EXCEPT !.state = state].status = debts[d].status
    BY <1>1 DEF DebtRow
  <2> QED BY <2>1, <2>2, PaidRows, RowKeepsPaid
<1>5. CASE CreatePenalty(d)
  <2>1. \E x : debts' = [debts EXCEPT ![d] = Charged(debts[d], x)]
    BY <1>5 DEF CreatePenalty
  <2> QED BY <1>1, <2>1, PaidRows, RowKeepsPaid
<1>6. ASSUME NEW p \in Payments, RecordPayment(d, p) \/ UploadNewPayment(d, p)
       PROVE  KeepsPaid
  <2>1. PICK date \in Int, amount \in PayAmounts :
          \E r \in Accruals(debts[d], date) : Confirm(d, p, r, amount)
    BY <1>6, ConfirmedPayment
  <2>2. PICK r \in Accruals(debts[d], date) :
          debts' = [debts EXCEPT ![d] =
                      Settled(Recalculated(r, [r EXCEPT !.paid = @ + amount]))]
    BY <2>1 DEF Confirm
  <2>3. date \in Int /\ amount \in Nat
    BY ParameterAssumption
  <2>4. r \in DebtRow
    BY <1>1, <2>3, AccrualsLemma
  <2>5. debts[d].status = "paid" => r = debts[d]
    BY DEF Accruals, OpenStatuses
  <2> DEFINE s == [r EXCEPT !.paid = @ + amount]
  <2>6. s \in DebtRow /\ s.status = r.status
    BY <2>3, <2>4 DEF DebtRow
  <2>7. Recalculated(r, s) \in DebtRow /\ Recalculated(r, s).status = r.status
    BY <2>4, <2>6, RecalculatedLemma
  <2>8. debts[d].status = "paid" => Settled(Recalculated(r, s)).status = "paid"
    BY <2>5, <2>7, PaidRows
  <2> QED BY <2>2, <2>8, RowKeepsPaid
<1> QED BY <1>2, <1>3, <1>4, <1>5, <1>6 DEF StatuslessCall

LEMMA PenaltyCallKeepsPaid ==
  ASSUME TypeOK, NEW p \in Penalties, PenaltyCall(p)
  PROVE  KeepsPaid
<1> DEFINE d == penalties[p].debt
<1>1. d \in Debts /\ debts[d] \in DebtRow
  BY DEF TypeOK, PenaltyRow
<1>2. CASE debts' = debts
  BY <1>2 DEF KeepsPaid
<1>3. ASSUME NEW x, debts' = [debts EXCEPT ![d] = WithBalance(debts[d], x)]
      PROVE  KeepsPaid
  BY <1>1, <1>3, PaidRows, RowKeepsPaid
<1>4. ASSUME NEW x, debts' = [debts EXCEPT ![d] = Charged(debts[d], x)]
      PROVE  KeepsPaid
  BY <1>1, <1>4, PaidRows, RowKeepsPaid
<1>5. CASE debts' = [debts EXCEPT ![d] = Reset(debts[d])]
  BY <1>1, <1>5, PaidRows, RowKeepsPaid
<1>6. ASSUME NEW x \in Int,
             debts' = [debts EXCEPT ![d] = Reset(WithBalance(debts[d], x))]
      PROVE  KeepsPaid
  <2>1. WithBalance(debts[d], x) \in DebtRow
    BY <1>1, WithBalanceLemma
  <2>2. debts[d].status = "paid" => Reset(WithBalance(debts[d], x)).status = "paid"
    BY <1>1, <2>1, PaidRows
  <2> QED BY <1>1, <1>6, <2>2, RowKeepsPaid
<1>7. penalties[p].amount \in Nat /\ debts[d].rem \in Int
  BY <1>1 DEF TypeOK, PenaltyRow, DebtRow
<1>8. CASE UpdatePenalty(p)
  <2>1. PICK amount \in PenaltyAmounts \cup {penalties[p].amount} :
          debts' = [debts EXCEPT ![d] =
            IF amount = penalties[p].amount THEN Reset(debts[d])
            ELSE Reset(WithBalance(debts[d], Max0(debts[d].rem - penalties[p].amount + amount)))]
    BY <1>8 DEF UpdatePenalty
  <2>2. amount \in Nat
    BY <1>7, Inputs
  <2>3. Max0(debts[d].rem - penalties[p].amount + amount) \in Int
    BY <1>7, <2>2 DEF Max0
  <2> QED BY <1>5, <1>6, <2>1, <2>3
<1>9. CASE DeletePenalty(p)
  <2>1. debts' = [debts EXCEPT ![d] =
                    Reset(WithBalance(debts[d], Max0(debts[d].rem - penalties[p].amount)))]
    BY <1>9 DEF DeletePenalty
  <2>2. Max0(debts[d].rem - penalties[p].amount) \in Int
    BY <1>7 DEF Max0
  <2> QED BY <1>6, <2>1, <2>2
<1>10. CASE RestorePenalty(p)
  BY <1>4, <1>10 DEF RestorePenalty
<1>11. CASE PurgePenalty(p)
  BY <1>2, <1>3, <1>11 DEF PurgePenalty
<1> QED BY <1>8, <1>9, <1>10, <1>11 DEF PenaltyCall

LEMMA JobKeepsPaid ==
  ASSUME TypeOK, NEW d \in Debts, Job(d)
  PROVE  KeepsPaid
<1>1. debts[d] \in DebtRow
  BY DEF TypeOK
<1>2. CASE AccrueDaily(d)
  <2>1. PICK r \in Accruals(debts[d], today) : debts' = [debts EXCEPT ![d] = r]
    BY <1>2 DEF AccrueDaily
  <2>2. debts[d].status = "paid" => r = debts[d]
    BY DEF Accruals, OpenStatuses
  <2> QED BY <2>1, <2>2, RowKeepsPaid
<1>3. CASE ApplyAutoPenalties(d) \/ RunAutoPenalties(d)
  <2>1. \E x : debts' = [debts EXCEPT ![d] = Charged(debts[d], x)]
    BY <1>3 DEF ApplyAutoPenalties, RunAutoPenalties, ChargeAutoPenalty
  <2> QED BY <1>1, <2>1, PaidRows, RowKeepsPaid
<1>4. CASE UpdateOverdueStatuses(d)
  <2>1. \E s : debts' = [debts EXCEPT ![d] = s]
    BY <1>4, EnterOverdueFrame DEF UpdateOverdueStatuses
  <2> QED BY <1>4, <2>1, RowKeepsPaid DEF UpdateOverdueStatuses
<1>5. CASE CorrectMisoverdue(d)
  <2>1. PICK status \in {"paid", "active"} : SaveDebt(d, [debts[d] EXCEPT !.status = status])
    BY <1>5 DEF CorrectMisoverdue
  <2>2. [debts[d] EXCEPT !.status = status] \in DebtRow
    BY <1>1 DEF DebtRow, Statuses
  <2>3. \E s : debts' = [debts EXCEPT ![d] = s]
    BY <2>1, <2>2, SaveDebtFrame
  <2> QED BY <1>5, <2>3, RowKeepsPaid DEF CorrectMisoverdue
<1> QED BY <1>2, <1>3, <1>4, <1>5 DEF Job

(* No payment, penalty call, forgiveness or job ever takes a debt out of   *)
(* "paid": whoever finds it reopened will find a user's edit.              *)
THEOREM PaidUntilEdited == Spec => OnlyUsersReopen
<1>1. ASSUME TypeOK, NEW d \in Debts,
             debts[d].status = "paid" /\ debts'[d].status # "paid"
      PROVE  /\ ~StatuslessCall(d) /\ ~Job(d)
             /\ ~\E p \in Penalties : PenaltyCall(p)
  <2>1. ~KeepsPaid
    BY <1>1 DEF KeepsPaid
  <2> QED BY <1>1, <2>1, StatuslessCallKeepsPaid, JobKeepsPaid, PenaltyCallKeepsPaid
<1>2. TypeOK /\ [Next]_vars =>
        [\A d \in Debts : debts[d].status = "paid" /\ debts'[d].status # "paid" =>
           /\ ~StatuslessCall(d) /\ ~Job(d)
           /\ ~\E p \in Penalties : PenaltyCall(p)]_vars
  BY <1>1
<1> QED BY <1>2, TypeCorrect, PTL DEF Spec, OnlyUsersReopen

(***************************************************************************)
(* One automatic penalty per day.                                          *)
(***************************************************************************)
\* What every step does but a user's that enters, restores or edits a penalty: it takes penalties out
\* of force, or puts one in force that is not automatic, or of a date no other of its debt has.
DropsPenalties ==
  \A p \in Penalties : penalties'[p] = penalties[p] \/ penalties'[p].state # "live"

AddsPenalty ==
  \E d \in Debts, p \in Penalties, a \in PenaltyAmounts, date \in Int, auto \in BOOLEAN :
    /\ penalties' = [penalties EXCEPT ![p] = NewPenalty(d, a, date, auto)]
    /\ auto => \A q \in LivePenalties(d) : penalties[q].date # date

LEMMA DropsKeeps ==
  ASSUME DropsPenalties, NEW d \in Debts, ChargedTwice(d)'
  PROVE  ChargedTwice(d)
BY DEF DropsPenalties, ChargedTwice, LivePenalties

LEMMA AddsKeeps ==
  ASSUME TypeOK, AddsPenalty, NEW d \in Debts, ChargedTwice(d)'
  PROVE  ChargedTwice(d)
<1>1. PICK c \in Debts, n \in Penalties, a \in PenaltyAmounts, date \in Int, auto \in BOOLEAN :
        /\ penalties' = [penalties EXCEPT ![n] = NewPenalty(c, a, date, auto)]
        /\ auto => \A q \in LivePenalties(c) : penalties[q].date # date
  BY DEF AddsPenalty
<1>2. /\ penalties'[n] = NewPenalty(c, a, date, auto)
      /\ \A p \in Penalties \ {n} : penalties'[p] = penalties[p]
  BY <1>1 DEF TypeOK
<1>3. PICK p \in Penalties, q \in Penalties :
        /\ p # q
        /\ penalties'[p].state = "live" /\ penalties'[p].debt = d
        /\ penalties'[q].state = "live" /\ penalties'[q].debt = d
        /\ penalties'[p].auto /\ penalties'[q].auto /\ penalties'[p].date = penalties'[q].date
  BY DEF ChargedTwice, LivePenalties
<1>4. ASSUME n \in {p, q} PROVE FALSE
  <2>1. auto /\ c = d /\ date = penalties'[p].date
    BY <1>2, <1>3, <1>4 DEF NewPenalty
  <2>2. \A r \in Penalties \ {n} : penalties[r].state = "live" /\ penalties[r].debt = d
                                   => penalties[r].date # date
    BY <1>1, <2>1 DEF LivePenalties
  <2> QED BY <1>2, <1>3, <1>4, <2>1, <2>2
<1> QED BY <1>2, <1>3, <1>4 DEF ChargedTwice, LivePenalties

\* A debt past its grace period that has had no penalty since it was due has none of today.
LEMMA SinceDueSinceToday ==
  ASSUME TypeOK, NEW d \in Debts, NEW r \in DebtRow, PastGrace(r), ~PenaltySinceDue(d, r)
  PROVE  \A q \in LivePenalties(d) : penalties[q].date # today
<1>1. r.due \in Int /\ today \in Int /\ Grace \in Nat /\ \A q \in Penalties : penalties[q].date \in Int
  BY ParameterAssumption DEF TypeOK, DebtRow, PenaltyRow
<1>2. r.due < today
  BY <1>1 DEF PastGrace
<1> QED BY <1>1, <1>2 DEF PenaltySinceDue, LivePenalties

LEMMA EnterOverdueAdds ==
  ASSUME TypeOK, NEW d \in Debts, NEW r \in DebtRow, EnterOverdue(d, r)
  PROVE  DropsPenalties \/ AddsPenalty
<1>1. CASE UNCHANGED penalties
  BY <1>1 DEF DropsPenalties
<1>2. ASSUME PastGrace(r), ~PenaltySinceDue(d, r),
             NEW p \in FreePenalties, NEW a \in PenaltyAmounts,
             penalties' = [penalties EXCEPT ![p] = NewPenalty(d, a, today, TRUE)]
      PROVE  AddsPenalty
  <2>1. \A q \in LivePenalties(d) : penalties[q].date # today
    BY <1>2, SinceDueSinceToday
  <2>2. p \in Penalties /\ today \in Int
    BY DEF FreePenalties, TypeOK
  <2> QED BY <1>2, <2>1, <2>2 DEF AddsPenalty
<1> QED BY <1>1, <1>2 DEF EnterOverdue

LEMMA SaveDebtAdds ==
  ASSUME TypeOK, NEW d \in Debts, NEW new \in DebtRow, SaveDebt(d, new)
  PROVE  DropsPenalties \/ AddsPenalty
<1>1. Recalculated(debts[d], new) \in DebtRow
  BY RecalculatedLemma DEF TypeOK
<1>2. UNCHANGED penalties \/ EnterOverdue(d, Recalculated(debts[d], new))
  BY DEF SaveDebt
<1> QED BY <1>1, <1>2, EnterOverdueAdds DEF DropsPenalties

LEMMA EditAdds ==
  ASSUME TypeOK, NEW d \in Debts, UpdateDebt(d) \/ CorrectTotal(d) \/ Forgive(d)
  PROVE  DropsPenalties \/ AddsPenalty
<1>1. debts[d] \in DebtRow
  BY DEF TypeOK
<1>2. CASE UpdateDebt(d)
  <2>1. PICK total \in Totals \cup {debts[d].total}, paid \in PaidEdits \cup {debts[d].paid},
             status \in Statuses, due \in DueDates \cup {debts[d].due},
             accrued \in AccrualDates \cup {debts[d].accrued} :
          SaveDebt(d, [debts[d] EXCEPT !.total = total, !.paid = paid, !.status = status,
                                       !.due = due, !.accrued = accrued])
    BY <1>2 DEF UpdateDebt
  <2>2. total \in Int /\ paid \in Nat /\ due \in Int /\ accrued \in Int
    BY <1>1, Inputs DEF DebtRow
  <2> QED BY <1>1, <2>1, <2>2, EditedRow, SaveDebtAdds
<1>3. CASE CorrectTotal(d) \/ Forgive(d)
  <2>1. CASE CorrectTotal(d)
    <3>1. PICK total \in Totals : SaveDebt(d, [debts[d] EXCEPT !.total = total])
      BY <2>1 DEF CorrectTotal
    <3>2. [debts[d] EXCEPT !.total = total] \in DebtRow
      BY <1>1, Inputs DEF DebtRow
    <3> QED BY <3>1, <3>2, SaveDebtAdds
  <2>2. CASE Forgive(d)
    <3>1. PICK amount \in PayAmounts : SaveDebt(d, [debts[d] EXCEPT !.total = @ - amount])
      BY <2>2 DEF Forgive
    <3>2. [debts[d] EXCEPT !.total = @ - amount] \in DebtRow
      BY <1>1, ParameterAssumption DEF DebtRow
    <3> QED BY <3>1, <3>2, SaveDebtAdds
  <2> QED BY <1>3, <2>1, <2>2
<1> QED BY <1>2, <1>3

LEMMA DebtCallAdds ==
  ASSUME TypeOK, NEW d \in Debts, DebtCall(d), ~CreatePenalty(d)
  PROVE  DropsPenalties \/ AddsPenalty
<1>2. CASE UNCHANGED penalties
  BY <1>2 DEF DropsPenalties
<1>3. CASE \/ CreateDebt(d) \/ DeleteDebt(d) \/ RestoreDebt(d)
            \/ \E p \in Payments : RecordPayment(d, p) \/ UploadNewPayment(d, p)
  BY <1>2, <1>3 DEF CreateDebt, DeleteDebt, RestoreDebt, RecordPayment, UploadNewPayment
<1>4. CASE UpdateDebt(d) \/ CorrectTotal(d) \/ Forgive(d)
  BY <1>4, EditAdds
<1>5. CASE PurgeDebt(d)
  <2>1. \A p \in Penalties : penalties'[p] = penalties[p] \/ penalties'[p] = NoPenalty
    BY <1>5 DEF PurgeDebt
  <2>2. NoPenalty.state # "live"
    BY DEF NoPenalty
  <2> QED BY <2>1, <2>2 DEF DropsPenalties
<1> QED BY <1>3, <1>4, <1>5 DEF DebtCall, StatuslessCall

LEMMA JobAdds ==
  ASSUME TypeOK, NEW d \in Debts, Job(d)
  PROVE  DropsPenalties \/ AddsPenalty
<1>1. debts[d] \in DebtRow
  BY DEF TypeOK
<1>2. CASE AccrueDaily(d)
  BY <1>2 DEF AccrueDaily, DropsPenalties
<1>3. CASE ApplyAutoPenalties(d) \/ RunAutoPenalties(d)
  <2>1. \A q \in LivePenalties(d) : penalties[q].date # today
    <3>1. CASE ApplyAutoPenalties(d)
      BY <1>1, <3>1, SinceDueSinceToday DEF ApplyAutoPenalties, PenaltyCandidate
    <3>2. CASE RunAutoPenalties(d)
      BY <3>2 DEF RunAutoPenalties
    <3> QED BY <1>3, <3>1, <3>2
  <2>2. PICK p \in FreePenalties, a \in PenaltyAmounts :
          penalties' = [penalties EXCEPT ![p] = NewPenalty(d, a, today, TRUE)]
    BY <1>3 DEF ApplyAutoPenalties, RunAutoPenalties, ChargeAutoPenalty
  <2>3. p \in Penalties /\ today \in Int
    BY DEF FreePenalties, TypeOK
  <2> QED BY <2>1, <2>2, <2>3 DEF AddsPenalty
<1>4. CASE UpdateOverdueStatuses(d)
  <2>1. [debts[d] EXCEPT !.status = "overdue"] \in DebtRow
    BY <1>1 DEF DebtRow, Statuses
  <2> QED BY <1>4, <2>1, EnterOverdueAdds DEF UpdateOverdueStatuses
<1>5. CASE CorrectMisoverdue(d)
  <2>1. PICK status \in {"paid", "active"} : SaveDebt(d, [debts[d] EXCEPT !.status = status])
    BY <1>5 DEF CorrectMisoverdue
  <2>2. [debts[d] EXCEPT !.status = status] \in DebtRow
    BY <1>1 DEF DebtRow, Statuses
  <2> QED BY <2>1, <2>2, SaveDebtAdds
<1> QED BY <1>2, <1>3, <1>4, <1>5 DEF Job

LEMMA ChargesAdd ==
  ASSUME TypeOK, NEW d \in Debts, Charges(d)
  PROVE  DropsPenalties \/ AddsPenalty
<1>1. CASE Job(d)
  BY <1>1, JobAdds
<1>2. CASE UpdateDebt(d) \/ CorrectTotal(d) \/ Forgive(d)
  BY <1>2, EditAdds
<1> QED BY <1>1, <1>2 DEF Charges

\* The overdue transition, the nightly task and the endpoint never charge a debt twice in a
\* day between them, whatever the grace period, due dates and penalties; only a user who enters,
\* restores or edits an automatic penalty makes two of a date.
THEOREM AutoPenaltyOncePerDay == Spec => OneAutoPenaltyPerDay
<1> DEFINE Kept == \A d \in Debts :
                     ChargedTwice(d)' /\ ~ChargedTwice(d) =>
                       /\ CreatePenalty(d) \/ \E p \in Penalties : RestorePenalty(p) \/ UpdatePenalty(p)
                       /\ ~Charges(d)
<1>1. ASSUME TypeOK, Next PROVE Kept
  <2> SUFFICES ASSUME NEW d \in Debts, ChargedTwice(d)', ~ChargedTwice(d)
               PROVE  /\ CreatePenalty(d) \/ \E p \in Penalties : RestorePenalty(p) \/ UpdatePenalty(p)
                      /\ ~Charges(d)
    OBVIOUS
  <2>1. ~DropsPenalties /\ ~AddsPenalty
    BY <1>1, DropsKeeps, AddsKeeps
  <2>2. \A e \in Debts : ~Charges(e)
    BY <1>1, <2>1, ChargesAdd
  <2>3. ASSUME NEW e \in Debts, DebtCall(e) \/ Job(e) PROVE CreatePenalty(e)
    BY <1>1, <2>1, <2>3, DebtCallAdds, JobAdds
  <2>4. ASSUME NEW e \in Debts, CreatePenalty(e) PROVE e = d
    <3>1. PICK n \in FreePenalties, amount \in PenaltyAmounts,
                date \in PenaltyDates \cup {today}, auto \in BOOLEAN :
            penalties' = [penalties EXCEPT ![n] = NewPenalty(e, amount, date, auto)]
      BY <2>4 DEF CreatePenalty
    <3>2. ASSUME e # d PROVE FALSE
      <4>1. \A x \in Penalties : penalties'[x] = penalties[x] \/ penalties'[x].debt # d
        BY <1>1, <3>1, <3>2 DEF TypeOK, FreePenalties, NewPenalty
      <4> QED BY <4>1 DEF ChargedTwice, LivePenalties
    <3> QED BY <3>2
  <2>5. ASSUME NEW p \in Penalties, DeletePenalty(p) \/ PurgePenalty(p) PROVE DropsPenalties
    BY <1>1, <2>5 DEF DeletePenalty, PurgePenalty, DropsPenalties, NoPenalty, TypeOK, PenaltyRow
  <2>6. ASSUME UNCHANGED penalties PROVE DropsPenalties
    BY <2>6 DEF DropsPenalties
  <2>7. \/ CreatePenalty(d) \/ \E p \in Penalties : RestorePenalty(p) \/ UpdatePenalty(p)
    BY <1>1, <2>1, <2>3, <2>4, <2>5, <2>6 DEF Next, PenaltyCall, NextDay, UploadPayment
  <2> QED BY <2>2, <2>7
<1>2. TypeOK /\ [Next]_vars => [Kept]_vars
  BY <1>1
<1> QED BY <1>2, TypeCorrect, PTL DEF Spec, OneAutoPenaltyPerDay


(***************************************************************************)
(* The books balance.                                                      *)
(***************************************************************************)
\* What a debt asks beyond its unpaid principal.
Excess(r) == r.rem - Max0(Outstanding(r))

BooksOf(d) ==
  /\ interest[d] \in Nat /\ IsFiniteSet(PaymentsOf(d)) /\ IsFiniteSet(LivePenalties(d))
  /\ ~Exists(d) => PaymentsOf(d) = {}
  /\ Exists(d) => /\ debts[d].paid = entered[d] + PaymentTotal(d)
                  /\ Excess(debts[d]) <= interest[d] + PenaltyTotal(d)

Books == \A d \in Debts : BooksOf(d)

(***************************************************************************)
(* Totals of the rows of a debt, when one row of the table is replaced.    *)
(***************************************************************************)
Owned(table, rows, d) == {x \in table : rows[x].state = "live" /\ rows[x].debt = d}

Share(row, d) == IF row.state = "live" /\ row.debt = d THEN row.amount ELSE 0

Replaced(table, rows, others, p, d) ==
  /\ p \in table
  /\ \A x \in table \ {p} : others[x] = rows[x]
  /\ \A x \in table : rows[x].amount \in Nat /\ others[x].amount \in Nat
  /\ IsFiniteSet(Owned(table, rows, d))

Shifted(table, rows, others, p, d) ==
  /\ IsFiniteSet(Owned(table, others, d))
  /\ TotalAmount(others, Owned(table, others, d))
       = TotalAmount(rows, Owned(table, rows, d)) + Share(others[p], d) - Share(rows[p], d)

LEMMA ReplacedRow ==
  \A table, rows, others, p, d :
    Replaced(table, rows, others, p, d) => Shifted(table, rows, others, p, d)
<1> SUFFICES ASSUME NEW table, NEW rows, NEW others, NEW p \in table, NEW d,
                    \A x \in table \ {p} : others[x] = rows[x],
                    \A x \in table : rows[x].amount \in Nat /\ others[x].amount \in Nat,
                    IsFiniteSet(Owned(table, rows, d))
             PROVE  Shifted(table, rows, others, p, d)
  BY DEF Replaced
<1> DEFINE S == Owned(table, rows, d)
           T == Owned(table, others, d)
           R == S \ {p}
<1>1. R = T \ {p} /\ R \subseteq table
  BY DEF Owned
<1>2. IsFiniteSet(R)
  BY FS_RemoveElement
<1>4. (p \in S <=> rows[p].state = "live" /\ rows[p].debt = d) /\ S \subseteq table
  BY DEF Owned
<1>5. (p \in T <=> others[p].state = "live" /\ others[p].debt = d) /\ T \subseteq table
  BY DEF Owned
<1> HIDE DEF S, T
<1>3. IsFiniteSet(T)
  <2>1. IsFiniteSet(R \cup {p})
    BY <1>2, FS_AddElement
  <2>2. T \in SUBSET (R \cup {p})
    BY <1>1
  <2> QED BY <2>1, <2>2, FS_Subset
<1>6. TotalAmount(rows, R) = TotalAmount(others, R)
  BY <1>1, <1>2, TotalSame
<1>7. TotalAmount(rows, R) \in Nat /\ Share(rows[p], d) \in Nat /\ Share(others[p], d) \in Nat
  BY <1>1, <1>2, TotalType DEF Share
<1>8. TotalAmount(rows, S) = Share(rows[p], d) + TotalAmount(rows, R)
  <2>1. CASE p \in S
    <3>1. IsFiniteSet(S) /\ \A x \in S : rows[x].amount \in Nat
      BY <1>4 DEF S
    <3> QED BY <1>4, <2>1, <3>1, TotalWithout DEF Share
  <2>2. CASE p \notin S
    <3>1. R = S
      BY <2>2
    <3> QED BY <1>4, <1>7, <2>2, <3>1 DEF Share
  <2> QED BY <2>1, <2>2
<1>9. TotalAmount(others, T) = Share(others[p], d) + TotalAmount(others, R)
  <2>1. CASE p \in T
    <3>1. \A x \in T : others[x].amount \in Nat
      BY <1>5
    <3>2. TotalAmount(others, T) = others[p].amount + TotalAmount(others, T \ {p})
      BY <1>3, <2>1, <3>1, TotalWithout
    <3>3. T \ {p} = R
      BY <1>1
    <3>4. Share(others[p], d) = others[p].amount
      BY <1>5, <2>1 DEF Share
    <3> HIDE DEF R
    <3> QED BY <3>2, <3>3, <3>4
  <2>2. CASE p \notin T
    <3>1. R = T
      BY <1>1, <2>2
    <3> HIDE DEF R
    <3> QED BY <1>5, <1>6, <1>7, <2>2, <3>1 DEF Share
  <2> QED BY <2>1, <2>2
<1>10. TotalAmount(others, T) = TotalAmount(rows, S) + Share(others[p], d) - Share(rows[p], d)
  BY <1>6, <1>7, <1>8, <1>9
<1> QED BY <1>3, <1>10 DEF S, T, Shifted

LEMMA TotalsAreNaturals ==
  ASSUME TypeOK, NEW d \in Debts
  PROVE  /\ IsFiniteSet(PaymentsOf(d)) => PaymentTotal(d) \in Nat
         /\ IsFiniteSet(LivePenalties(d)) => PenaltyTotal(d) \in Nat
<1>1. \A p \in PaymentsOf(d) : payments[p].amount \in Nat
  BY DEF TypeOK, PaymentRow, PaymentsOf
<1>2. \A p \in LivePenalties(d) : penalties[p].amount \in Nat
  BY DEF TypeOK, PenaltyRow, LivePenalties
<1> QED BY <1>1, <1>2, TotalType DEF PaymentTotal, PenaltyTotal

(***************************************************************************)
(* A step moves the row of d to s, adds i to its interest, g to its live   *)
(* penalties and y to its payments, and leaves the other debts alone.      *)
(***************************************************************************)
Gains(d, g) ==
  \A e \in Debts : /\ IsFiniteSet(LivePenalties(e))'
                   /\ PenaltyTotal(e)' = PenaltyTotal(e) + IF e = d THEN g ELSE 0

PaysIn(d, y) ==
  \A e \in Debts : /\ IsFiniteSet(PaymentsOf(e))'
                   /\ PaymentTotal(e)' = PaymentTotal(e) + IF e = d THEN y ELSE 0
                   /\ e # d \/ y = 0 => PaymentsOf(e)' = PaymentsOf(e)

Moves(d, s, i, g, y) ==
  /\ debts' = [debts EXCEPT ![d] = s]
  /\ \A e \in Debts : interest'[e] = interest[e] + IF e = d THEN i ELSE 0
  /\ \A e \in Debts \ {d} : entered'[e] = entered[e]
  /\ Gains(d, g) /\ PaysIn(d, y)
  /\ (s.state = "none") <=> ~Exists(d)
  /\ y # 0 => Exists(d)
  /\ s.paid - entered'[d] = debts[d].paid - entered[d] + y
  /\ Excess(s) <= 0 \/ Excess(s) <= g \/ Excess(s) <= Excess(debts[d]) + i + g

LEMMA MovesKeepBooks ==
  ASSUME TypeOK, TypeOK', Books, NEW d \in Debts, NEW s \in DebtRow,
         NEW i \in Nat, NEW g \in Int, NEW y \in Int, Moves(d, s, i, g, y)
  PROVE  Books'
<1> SUFFICES ASSUME NEW e \in Debts PROVE BooksOf(e)'
  BY DEF Books
<1>1. BooksOf(e)
  BY DEF Books
<1>2. /\ PenaltyTotal(e) \in Nat /\ PaymentTotal(e) \in Nat /\ interest[e] \in Nat
      /\ entered[e] \in Int /\ entered'[e] \in Int /\ debts[e].paid \in Nat
      /\ Excess(debts[e]) \in Int
  BY <1>1, TotalsAreNaturals DEF BooksOf, TypeOK, DebtRow, Excess, Max0, Outstanding
<1>3. IsFiniteSet(LivePenalties(e))' /\ IsFiniteSet(PaymentsOf(e))'
  BY DEF Moves, Gains, PaysIn
<1>4. PenaltyTotal(e)' \in Nat
  <2>1. \A p \in LivePenalties(e)' : penalties'[p].amount \in Nat
    BY DEF TypeOK, PenaltyRow, LivePenalties
  <2> QED BY <1>3, <2>1, TotalType DEF PenaltyTotal
<1>5. CASE e # d
  <2>1. /\ debts'[e] = debts[e] /\ interest'[e] = interest[e] /\ entered'[e] = entered[e]
        /\ PenaltyTotal(e)' = PenaltyTotal(e) /\ PaymentTotal(e)' = PaymentTotal(e)
        /\ PaymentsOf(e)' = PaymentsOf(e)
    BY <1>2, <1>5 DEF Moves, Gains, PaysIn, TypeOK
  <2> QED BY <1>1, <1>3, <2>1 DEF BooksOf, Exists
<1>6. CASE e = d
  <2>1. /\ debts'[d] = s /\ interest'[d] = interest[d] + i
        /\ PenaltyTotal(d)' = PenaltyTotal(d) + g /\ PaymentTotal(d)' = PaymentTotal(d) + y
        /\ (s.state = "none") <=> ~Exists(d)
        /\ y # 0 => Exists(d)
        /\ y = 0 => PaymentsOf(d)' = PaymentsOf(d)
        /\ s.paid - entered'[d] = debts[d].paid - entered[d] + y
        /\ Excess(s) <= 0 \/ Excess(s) <= g \/ Excess(s) <= Excess(debts[d]) + i + g
    BY DEF Moves, Gains, PaysIn, TypeOK
  <2>2. s.paid \in Nat /\ Excess(s) \in Int
    BY DEF DebtRow, Excess, Max0, Outstanding
  <2>3. interest'[d] \in Nat
    BY <1>2, <1>6, <2>1
  <2>4. ~Exists(d)' => PaymentsOf(d)' = {}
    BY <1>1, <1>6, <2>1 DEF BooksOf, Exists
  <2>5. ASSUME Exists(d)' PROVE s.paid = entered'[d] + PaymentTotal(d)'
    <3>1. Exists(d) /\ debts[d].paid = entered[d] + PaymentTotal(d)
      BY <1>1, <1>6, <2>1, <2>5 DEF BooksOf, Exists
    <3> QED BY <1>2, <1>6, <2>1, <2>2, <3>1
  <2>6. ASSUME Exists(d)' PROVE Excess(s) <= interest'[d] + PenaltyTotal(d)'
    <3>1. Exists(d) /\ Excess(debts[d]) <= interest[d] + PenaltyTotal(d)
      BY <1>1, <1>6, <2>1, <2>6 DEF BooksOf, Exists
    <3> QED BY <1>2, <1>4, <1>6, <2>1, <2>2, <2>3, <3>1
  <2> QED BY <1>3, <1>6, <2>1, <2>3, <2>4, <2>5, <2>6 DEF BooksOf
<1> QED BY <1>5, <1>6

(***************************************************************************)
(* What a step gains or loses on live penalties and payments.              *)
(***************************************************************************)
LEMMA NoGains ==
  ASSUME TypeOK, Books, NEW d \in Debts, penalties' = penalties
  PROVE  Gains(d, 0)
<1> SUFFICES ASSUME NEW e \in Debts
             PROVE  /\ IsFiniteSet(LivePenalties(e))' /\ PenaltyTotal(e)' = PenaltyTotal(e)
                    /\ PenaltyTotal(e) \in Nat
  BY DEF Gains
<1>1. IsFiniteSet(LivePenalties(e))
  BY DEF Books, BooksOf
<1>2. LivePenalties(e)' = LivePenalties(e)
  BY DEF LivePenalties
<1> QED BY <1>1, <1>2, TotalsAreNaturals DEF PenaltyTotal

FinitePayments == \A d \in Debts : IsFiniteSet(PaymentsOf(d))

LEMMA NoPayments ==
  ASSUME TypeOK, FinitePayments, NEW d \in Debts, payments' = payments
  PROVE  PaysIn(d, 0)
<1> SUFFICES ASSUME NEW e \in Debts
             PROVE  /\ IsFiniteSet(PaymentsOf(e))' /\ PaymentTotal(e)' = PaymentTotal(e)
                    /\ PaymentTotal(e) \in Nat /\ PaymentsOf(e)' = PaymentsOf(e)
  BY DEF PaysIn
<1>1. IsFiniteSet(PaymentsOf(e))
  BY DEF FinitePayments
<1>2. PaymentsOf(e)' = PaymentsOf(e)
  BY DEF PaymentsOf
<1> QED BY <1>1, <1>2, TotalsAreNaturals DEF PaymentTotal

\* One penalty of d is replaced by another, or a free row by a penalty of d.
LEMMA PenaltyGains ==
  ASSUME TypeOK, TypeOK', Books, NEW d \in Debts, NEW p \in Penalties, NEW n \in PenaltyRow,
         penalties' = [penalties EXCEPT ![p] = n],
         \A e \in Debts \ {d} : Share(n, e) = Share(penalties[p], e)
  PROVE  Gains(d, Share(n, d) - Share(penalties[p], d))
<1> SUFFICES ASSUME NEW e \in Debts
             PROVE  /\ IsFiniteSet(LivePenalties(e))'
                    /\ PenaltyTotal(e)' = PenaltyTotal(e) +
                         IF e = d THEN Share(n, d) - Share(penalties[p], d) ELSE 0
  BY DEF Gains
<1>1. /\ \A x \in Penalties \ {p} : penalties'[x] = penalties[x]
      /\ penalties'[p] = n
      /\ \A x \in Penalties : penalties[x].amount \in Nat /\ penalties'[x].amount \in Nat
  BY DEF TypeOK, PenaltyRow
<1>2. /\ LivePenalties(e) = Owned(Penalties, penalties, e)
      /\ LivePenalties(e)' = Owned(Penalties, penalties', e)
  BY DEF LivePenalties, Owned
<1>3. IsFiniteSet(Owned(Penalties, penalties, e))
  BY <1>2 DEF Books, BooksOf
<1>4. /\ IsFiniteSet(Owned(Penalties, penalties', e))
      /\ TotalAmount(penalties', Owned(Penalties, penalties', e))
           = TotalAmount(penalties, Owned(Penalties, penalties, e))
             + Share(penalties'[p], e) - Share(penalties[p], e)
  <2>1. Replaced(Penalties, penalties, penalties', p, e)
    BY <1>1, <1>3 DEF Replaced
  <2>2. Shifted(Penalties, penalties, penalties', p, e)
    BY <2>1, ReplacedRow, Zenon
  <2> QED BY <2>2 DEF Shifted
<1>5. /\ IsFiniteSet(LivePenalties(e))'
      /\ PenaltyTotal(e)' = PenaltyTotal(e) + Share(n, e) - Share(penalties[p], e)
  BY <1>1, <1>2, <1>4 DEF PenaltyTotal
<1>6. /\ PenaltyTotal(e) \in Nat
      /\ Share(n, e) \in Nat /\ Share(penalties[p], e) \in Nat
  BY <1>1, <1>2, <1>3, TotalsAreNaturals DEF Share, PenaltyRow
<1> QED BY <1>5, <1>6

LEMMA NewPenaltyGains ==
  ASSUME TypeOK, TypeOK', Books, NEW d \in Debts, NEW p \in FreePenalties,
         NEW a \in PenaltyAmounts, NEW date \in Int, NEW auto \in BOOLEAN,
         penalties' = [penalties EXCEPT ![p] = NewPenalty(d, a, date, auto)]
  PROVE  Gains(d, a)
<1> DEFINE n == NewPenalty(d, a, date, auto)
<1>1. a \in Nat /\ p \in Penalties /\ penalties[p].state = "none"
  BY Inputs DEF FreePenalties
<1>2. n \in PenaltyRow /\ n.state = "live" /\ n.debt = d /\ n.amount = a
  BY <1>1 DEF NewPenalty, PenaltyRow, RowState
<1>3. /\ \A e \in Debts \ {d} : Share(n, e) = 0
      /\ \A e \in Debts : Share(penalties[p], e) = 0
      /\ Share(n, d) = a
  BY <1>1, <1>2 DEF Share
<1> HIDE DEF n
<1>4. Gains(d, Share(n, d) - Share(penalties[p], d))
  BY <1>1, <1>2, <1>3, PenaltyGains DEF n
<1>5. Share(n, d) - Share(penalties[p], d) = a
  BY <1>1, <1>3
<1> QED BY <1>4, <1>5

LEMMA PaymentPaysIn ==
  ASSUME TypeOK, TypeOK', FinitePayments, NEW d \in Debts, NEW p \in Payments, NEW a \in PayAmounts,
         payments[p].state = "none",
         payments' = [payments EXCEPT ![p] = [state |-> "live", debt |-> d, amount |-> a]]
  PROVE  PaysIn(d, a)
<1> DEFINE n == [state |-> "live", debt |-> d, amount |-> a]
<1> SUFFICES ASSUME NEW e \in Debts
             PROVE  /\ IsFiniteSet(PaymentsOf(e))'
                    /\ PaymentTotal(e)' = PaymentTotal(e) + IF e = d THEN a ELSE 0
                    /\ e # d => PaymentsOf(e)' = PaymentsOf(e)
  BY ParameterAssumption DEF PaysIn
<1>1. /\ \A x \in Payments \ {p} : payments'[x] = payments[x]
      /\ payments'[p] = n
      /\ \A x \in Payments : payments[x].amount \in Nat /\ payments'[x].amount \in Nat
  BY DEF TypeOK, PaymentRow
<1>2. /\ PaymentsOf(e) = Owned(Payments, payments, e)
      /\ PaymentsOf(e)' = Owned(Payments, payments', e)
  BY DEF PaymentsOf, Owned
<1>3. IsFiniteSet(Owned(Payments, payments, e))
  BY <1>2 DEF FinitePayments
<1>4. /\ IsFiniteSet(Owned(Payments, payments', e))
      /\ TotalAmount(payments', Owned(Payments, payments', e))
           = TotalAmount(payments, Owned(Payments, payments, e))
             + Share(payments'[p], e) - Share(payments[p], e)
  <2>1. Replaced(Payments, payments, payments', p, e)
    BY <1>1, <1>3 DEF Replaced
  <2>2. Shifted(Payments, payments, payments', p, e)
    BY <2>1, ReplacedRow, Zenon
  <2> QED BY <2>2 DEF Shifted
<1>5. Share(payments'[p], e) = (IF e = d THEN a ELSE 0) /\ Share(payments[p], e) = 0
  BY <1>1 DEF Share
<1>6. PaymentTotal(e) \in Nat
  BY <1>2, <1>3, TotalsAreNaturals
<1>7. PaymentTotal(e)' = PaymentTotal(e) + IF e = d THEN a ELSE 0
  <2>1. PaymentTotal(e)' = PaymentTotal(e) + Share(payments'[p], e) - Share(payments[p], e)
    BY <1>2, <1>4 DEF PaymentTotal
  <2> QED BY <1>5, <1>6, <2>1, ParameterAssumption
<1>8. e # d => PaymentsOf(e)' = PaymentsOf(e)
  BY <1>1 DEF PaymentsOf
<1> QED BY <1>2, <1>4, <1>7, <1>8

(***************************************************************************)
(* What the saves do to what a debt asks.                                  *)
(***************************************************************************)
SameMoney(s, r) == s.state = r.state /\ s.total = r.total /\ s.paid = r.paid

LEMMA SavedRows ==
  ASSUME NEW r \in DebtRow
  PROVE  /\ SameMoney(Settled(r), r) /\ Settled(r).rem = r.rem
         /\ \A x \in Int : SameMoney(WithBalance(r, x), r) /\ WithBalance(r, x).rem = x
         /\ SameMoney(Reset(r), r) /\ Excess(Reset(r)) <= 0
         /\ \A a \in Nat : SameMoney(Charged(r, a), r) /\ Excess(Charged(r, a)) <= a
<1>1. ASSUME NEW t \in DebtRow
      PROVE  SameMoney(Settled(t), t) /\ Settled(t).rem = t.rem
  BY DEF SameMoney, Settled, DebtRow
<1>2. ASSUME NEW t \in DebtRow, NEW x \in Int
      PROVE  SameMoney(WithBalance(t, x), t) /\ WithBalance(t, x).rem = x
  <2>1. /\ [t EXCEPT !.rem = x] \in DebtRow /\ [t EXCEPT !.rem = x].rem = x
        /\ SameMoney([t EXCEPT !.rem = x], t)
    BY DEF DebtRow, SameMoney
  <2> QED BY <1>1, <2>1 DEF WithBalance, SameMoney
<1>3. Outstanding(r) \in Int
  BY DEF DebtRow, Outstanding
<1>4. SameMoney(Reset(r), r) /\ Reset(r).rem = Outstanding(r) /\ Reset(r) \in DebtRow
  BY <1>2, <1>3, ResetLemma DEF Reset
<1>5. Excess(Reset(r)) <= 0
  BY <1>3, <1>4 DEF Excess, SameMoney, Outstanding, Max0
<1>6. ASSUME NEW a \in Nat
      PROVE  SameMoney(Charged(r, a), r) /\ Excess(Charged(r, a)) <= a
  <2>1. SameMoney(Charged(r, a), Reset(r)) /\ Charged(r, a).rem = Outstanding(r) + a
    BY <1>2, <1>3, <1>4 DEF Charged
  <2>2. SameMoney(Charged(r, a), r)
    BY <1>4, <2>1 DEF SameMoney
  <2> QED BY <1>3, <2>1, <2>2 DEF Excess, SameMoney, Outstanding, Max0
<1> QED BY <1>1, <1>2, <1>4, <1>5, <1>6

LEMMA SameMoneySameExcess ==
  ASSUME NEW r, NEW s, SameMoney(s, r), s.rem = r.rem
  PROVE  Excess(s) = Excess(r)
BY DEF SameMoney, Excess, Outstanding

\* Saving total and paid anew recomputes the balance; saving neither leaves it.
LEMMA RecalculatedExcess ==
  ASSUME NEW old \in DebtRow, NEW new \in DebtRow
  PROVE  /\ SameMoney(Recalculated(old, new), new)
         /\ \/ Excess(Recalculated(old, new)) <= 0
            \/ /\ Recalculated(old, new) = new
               /\ new.total = old.total /\ new.paid = old.paid
<1>1. CASE old.total # new.total \/ old.paid # new.paid
  <2>1. /\ Recalculated(old, new).rem = Max0(Outstanding(new))
        /\ SameMoney(Recalculated(old, new), new)
    BY <1>1 DEF Recalculated, DebtRow, SameMoney
  <2>2. Max0(Outstanding(new)) \in Int
    BY DEF DebtRow, Outstanding, Max0
  <2> QED BY <2>1, <2>2 DEF Excess, SameMoney, Outstanding
<1>2. CASE old.total = new.total /\ old.paid = new.paid
  BY <1>2 DEF Recalculated, SameMoney
<1> QED BY <1>1, <1>2

(***************************************************************************)
(* A save, with its transition, keeps the books.                           *)
(***************************************************************************)
SavesMoney(d, new) ==
  /\ payments' = payments /\ interest' = interest
  /\ \A e \in Debts \ {d} : entered'[e] = entered[e]
  /\ new.paid - entered'[d] = debts[d].paid - entered[d]

\* The row of d becomes s, which asks no more than it did but for g of new penalties.
SavesRow(d, s, g) ==
  /\ debts' = [debts EXCEPT ![d] = s] /\ SavesMoney(d, s) /\ Gains(d, g)
  /\ (s.state = "none") <=> ~Exists(d)
  /\ Excess(s) <= 0 \/ Excess(s) <= g \/ Excess(s) <= Excess(debts[d]) + g

LEMMA SavesKeepBooks ==
  ASSUME TypeOK, TypeOK', Books, NEW d \in Debts, NEW s \in DebtRow, NEW g \in Int, SavesRow(d, s, g)
  PROVE  Books'
<1> USE DEF SavesRow
<1>1. PaysIn(d, 0)
  BY NoPayments DEF SavesMoney, Books, BooksOf, FinitePayments
<1>2. \A e \in Debts : interest'[e] = interest[e] + IF e = d THEN 0 ELSE 0
  BY DEF SavesMoney, TypeOK
<1>3. /\ s.paid - entered'[d] = debts[d].paid - entered[d] + 0
      /\ Excess(debts[d]) + g = Excess(debts[d]) + 0 + g
  BY DEF SavesMoney, TypeOK, DebtRow, Excess, Max0, Outstanding
<1>4. Moves(d, s, 0, g, 0)
  BY <1>1, <1>2, <1>3 DEF Moves, SavesMoney
<1> QED BY <1>4, MovesKeepBooks

LEMMA EnterOverdueKeepsBooks ==
  ASSUME TypeOK, TypeOK', Books, NEW d \in Debts, Exists(d), NEW r \in DebtRow, r.state # "none",
         EnterOverdue(d, r), SavesMoney(d, r), Excess(r) <= 0 \/ Excess(r) <= Excess(debts[d])
  PROVE  Books'
<1>1. Excess(debts[d]) \in Int
  BY DEF TypeOK, DebtRow, Excess, Max0, Outstanding
<1>2. CASE debts' = [debts EXCEPT ![d] = r] /\ UNCHANGED penalties
  <2>1. Gains(d, 0)
    BY <1>2, NoGains
  <2>2. Excess(r) <= 0 \/ Excess(r) <= Excess(debts[d]) + 0
    BY <1>1
  <2>3. r.state = "none" <=> ~Exists(d)
    OBVIOUS
  <2>4. SavesRow(d, r, 0)
    BY <1>2, <2>1, <2>2, <2>3 DEF SavesRow
  <2> QED BY <2>4, SavesKeepBooks
<1>3. ASSUME NEW p \in FreePenalties, NEW a \in PenaltyAmounts,
             penalties' = [penalties EXCEPT ![p] = NewPenalty(d, a, today, TRUE)],
             debts' = [debts EXCEPT ![d] = Charged(r, a)]
      PROVE  Books'
  <2>1. a \in Nat /\ a \in Int /\ today \in Int
    BY Inputs DEF TypeOK
  <2>2. Gains(d, a)
    BY <1>3, <2>1, NewPenaltyGains
  <2>3. /\ Charged(r, a) \in DebtRow /\ SameMoney(Charged(r, a), r)
        /\ Excess(Charged(r, a)) <= a
    BY <2>1, ChargedLemma, SavedRows
  <2>4. SavesMoney(d, Charged(r, a)) /\ Charged(r, a).state # "none"
    BY <2>3 DEF SavesMoney, SameMoney
  <2>5. SavesRow(d, Charged(r, a), a)
    BY <1>3, <2>2, <2>3, <2>4 DEF SavesRow
  <2> QED BY <2>1, <2>3, <2>5, SavesKeepBooks
<1> QED BY <1>2, <1>3 DEF EnterOverdue

LEMMA SaveDebtKeepsBooks ==
  ASSUME TypeOK, TypeOK', Books, NEW d \in Debts, Exists(d), NEW new \in DebtRow, new.state # "none",
         new.rem = debts[d].rem, SaveDebt(d, new), SavesMoney(d, new)
  PROVE  Books'
<1> DEFINE r == Recalculated(debts[d], new)
<1>1. debts[d] \in DebtRow /\ Excess(debts[d]) \in Int
  BY DEF TypeOK, DebtRow, Excess, Max0, Outstanding
<1>2. r \in DebtRow /\ SameMoney(r, new)
  BY <1>1, RecalculatedLemma, RecalculatedExcess
<1>3. Excess(r) <= 0 \/ Excess(r) <= Excess(debts[d])
  <2>1. new.total = debts[d].total /\ new.paid = debts[d].paid => Excess(new) = Excess(debts[d])
    BY DEF Excess, Outstanding
  <2> QED BY <1>1, <2>1, RecalculatedExcess
<1> HIDE DEF r
<1>4. SavesMoney(d, r) /\ r.state # "none"
  BY <1>2 DEF SavesMoney, SameMoney
<1>5. \/ debts' = [debts EXCEPT ![d] = Settled(r)] /\ UNCHANGED penalties
      \/ debts' = [debts EXCEPT ![d] = r] /\ UNCHANGED penalties
      \/ debts' = [debts EXCEPT ![d] = Restored(r)] /\ UNCHANGED penalties
      \/ EnterOverdue(d, r)
  BY DEF SaveDebt, r
<1>6. ASSUME NEW s \in DebtRow, debts' = [debts EXCEPT ![d] = s], UNCHANGED penalties,
             SameMoney(s, r), Excess(s) <= 0 \/ Excess(s) <= Excess(debts[d])
      PROVE  Books'
  <2>1. SavesMoney(d, s) /\ s.state # "none"
    BY <1>4, <1>6 DEF SavesMoney, SameMoney
  <2>2. Gains(d, 0)
    BY <1>6, NoGains
  <2>3. Excess(s) <= 0 \/ Excess(s) <= Excess(debts[d]) + 0
    BY <1>1, <1>6
  <2>4. s.state = "none" <=> ~Exists(d)
    BY <2>1
  <2>5. SavesRow(d, s, 0)
    BY <1>6, <2>1, <2>2, <2>3, <2>4 DEF SavesRow
  <2> QED BY <1>6, <2>5, SavesKeepBooks
<1>7. CASE debts' = [debts EXCEPT ![d] = Settled(r)] /\ UNCHANGED penalties
  BY <1>2, <1>3, <1>6, <1>7, SettledLemma, SavedRows, SameMoneySameExcess
<1>8. CASE debts' = [debts EXCEPT ![d] = r] /\ UNCHANGED penalties
  BY <1>2, <1>3, <1>6, <1>8 DEF SameMoney
<1>9. CASE debts' = [debts EXCEPT ![d] = Restored(r)] /\ UNCHANGED penalties
  <2>1. /\ [r EXCEPT !.status = "active"] \in DebtRow
        /\ SameMoney([r EXCEPT !.status = "active"], r)
    BY <1>2 DEF DebtRow, Statuses, SameMoney
  <2>2. Restored(r) \in DebtRow /\ SameMoney(Restored(r), r) /\ Excess(Restored(r)) <= 0
    BY <2>1, ResetLemma, SavedRows DEF Restored, SameMoney
  <2> QED BY <1>6, <1>9, <2>2
<1>10. CASE EnterOverdue(d, r)
  BY <1>2, <1>3, <1>4, <1>10, EnterOverdueKeepsBooks
<1> QED BY <1>5, <1>7, <1>8, <1>9, <1>10

(***************************************************************************)
(* Every call and job keeps the books.                                     *)
(***************************************************************************)
LEMMA CreateKeepsBooks ==
  ASSUME TypeOK, TypeOK', Books, NEW d \in Debts, CreateDebt(d)
  PROVE  Books'
<1>1. PICK total \in Totals, paid \in PaidEdits, status \in Statuses, due \in DueDates,
           accrued \in AccrualDates \cup {today} :
       /\ debts' = [debts EXCEPT ![d] =
            Settled([state |-> "live", total |-> total, paid |-> paid,
                     rem |-> Max0(total - paid), status |-> status,
                     due |-> due, accrued |-> accrued])]
       /\ entered' = [entered EXCEPT ![d] = paid]
  BY DEF CreateDebt
<1> DEFINE r == [state |-> "live", total |-> total, paid |-> paid,
                 rem |-> Max0(total - paid), status |-> status,
                 due |-> due, accrued |-> accrued]
           s == Settled(r)
<1>2. r \in DebtRow
  BY Inputs DEF DebtRow, RowState, Max0, TypeOK
<1>3. s.state = "live" /\ s.paid = paid /\ paid \in Nat
  BY <1>2, SavedRows, Inputs DEF SameMoney
<1>4. Excess(s) <= 0
  <2>1. Excess(r) = r.rem - Max0(r.total - r.paid) /\ r.rem = Max0(r.total - r.paid)
    BY DEF Excess, Outstanding
  <2>2. Excess(r) <= 0
    BY <1>2, <2>1 DEF DebtRow
  <2>3. Excess(s) = Excess(r)
    BY <1>2, SavedRows, SameMoneySameExcess
  <2> QED BY <2>2, <2>3
<1>5. s \in DebtRow
  BY <1>2, SettledLemma
<1> HIDE DEF s
<1>6. /\ debts'[d] = s /\ \A e \in Debts \ {d} : debts'[e] = debts[e]
      /\ entered'[d] = paid /\ \A e \in Debts \ {d} : entered'[e] = entered[e]
      /\ interest'[d] = 0 /\ \A e \in Debts \ {d} : interest'[e] = interest[e]
  BY <1>1 DEF CreateDebt, TypeOK, s
<1>7. \A e \in Debts : /\ PaymentsOf(e)' = PaymentsOf(e) /\ PaymentTotal(e)' = PaymentTotal(e)
                       /\ LivePenalties(e)' = LivePenalties(e)
                       /\ PenaltyTotal(e)' = PenaltyTotal(e)
  BY DEF CreateDebt, PaymentsOf, PaymentTotal, LivePenalties, PenaltyTotal
<1>8. ASSUME NEW e \in Debts \ {d} PROVE BooksOf(e)'
  BY <1>6, <1>7, <1>8 DEF Books, BooksOf, Exists
<1>9. BooksOf(d)'
  <2>1. BooksOf(d) /\ ~Exists(d)
    BY DEF Books, CreateDebt
  <2>2. PaymentTotal(d)' = 0
    BY <1>7, <2>1, TotalOfNone DEF BooksOf, PaymentTotal
  <2>3. PenaltyTotal(d)' \in Nat
    BY <1>7, <2>1, TotalsAreNaturals DEF BooksOf
  <2>4. Excess(s) \in Int
    BY <1>5 DEF DebtRow, Excess, Max0, Outstanding
  <2>5. /\ s.paid = entered'[d] + PaymentTotal(d)'
        /\ Excess(s) <= interest'[d] + PenaltyTotal(d)'
    BY <1>3, <1>4, <1>6, <2>2, <2>3, <2>4
  <2>6. Exists(d)'
    BY <1>3, <1>6 DEF Exists
  <2> QED BY <1>6, <1>7, <2>1, <2>5, <2>6 DEF BooksOf
<1> QED BY <1>8, <1>9 DEF Books

LEMMA PurgeKeepsBooks ==
  ASSUME TypeOK, TypeOK', Books, NEW d \in Debts, PurgeDebt(d)
  PROVE  Books'
<1>1. /\ debts'[d] = NoDebt /\ \A e \in Debts \ {d} : debts'[e] = debts[e]
      /\ interest'[d] = 0 /\ \A e \in Debts \ {d} : interest'[e] = interest[e]
      /\ \A e \in Debts \ {d} : entered'[e] = entered[e]
  BY DEF PurgeDebt, TypeOK
<1>2. \A p \in Penalties : IF penalties[p].debt = d THEN penalties'[p].state # "live"
                                                    ELSE penalties'[p] = penalties[p]
  BY DEF PurgeDebt, NoPenalty
<1>3. \A e \in Debts : PaymentsOf(e)' = PaymentsOf(e) /\ PaymentTotal(e)' = PaymentTotal(e)
  BY DEF PurgeDebt, PaymentsOf, PaymentTotal
<1>4. PaymentsOf(d) = {}
  BY DEF PurgeDebt
<1>5. LivePenalties(d)' = {}
  BY <1>2 DEF LivePenalties
<1>6. ASSUME NEW e \in Debts \ {d} PROVE BooksOf(e)'
  <2>1. LivePenalties(e)' = LivePenalties(e)
    BY <1>6, <1>2 DEF LivePenalties
  <2>2. BooksOf(e)
    BY DEF Books
  <2>3. \A p \in LivePenalties(e) : penalties[p].amount = penalties'[p].amount
    BY <1>6, <1>2 DEF LivePenalties
  <2>4. TotalAmount(penalties, LivePenalties(e)) = TotalAmount(penalties', LivePenalties(e))
    BY <2>2, <2>3, TotalSame DEF BooksOf
  <2>5. PenaltyTotal(e)' = PenaltyTotal(e)
    BY <2>1, <2>4 DEF PenaltyTotal
  <2> QED BY <1>1, <1>3, <2>1, <2>2, <2>5 DEF BooksOf, Exists
<1>7. BooksOf(d)'
  <2>1. ~Exists(d)'
    BY <1>1 DEF Exists, NoDebt
  <2> QED BY <1>1, <1>3, <1>4, <1>5, <2>1, FS_EmptySet DEF BooksOf
<1> QED BY <1>6, <1>7 DEF Books

LEMMA AccrualRows ==
  ASSUME NEW r \in DebtRow, NEW asOf \in Int, NEW s \in Accruals(r, asOf)
  PROVE  s \in DebtRow /\ SameMoney(s, r) /\ s.rem - r.rem \in Nat
<1>1. CASE s = r
  BY <1>1 DEF SameMoney, DebtRow
<1>2. ASSUME NEW i \in InterestAmounts, s = WithBalance([r EXCEPT !.accrued = asOf], r.rem + i)
      PROVE  SameMoney(s, r) /\ s.rem - r.rem \in Nat
  <2>1. /\ [r EXCEPT !.accrued = asOf] \in DebtRow /\ r.rem + i \in Int /\ r.rem \in Int
        /\ i \in Nat /\ SameMoney([r EXCEPT !.accrued = asOf], r)
    BY ParameterAssumption DEF DebtRow, SameMoney
  <2>2. SameMoney(s, [r EXCEPT !.accrued = asOf]) /\ s.rem = r.rem + i
    BY <1>2, <2>1, SavedRows
  <2> QED BY <2>1, <2>2 DEF SameMoney
<1> QED BY <1>1, <1>2, AccrualsLemma DEF Accruals

LEMMA PaymentKeepsBooks ==
  ASSUME TypeOK, TypeOK', Books, NEW d \in Debts, NEW p \in Payments,
         RecordPayment(d, p) \/ UploadNewPayment(d, p)
  PROVE  Books'
<1>1. PICK date \in Int, amount \in PayAmounts :
        \E r \in Accruals(debts[d], date) : Confirm(d, p, r, amount)
  BY ConfirmedPayment
<1>2. PICK r \in Accruals(debts[d], date) :
       /\ debts' = [debts EXCEPT ![d] =
                      Settled(Recalculated(r, [r EXCEPT !.paid = @ + amount]))]
       /\ payments' = [payments EXCEPT ![p] =
                         [state |-> "live", debt |-> d, amount |-> amount]]
       /\ RecordInterest(d, r)
  BY <1>1 DEF Confirm
<1>0. Live(d) /\ payments[p].state = "none" /\ UNCHANGED <<penalties, entered>>
  BY ConfirmedPayment
<1>3. debts[d] \in DebtRow /\ date \in Int /\ amount \in Nat \ {0}
  BY ParameterAssumption DEF TypeOK
<1>4. r \in DebtRow /\ SameMoney(r, debts[d]) /\ r.rem - debts[d].rem \in Nat
  BY <1>3, AccrualRows
<1> DEFINE new == [r EXCEPT !.paid = @ + amount]
           s == Settled(Recalculated(r, new))
           i == r.rem - debts[d].rem
<1>5. new \in DebtRow /\ new.paid = r.paid + amount /\ new.paid # r.paid /\ new.state = r.state
  BY <1>3, <1>4 DEF DebtRow
<1>6. Recalculated(r, new) \in DebtRow /\ Excess(Recalculated(r, new)) <= 0
      /\ SameMoney(Recalculated(r, new), new)
  BY <1>4, <1>5, RecalculatedLemma, RecalculatedExcess
<1>7. s \in DebtRow /\ SameMoney(s, new) /\ Excess(s) <= 0
  <2>1. SameMoney(s, Recalculated(r, new)) /\ s.rem = Recalculated(r, new).rem
    BY <1>6, SavedRows
  <2>2. Excess(s) = Excess(Recalculated(r, new))
    BY <2>1, SameMoneySameExcess
  <2> QED BY <1>6, <2>1, <2>2, SettledLemma DEF SameMoney
<1>8. s.paid = debts[d].paid + amount /\ s.state = debts[d].state /\ Exists(d)
  BY <1>0, <1>4, <1>5, <1>7 DEF SameMoney, Live, Exists
<1> HIDE DEF s, new
<1>9. Gains(d, 0)
  BY <1>0, NoGains
<1>10. PaysIn(d, amount)
  BY <1>0, <1>2, PaymentPaysIn DEF Books, BooksOf, FinitePayments
<1>11. \A e \in Debts : interest'[e] = interest[e] + IF e = d THEN i ELSE 0
  BY <1>2, <1>4, <1>3 DEF RecordInterest, TypeOK, DebtRow
<1>12. entered' = entered /\ entered[d] \in Int /\ debts[d].paid \in Nat
  BY <1>0, <1>3 DEF TypeOK, DebtRow
<1>13. s.paid - entered'[d] = debts[d].paid - entered[d] + amount
  BY <1>3, <1>8, <1>12
<1> HIDE DEF i
<1>14. Moves(d, s, i, 0, amount)
  BY <1>2, <1>7, <1>8, <1>9, <1>10, <1>11, <1>12, <1>13 DEF Moves, s, new, Exists
<1>15. i \in Nat /\ 0 \in Int /\ amount \in Int
  BY <1>3, <1>4 DEF i
<1> QED BY <1>7, <1>14, <1>15, MovesKeepBooks

LEMMA ChargeKeepsBooks ==
  ASSUME TypeOK, TypeOK', Books, NEW d \in Debts, Exists(d), NEW p \in FreePenalties,
         NEW a \in PenaltyAmounts, NEW date \in Int, NEW auto \in BOOLEAN,
         penalties' = [penalties EXCEPT ![p] = NewPenalty(d, a, date, auto)],
         debts' = [debts EXCEPT ![d] = Charged(debts[d], a)],
         UNCHANGED <<payments, interest, entered>>
  PROVE  Books'
<1>1. debts[d] \in DebtRow /\ a \in Nat /\ a \in Int
  BY Inputs DEF TypeOK
<1>2. /\ Charged(debts[d], a) \in DebtRow /\ SameMoney(Charged(debts[d], a), debts[d])
      /\ Excess(Charged(debts[d], a)) <= a
  BY <1>1, ChargedLemma, SavedRows
<1>3. SavesMoney(d, Charged(debts[d], a)) /\ Charged(debts[d], a).state # "none"
  BY <1>2 DEF SavesMoney, SameMoney, Exists
<1>4. Gains(d, a)
  BY NewPenaltyGains
<1>5. SavesRow(d, Charged(debts[d], a), a)
  BY <1>2, <1>3, <1>4 DEF SavesRow
<1> QED BY <1>1, <1>2, <1>5, SavesKeepBooks

LEMMA DebtCallKeepsBooks ==
  ASSUME TypeOK, TypeOK', Books, NEW d \in Debts, DebtCall(d)
  PROVE  Books'
<1>1. debts[d] \in DebtRow /\ entered[d] \in Int /\ debts[d].paid \in Nat
  BY DEF TypeOK, DebtRow
<1>2. CASE UpdateDebt(d)
  <2>1. PICK total \in Totals \cup {debts[d].total}, paid \in PaidEdits \cup {debts[d].paid},
             status \in Statuses, due \in DueDates \cup {debts[d].due},
             accrued \in AccrualDates \cup {debts[d].accrued} :
         /\ SaveDebt(d, [debts[d] EXCEPT !.total = total, !.paid = paid, !.status = status,
                                         !.due = due, !.accrued = accrued])
         /\ entered' = [entered EXCEPT ![d] = @ + paid - debts[d].paid]
    BY <1>2 DEF UpdateDebt
  <2> DEFINE new == [debts[d] EXCEPT !.total = total, !.paid = paid, !.status = status,
                                     !.due = due, !.accrued = accrued]
  <2>2. total \in Int /\ paid \in Nat /\ due \in Int /\ accrued \in Int
    BY <1>1, Inputs DEF DebtRow
  <2>3. new \in DebtRow
    BY <1>1, <2>2, EditedRow
  <2>4. new.state = debts[d].state /\ new.rem = debts[d].rem /\ new.paid = paid
    BY <1>1 DEF DebtRow
  <2> HIDE DEF new
  <2>5. SavesMoney(d, new)
    BY <1>1, <1>2, <2>1, <2>2, <2>4 DEF SavesMoney, UpdateDebt, TypeOK
  <2>6. Exists(d) /\ new.state # "none"
    BY <1>2, <2>4 DEF UpdateDebt, Live, Exists
  <2> QED BY <2>1, <2>3, <2>4, <2>5, <2>6, SaveDebtKeepsBooks DEF new
<1>3. ASSUME NEW total \in Int, SaveDebt(d, [debts[d] EXCEPT !.total = total]),
             Live(d), UNCHANGED <<payments, interest, entered>>
      PROVE  Books'
  <2> DEFINE new == [debts[d] EXCEPT !.total = total]
  <2>1. new \in DebtRow /\ new.state = debts[d].state /\ new.rem = debts[d].rem
        /\ new.paid = debts[d].paid
    BY <1>1 DEF DebtRow
  <2> HIDE DEF new
  <2>2. SavesMoney(d, new) /\ Exists(d) /\ new.state # "none"
    BY <1>3, <2>1 DEF SavesMoney, Live, Exists
  <2> QED BY <1>3, <2>1, <2>2, SaveDebtKeepsBooks DEF new
<1>4. CASE CorrectTotal(d)
  <2>1. PICK total \in Totals : SaveDebt(d, [debts[d] EXCEPT !.total = total])
    BY <1>4 DEF CorrectTotal
  <2> QED BY <1>3, <1>4, <2>1, Inputs DEF CorrectTotal
<1>5. CASE Forgive(d)
  <2>1. PICK amount \in PayAmounts : SaveDebt(d, [debts[d] EXCEPT !.total = debts[d].total - amount])
    BY <1>5 DEF Forgive
  <2>2. debts[d].total - amount \in Int
    BY <1>1, ParameterAssumption DEF DebtRow
  <2> QED BY <1>3, <1>5, <2>1, <2>2 DEF Forgive
<1>6. CASE DeleteDebt(d) \/ RestoreDebt(d)
  <2>1. PICK state \in {"live", "deleted"} :
          debts' = [debts EXCEPT ![d] = Settled([debts[d] EXCEPT !.state = state])]
    BY <1>6 DEF DeleteDebt, RestoreDebt
  <2> DEFINE r == [debts[d] EXCEPT !.state = state]
             s == Settled(r)
  <2>2. r \in DebtRow /\ r.state # "none" /\ r.paid = debts[d].paid /\ r.total = debts[d].total
        /\ r.rem = debts[d].rem
    BY <1>1 DEF DebtRow, RowState
  <2> HIDE DEF r
  <2>3. s \in DebtRow /\ SameMoney(s, r) /\ s.rem = r.rem
    BY <2>2, SettledLemma, SavedRows
  <2>4. Excess(s) = Excess(debts[d]) /\ Excess(debts[d]) \in Int
    BY <1>1, <2>2, <2>3 DEF Excess, SameMoney, Outstanding, DebtRow, Max0
  <2>5. Exists(d) /\ Gains(d, 0)
    BY <1>6, NoGains DEF DeleteDebt, RestoreDebt, Live, Exists
  <2>6. SavesMoney(d, s)
    BY <1>6, <2>2, <2>3 DEF SavesMoney, SameMoney, DeleteDebt, RestoreDebt
  <2>7. SavesRow(d, s, 0)
    <3>1. debts' = [debts EXCEPT ![d] = s]
      BY <2>1 DEF r
    <3>2. s.state # "none"
      BY <2>2, <2>3 DEF SameMoney
    <3>3. Excess(s) <= Excess(debts[d]) + 0
      BY <2>4
    <3> QED BY <2>5, <2>6, <3>1, <3>2, <3>3 DEF SavesRow
  <2> QED BY <2>3, <2>7, SavesKeepBooks
<1>7. CASE CreatePenalty(d)
  <2>1. PICK p \in FreePenalties, a \in PenaltyAmounts, date \in PenaltyDates \cup {today},
             auto \in BOOLEAN :
         /\ penalties' = [penalties EXCEPT ![p] = NewPenalty(d, a, date, auto)]
         /\ debts' = [debts EXCEPT ![d] = Charged(debts[d], a)]
    BY <1>7 DEF CreatePenalty
  <2>2. date \in Int
    BY Inputs DEF TypeOK
  <2> QED BY <1>7, <2>1, <2>2, ChargeKeepsBooks DEF CreatePenalty, Live, Exists
<1> QED BY <1>2, <1>4, <1>5, <1>6, <1>7, CreateKeepsBooks, PurgeKeepsBooks, PaymentKeepsBooks
        DEF DebtCall, StatuslessCall

\* A penalty of d becomes n, and the row of d becomes s.
Replaces(p, n, d, s) ==
  /\ d = penalties[p].debt
  /\ penalties' = [penalties EXCEPT ![p] = n] /\ debts' = [debts EXCEPT ![d] = s]
  /\ n.debt = d \/ n.state # "live"
  /\ SameMoney(s, debts[d])
  /\ UNCHANGED <<payments, interest, entered>>

LEMMA ReplacedKeepsBooks ==
  ASSUME TypeOK, TypeOK', Books, NEW p \in Penalties, NEW n \in PenaltyRow, NEW d \in Debts,
         NEW s \in DebtRow, Replaces(p, n, d, s),
         \/ Excess(s) <= 0
         \/ Excess(s) <= Share(n, d) - Share(penalties[p], d)
         \/ Excess(s) <= Excess(debts[d]) + (Share(n, d) - Share(penalties[p], d))
  PROVE  Books'
<1> DEFINE g == Share(n, d) - Share(penalties[p], d)
<1>1. \A e \in Debts \ {d} : Share(n, e) = Share(penalties[p], e)
  BY DEF Replaces, Share
<1>2. Gains(d, g)
  BY <1>1, PenaltyGains DEF Replaces
<1>3. g \in Int
  BY DEF Share, TypeOK, PenaltyRow
<1> HIDE DEF g
<1>4. SavesMoney(d, s) /\ ((s.state = "none") <=> ~Exists(d))
  BY DEF Replaces, SavesMoney, SameMoney, Exists
<1>5. SavesRow(d, s, g)
  BY <1>2, <1>4 DEF SavesRow, Replaces, g
<1> QED BY <1>3, <1>5, SavesKeepBooks

LEMMA PenaltyCallKeepsBooks ==
  ASSUME TypeOK, TypeOK', Books, NEW p \in Penalties, PenaltyCall(p)
  PROVE  Books'
<1> DEFINE d == penalties[p].debt
           old == penalties[p]
<1>1. /\ d \in Debts /\ debts[d] \in DebtRow /\ old \in PenaltyRow
      /\ old.amount \in Nat /\ old.date \in Int /\ debts[d].rem \in Int
  BY DEF TypeOK, PenaltyRow, DebtRow
<1>2. ASSUME NEW r \in DebtRow, SameMoney(r, debts[d])
      PROVE  /\ Reset(r) \in DebtRow /\ SameMoney(Reset(r), debts[d]) /\ Excess(Reset(r)) <= 0
  BY <1>2, ResetLemma, SavedRows DEF SameMoney
<1>3. ASSUME NEW x \in Int
      PROVE  /\ WithBalance(debts[d], x) \in DebtRow
             /\ SameMoney(WithBalance(debts[d], x), debts[d])
             /\ WithBalance(debts[d], x).rem = x
  BY <1>1, WithBalanceLemma, SavedRows
<1>4. SameMoney(debts[d], debts[d])
  BY DEF SameMoney
<1>5. ASSUME NEW n \in PenaltyRow, n.debt = d \/ n.state # "live", NEW r \in DebtRow,
             SameMoney(r, debts[d]), penalties' = [penalties EXCEPT ![p] = n],
             debts' = [debts EXCEPT ![d] = Reset(r)], UNCHANGED <<payments, interest, entered>>
      PROVE  Books'
  <2>1. /\ Reset(r) \in DebtRow /\ SameMoney(Reset(r), debts[d]) /\ Excess(Reset(r)) <= 0
    BY <1>2, <1>5
  <2>2. Replaces(p, n, d, Reset(r))
    BY <1>5, <2>1 DEF Replaces
  <2> QED BY <1>1, <1>5, <2>1, <2>2, ReplacedKeepsBooks
<1>6. CASE UpdatePenalty(p)
  <2>1. PICK amount \in PenaltyAmounts \cup {old.amount},
             date \in PenaltyDates \cup {old.date}, auto \in BOOLEAN :
         /\ penalties' = [penalties EXCEPT ![p].amount = amount, ![p].date = date, ![p].auto = auto]
         /\ debts' = [debts EXCEPT ![d] =
              IF amount = old.amount THEN Reset(debts[d])
              ELSE Reset(WithBalance(debts[d], Max0(debts[d].rem - old.amount + amount)))]
    BY <1>6 DEF UpdatePenalty
  <2>2. amount \in Nat /\ date \in Int
    BY <1>1, Inputs
  <2> DEFINE n == [old EXCEPT !.amount = amount, !.date = date, !.auto = auto]
             r == IF amount = old.amount THEN debts[d]
                  ELSE WithBalance(debts[d], Max0(debts[d].rem - old.amount + amount))
  <2>3. n \in PenaltyRow /\ n.debt = d
    BY <1>1, <2>2 DEF PenaltyRow
  <2>4. Max0(debts[d].rem - old.amount + amount) \in Int
    BY <1>1, <2>2 DEF Max0
  <2>5. r \in DebtRow /\ SameMoney(r, debts[d])
    BY <1>1, <1>3, <1>4, <2>4
  <2>6. debts' = [debts EXCEPT ![d] = Reset(r)]
    BY <2>1
  <2>7. penalties' = [penalties EXCEPT ![p] = n]
    BY <2>1 DEF TypeOK
  <2>8. UNCHANGED <<payments, interest, entered>>
    BY <1>6 DEF UpdatePenalty
  <2> HIDE DEF n, r
  <2> QED BY <1>5, <2>3, <2>5, <2>6, <2>7, <2>8
<1>7. CASE DeletePenalty(p)
  <2> DEFINE n == [old EXCEPT !.state = "deleted"]
             r == WithBalance(debts[d], Max0(debts[d].rem - old.amount))
  <2>1. n \in PenaltyRow /\ n.debt = d
    BY <1>1 DEF PenaltyRow, RowState
  <2>2. r \in DebtRow /\ SameMoney(r, debts[d])
    <3>1. Max0(debts[d].rem - old.amount) \in Int
      BY <1>1 DEF Max0
    <3> QED BY <1>3, <3>1
  <2>3. penalties' = [penalties EXCEPT ![p] = n] /\ debts' = [debts EXCEPT ![d] = Reset(r)]
    BY <1>7 DEF DeletePenalty, TypeOK, PenaltyRow
  <2> HIDE DEF n, r
  <2> QED BY <1>5, <1>7, <2>1, <2>2, <2>3 DEF DeletePenalty
<1>8. CASE RestorePenalty(p)
  <2> DEFINE n == [old EXCEPT !.state = "live"]
             s == Charged(debts[d], old.amount)
  <2>1. n \in PenaltyRow /\ n.debt = d /\ n.state = "live" /\ n.amount = old.amount
    BY <1>1 DEF PenaltyRow, RowState
  <2>2. s \in DebtRow /\ SameMoney(s, debts[d]) /\ Excess(s) <= old.amount
    <3>1. old.amount \in Int
      BY <1>1
    <3> HIDE DEF d
    <3>2. Charged(debts[d], old.amount) \in DebtRow
      BY <1>1, <3>1, ChargedLemma
    <3>3. /\ SameMoney(Charged(debts[d], old.amount), debts[d])
          /\ Excess(Charged(debts[d], old.amount)) <= old.amount
      BY <1>1, SavedRows
    <3> QED BY <3>2, <3>3
  <2>3. penalties' = [penalties EXCEPT ![p] = n] /\ debts' = [debts EXCEPT ![d] = s]
    BY <1>8 DEF RestorePenalty, TypeOK, PenaltyRow
  <2>4. Share(n, d) - Share(old, d) = old.amount
    <3>1. Share(n, d) = old.amount /\ Share(old, d) = 0
      BY <1>8, <2>1 DEF Share, RestorePenalty
    <3> QED BY <1>1, <3>1
  <2> HIDE DEF n, s
  <2>5. Replaces(p, n, d, s)
    BY <1>8, <2>1, <2>2, <2>3 DEF Replaces, RestorePenalty
  <2> QED BY <1>1, <2>1, <2>2, <2>4, <2>5, ReplacedKeepsBooks
<1>9. CASE PurgePenalty(p)
  <2> DEFINE x == Max0(debts[d].rem - old.amount)
             s == IF old.state = "live" THEN WithBalance(debts[d], x) ELSE debts[d]
  <2>1. NoPenalty \in PenaltyRow /\ NoPenalty.state = "none"
    BY Defaults DEF NoPenalty
  <2>2. x \in Int
    BY <1>1 DEF Max0
  <2>3. s \in DebtRow /\ SameMoney(s, debts[d])
    BY <1>1, <1>3, <1>4, <2>2
  <2>4. penalties' = [penalties EXCEPT ![p] = NoPenalty] /\ debts' = [debts EXCEPT ![d] = s]
    BY <1>9 DEF PurgePenalty, TypeOK
  <2>5. Share(NoPenalty, d) = 0
    BY <2>1 DEF Share
  <2>6. Excess(s) <= 0 \/ Excess(s) <= Excess(debts[d]) + (0 - Share(old, d))
    <3>1. Excess(debts[d]) \in Int /\ Max0(Outstanding(debts[d])) \in Nat
      BY <1>1 DEF Excess, Outstanding, Max0, DebtRow
    <3>2. CASE old.state = "live"
      <4>1. s.rem = x /\ Outstanding(s) = Outstanding(debts[d]) /\ Share(old, d) = old.amount
        BY <1>3, <2>2, <2>3, <3>2 DEF SameMoney, Outstanding, Share
      <4>2. Excess(s) = x - Max0(Outstanding(debts[d]))
        BY <4>1 DEF Excess
      <4> QED BY <1>1, <3>1, <4>1, <4>2 DEF Excess, Max0
    <3>3. CASE old.state # "live"
      <4>1. s = debts[d] /\ Share(old, d) = 0
        BY <3>3 DEF Share
      <4> QED BY <3>1, <4>1
    <3> QED BY <3>2, <3>3
  <2> HIDE DEF s, x
  <2>7. Replaces(p, NoPenalty, d, s)
    BY <1>9, <2>1, <2>3, <2>4 DEF Replaces, PurgePenalty
  <2> QED BY <1>1, <2>1, <2>3, <2>5, <2>6, <2>7, ReplacedKeepsBooks
<1> QED BY <1>6, <1>7, <1>8, <1>9 DEF PenaltyCall

LEMMA JobKeepsBooks ==
  ASSUME TypeOK, TypeOK', Books, NEW d \in Debts, Job(d)
  PROVE  Books'
<1>1. debts[d] \in DebtRow /\ Exists(d) /\ entered[d] \in Int
  BY DEF TypeOK, Job, AccrueDaily, ApplyAutoPenalties, RunAutoPenalties, PenaltyCandidate,
         UpdateOverdueStatuses, CorrectMisoverdue, Live, Exists
<1>2. CASE AccrueDaily(d)
  <2>1. PICK r \in Accruals(debts[d], today) :
          debts' = [debts EXCEPT ![d] = r] /\ RecordInterest(d, r)
    BY <1>2 DEF AccrueDaily
  <2> DEFINE i == r.rem - debts[d].rem
  <2>2. r \in DebtRow /\ SameMoney(r, debts[d]) /\ i \in Nat
    BY <1>1, AccrualRows DEF TypeOK
  <2>3. Gains(d, 0) /\ PaysIn(d, 0)
    BY <1>2, NoGains, NoPayments DEF AccrueDaily, Books, BooksOf, FinitePayments
  <2>4. \A e \in Debts : interest'[e] = interest[e] + IF e = d THEN i ELSE 0
    BY <1>1, <2>1, <2>2 DEF RecordInterest, TypeOK, DebtRow
  <2>5. Excess(r) = Excess(debts[d]) + i + 0
    BY <1>1, <2>2 DEF Excess, SameMoney, Outstanding, Max0, DebtRow
  <2>6. r.paid - entered'[d] = debts[d].paid - entered[d] + 0
    BY <1>1, <1>2, <2>2 DEF AccrueDaily, SameMoney, DebtRow
  <2>7. Excess(r) \in Int /\ r.state # "none"
    BY <1>1, <2>2 DEF Excess, SameMoney, Outstanding, Max0, DebtRow, Exists
  <2> HIDE DEF i
  <2>8. Excess(r) <= Excess(debts[d]) + i + 0
    BY <2>5, <2>7
  <2>9. Moves(d, r, i, 0, 0)
    BY <1>1, <1>2, <2>1, <2>3, <2>4, <2>6, <2>7, <2>8 DEF Moves, AccrueDaily
  <2> QED BY <2>2, <2>9, MovesKeepBooks
<1>3. CASE ApplyAutoPenalties(d) \/ RunAutoPenalties(d)
  <2>1. PICK p \in FreePenalties, a \in PenaltyAmounts :
          /\ penalties' = [penalties EXCEPT ![p] = NewPenalty(d, a, today, TRUE)]
          /\ debts' = [debts EXCEPT ![d] = Charged(debts[d], a)]
    BY <1>3 DEF ApplyAutoPenalties, RunAutoPenalties, ChargeAutoPenalty
  <2>2. UNCHANGED <<payments, interest, entered>>
    BY <1>3 DEF ApplyAutoPenalties, RunAutoPenalties, ChargeAutoPenalty
  <2>3. today \in Int
    BY DEF TypeOK
  <2> QED BY <1>1, <2>1, <2>2, <2>3, ChargeKeepsBooks
<1>4. ASSUME NEW status \in Statuses, UNCHANGED <<payments, interest, entered>>,
             \/ SaveDebt(d, [debts[d] EXCEPT !.status = status])
             \/ EnterOverdue(d, [debts[d] EXCEPT !.status = status])
      PROVE  Books'
  <2> DEFINE r == [debts[d] EXCEPT !.status = status]
  <2>1. r \in DebtRow /\ SameMoney(r, debts[d]) /\ r.rem = debts[d].rem
    BY <1>1 DEF DebtRow, SameMoney
  <2> HIDE DEF r
  <2>2. SavesMoney(d, r) /\ r.state # "none"
    BY <1>1, <1>4, <2>1 DEF SavesMoney, SameMoney, Exists
  <2>3. Excess(r) <= Excess(debts[d])
    <3>1. Excess(debts[d]) \in Int
      BY <1>1 DEF Excess, Outstanding, Max0, DebtRow
    <3> QED BY <2>1, <3>1, SameMoneySameExcess
  <2>4. CASE SaveDebt(d, r)
    BY <1>1, <2>1, <2>2, <2>4, SaveDebtKeepsBooks
  <2>5. CASE EnterOverdue(d, r)
    BY <1>1, <2>1, <2>2, <2>3, <2>5, EnterOverdueKeepsBooks
  <2> QED BY <1>4, <2>4, <2>5 DEF r
<1>5. CASE UpdateOverdueStatuses(d)
  BY <1>4, <1>5 DEF UpdateOverdueStatuses, Statuses
<1>6. CASE CorrectMisoverdue(d)
  <2>1. PICK status \in {"paid", "active"} : SaveDebt(d, [debts[d] EXCEPT !.status = status])
    BY <1>6 DEF CorrectMisoverdue
  <2> QED BY <1>4, <1>6, <2>1 DEF CorrectMisoverdue, Statuses
<1> QED BY <1>2, <1>3, <1>5, <1>6 DEF Job

LEMMA BooksInit == Init => Books
<1> SUFFICES ASSUME Init, NEW d \in Debts PROVE BooksOf(d)
  BY DEF Books
<1>1. PaymentsOf(d) = {} /\ LivePenalties(d) = {}
  BY DEF Init, PaymentsOf, LivePenalties, NoPayment, NoPenalty
<1>2. ~Exists(d) /\ interest[d] = 0
  BY DEF Init, Exists, NoDebt
<1> QED BY <1>1, <1>2, FS_EmptySet DEF BooksOf

\* An upload that edits a payment: the entries move by what the totals move by.
LEMMA UploadKeepsCredit ==
  ASSUME TypeOK, TypeOK', FinitePayments, NEW p \in Payments, UploadPayment(p), NEW e \in Debts
  PROVE  /\ IsFiniteSet(PaymentsOf(e))'
         /\ entered'[e] + PaymentTotal(e)' = entered[e] + PaymentTotal(e)
<1>1. PICK d \in Debts, amount \in PayAmounts \cup {payments[p].amount} :
        LET new == [payments[p] EXCEPT !.debt = d, !.amount = amount]
        IN  /\ Exists(d)
            /\ payments' = [payments EXCEPT ![p] = new]
            /\ entered' = [x \in Debts |-> entered[x] + PaidBy(payments[p], x) - PaidBy(new, x)]
  BY DEF UploadPayment
<1> DEFINE new == [payments[p] EXCEPT !.debt = d, !.amount = amount]
<1>2. /\ payments[p] \in PaymentRow /\ payments[p].state = "live"
      /\ new.debt = d /\ new.amount = amount /\ new.state = "live"
  BY DEF TypeOK, PaymentRow, UploadPayment
<1>3. /\ \A x \in Payments \ {p} : payments'[x] = payments[x]
      /\ payments'[p] = new
      /\ \A x \in Payments : payments[x].amount \in Nat /\ payments'[x].amount \in Nat
  BY <1>1 DEF TypeOK, PaymentRow
<1> HIDE DEF new
<1>4. /\ PaymentsOf(e) = Owned(Payments, payments, e)
      /\ PaymentsOf(e)' = Owned(Payments, payments', e)
  BY DEF PaymentsOf, Owned
<1>5. IsFiniteSet(Owned(Payments, payments, e))
  BY <1>4 DEF FinitePayments
<1>6. /\ IsFiniteSet(Owned(Payments, payments', e))
      /\ TotalAmount(payments', Owned(Payments, payments', e))
           = TotalAmount(payments, Owned(Payments, payments, e))
             + Share(payments'[p], e) - Share(payments[p], e)
  <2>1. Replaced(Payments, payments, payments', p, e)
    BY <1>3, <1>5 DEF Replaced
  <2>2. Shifted(Payments, payments, payments', p, e)
    BY <2>1, ReplacedRow, Zenon
  <2> QED BY <2>2 DEF Shifted
<1>7. /\ Share(payments'[p], e) = PaidBy(new, e) /\ Share(payments[p], e) = PaidBy(payments[p], e)
      /\ PaidBy(new, e) \in Nat /\ PaidBy(payments[p], e) \in Nat
  BY <1>2, <1>3 DEF Share, PaidBy
<1>8. /\ entered'[e] = entered[e] + PaidBy(payments[p], e) - PaidBy(new, e)
      /\ entered[e] \in Int /\ PaymentTotal(e) \in Nat
  BY <1>1, <1>4, <1>5, TotalsAreNaturals DEF TypeOK, new
<1>9. PaymentTotal(e)' = PaymentTotal(e) + PaidBy(new, e) - PaidBy(payments[p], e)
  BY <1>4, <1>6, <1>7 DEF PaymentTotal
<1> QED BY <1>4, <1>6, <1>7, <1>8, <1>9

LEMMA UploadKeepsBooks ==
  ASSUME TypeOK, TypeOK', Books, NEW p \in Payments, UploadPayment(p)
  PROVE  Books'
<1> SUFFICES ASSUME NEW e \in Debts PROVE BooksOf(e)'
  BY DEF Books
<1>1. BooksOf(e) /\ FinitePayments
  BY DEF Books, BooksOf, FinitePayments
<1>2. /\ IsFiniteSet(PaymentsOf(e))'
      /\ entered'[e] + PaymentTotal(e)' = entered[e] + PaymentTotal(e)
  BY <1>1, UploadKeepsCredit
<1>3. ASSUME ~Exists(e) PROVE PaymentsOf(e)' = {}
  <2>1. PICK d \in Debts, amount \in PayAmounts \cup {payments[p].amount} :
          /\ Exists(d)
          /\ payments' = [payments EXCEPT ![p] = [payments[p] EXCEPT !.debt = d, !.amount = amount]]
    BY DEF UploadPayment
  <2>2. \A x \in Payments \ {p} : payments'[x] = payments[x]
    BY <2>1 DEF TypeOK
  <2>3. payments'[p].debt = d
    BY <2>1 DEF TypeOK, PaymentRow
  <2>4. e # d /\ PaymentsOf(e) = {}
    BY <1>1, <1>3, <2>1 DEF BooksOf
  <2> QED BY <2>2, <2>3, <2>4 DEF PaymentsOf
<1>4. /\ UNCHANGED <<debts, penalties, interest>>
      /\ LivePenalties(e)' = LivePenalties(e) /\ PenaltyTotal(e)' = PenaltyTotal(e)
  BY DEF UploadPayment, LivePenalties, PenaltyTotal
<1> QED BY <1>1, <1>2, <1>3, <1>4 DEF BooksOf, Exists

LEMMA BooksNext == TypeOK /\ TypeOK' /\ Books /\ [Next]_vars => Books'
<1> SUFFICES ASSUME TypeOK, TypeOK', Books, [Next]_vars PROVE Books'
  OBVIOUS
<1>1. CASE \E d \in Debts : DebtCall(d) \/ Job(d)
  BY <1>1, DebtCallKeepsBooks, JobKeepsBooks
<1>2. CASE \E p \in Penalties : PenaltyCall(p)
  BY <1>2, PenaltyCallKeepsBooks
<1>3. CASE UNCHANGED <<debts, penalties, payments, interest, entered>>
  BY <1>3 DEF Books, BooksOf, Exists, PaymentsOf, PaymentTotal, LivePenalties, PenaltyTotal
<1>4. CASE \E p \in Payments : UploadPayment(p)
  BY <1>4, UploadKeepsBooks
<1> QED BY <1>1, <1>2, <1>3, <1>4 DEF Next, NextDay, vars

THEOREM BooksAlways == Spec => []Books
BY TypeCorrect, BooksInit, BooksNext, PTL DEF Spec

(* Whatever calls, jobs and signals run in whatever order, a debt shows as *)
(* paid what users typed in plus the payments on record for it, up to what *)
(* uploads have edited of them, for any number of debts, payments and      *)
(* penalties and any amounts.                                              *)
THEOREM PaidAmountsAreBacked == Spec => []PaidIsBacked
<1>1. Books => PaidIsBacked
  BY DEF Books, BooksOf, PaidIsBacked
<1> QED BY <1>1, BooksAlways, PTL

(* No debt ever asks for more than its unpaid principal, the interest ever *)
(* accrued on it and the penalties in force.                               *)
THEOREM BalancesAreJustified == Spec => []NeverOvercharged
<1>1. TypeOK /\ Books => NeverOvercharged
  <2> SUFFICES ASSUME TypeOK, Books, NEW d \in Debts, Exists(d)
               PROVE  debts[d].rem <= Max0(Outstanding(debts[d])) + interest[d] + PenaltyTotal(d)
    BY DEF NeverOvercharged
  <2>1. /\ Excess(debts[d]) <= interest[d] + PenaltyTotal(d)
        /\ PenaltyTotal(d) \in Nat /\ interest[d] \in Nat
    BY TotalsAreNaturals DEF Books, BooksOf
  <2>2. debts[d].rem \in Int /\ Max0(Outstanding(debts[d])) \in Int
    BY DEF TypeOK, DebtRow, Outstanding, Max0
  <2> QED BY <2>1, <2>2 DEF Excess
<1> QED BY <1>1, TypeCorrect, BooksAlways, PTL

===============================================================================
