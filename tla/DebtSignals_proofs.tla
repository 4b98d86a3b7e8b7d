--------------------------- MODULE DebtSignals_proofs ---------------------------
(***************************************************************************)
(* The receivers of every save: what they preserve, what a save with all   *)
(* the saves nested in it comes to, and that every call, handler by        *)
(* handler, does what DebtLedger says of it and announces what it paid.     *)
(***************************************************************************)
EXTENDS DebtSignals, DebtLedger_proofs

(***************************************************************************)
(* Kinds of worlds that handlers do not lead out of.                       *)
(***************************************************************************)
\* A kind of world and of instance: the debts it is about, what it may show as paid, how it
\* may have ended.
Kinds == {k \in [debts : SUBSET Debts, paids : SUBSET Nat, ends : SUBSET Outcomes] :
            "done" \in k.ends => k.ends = Outcomes}

WorldsIn(k) ==
  {w \in WorldType : w.debt \in k.debts /\ w.row.paid \in k.paids /\ w.outcome \in k.ends}
InstancesIn(k) == {i \in InstanceType : i.data.paid \in k.paids}
ResultsIn(k) == [w : WorldsIn(k), i : InstancesIn(k)]

\* A save that leads from worlds and instances of a kind to such.
Keeps(save, k) ==
  \A s \in Situations :
    s.w \in WorldsIn(k) /\ s.i \in InstancesIn(k) => save[s] \in ResultsIn(k)

Anything == [debts |-> Debts, paids |-> Nat, ends |-> Outcomes]

LEMMA AnyKind ==
  /\ Anything \in Kinds
  /\ WorldsIn(Anything) = WorldType
  /\ InstancesIn(Anything) = InstanceType
BY DEF Anything, Kinds, WorldsIn, InstancesIn, WorldType, InstanceType, DebtRow

LEMMA Fields == AllFields = {"state", "total", "paid", "rem", "status", "due", "accrued"}
BY DEF AllFields, NoDebt

(***************************************************************************)
(* The steps handlers are made of.                                         *)
(***************************************************************************)
LEMMA SendKeeps ==
  ASSUME NEW k \in Kinds, NEW w \in WorldsIn(k), NEW n \in Notices
  PROVE  Send(w, n) \in WorldsIn(k)
<1>1. Append(w.sent, n) \in Seq(Notices)
  BY DEF WorldsIn, WorldType
<1> QED BY <1>1 DEF Send, WorldsIn, WorldType

LEMMA EndKeeps ==
  ASSUME NEW k \in Kinds, NEW w \in WorldsIn(k), NEW how \in {"raised", "endless"}
  PROVE  End(w, how) \in WorldsIn(k)
BY DEF End, WorldsIn, WorldType, Kinds, Outcomes

LEMMA CheckKeeps ==
  ASSUME NEW k \in Kinds, NEW w \in WorldsIn(k), NEW status
  PROVE  CheckAllowed(w, status) \in WorldsIn(k)
BY EndKeeps DEF CheckAllowed, Raise

LEMMA FetchKeeps ==
  ASSUME NEW k \in Kinds, NEW w \in WorldsIn(k)
  PROVE  Fetch(w) \in InstancesIn(k)
BY DEF Fetch, Instance, WorldsIn, WorldType, InstancesIn, InstanceType

LEMMA BalanceKeeps ==
  ASSUME NEW k \in Kinds, NEW i \in InstancesIn(k), NEW x \in Int
  PROVE  [i EXCEPT !.data.rem = x] \in InstancesIn(k)
BY DEF InstancesIn, InstanceType, DebtRow

LEMMA StatusKeeps ==
  ASSUME NEW k \in Kinds, NEW i \in InstancesIn(k), NEW status \in Statuses
  PROVE  /\ [i EXCEPT !.data.status = status] \in InstancesIn(k)
         /\ [i EXCEPT !.data.status = status, !.skip = TRUE] \in InstancesIn(k)
BY DEF InstancesIn, InstanceType, DebtRow

LEMMA PenaltyKeeps ==
  ASSUME NEW k \in Kinds, NEW w \in WorldsIn(k), NEW p \in Penalties, NEW q \in PenaltyRow
  PROVE  [w EXCEPT !.penalties[p] = q] \in WorldsIn(k)
BY DEF WorldsIn, WorldType

LEMMA SaveKeeps ==
  ASSUME NEW k \in Kinds, NEW save, Keeps(save, k), NEW w \in WorldsIn(k),
         NEW stored \in DebtRow, NEW i \in InstancesIn(k), NEW fields \in SUBSET AllFields
  PROVE  /\ SaveOver(save, w, stored, i, fields) \in ResultsIn(k)
         /\ SaveOver(save, w, stored, i, fields).w \in WorldsIn(k)
         /\ SaveOver(save, w, stored, i, fields).i \in InstancesIn(k)
<1>1. [w |-> w, stored |-> stored, i |-> i, fields |-> fields] \in Situations
  BY DEF Situations, WorldsIn, InstancesIn
<1> QED BY <1>1 DEF Keeps, SaveOver, ResultsIn

LEMMA RowOf ==
  ASSUME NEW k \in Kinds, NEW w \in WorldsIn(k)
  PROVE  /\ w.row \in DebtRow /\ w.debt \in Debts /\ w.amount \in Nat
         /\ w.free \in Penalties \cup {"none"}
BY DEF WorldsIn, WorldType

(***************************************************************************)
(* The handlers.                                                           *)
(***************************************************************************)
LEMMA SaveStatusKeeps ==
  ASSUME NEW k \in Kinds, NEW save, Keeps(save, k), NEW w \in WorldsIn(k),
         NEW stored \in DebtRow, NEW i \in InstancesIn(k), NEW status \in Statuses
  PROVE  /\ SaveStatusOver(save, w, stored, i, status).w \in WorldsIn(k)
         /\ SaveStatusOver(save, w, stored, i, status).i \in InstancesIn(k)
BY CheckKeeps, StatusKeeps, SaveKeeps DEF SaveStatusOver

LEMMA OnPaidKeeps ==
  ASSUME NEW k \in Kinds, NEW save, Keeps(save, k), NEW w \in WorldsIn(k)
  PROVE  OnPaid(save, w) \in WorldsIn(k) /\ OnDefaulted(save, w) \in WorldsIn(k)
<1>1. "paid" \in Statuses /\ "paid" \in Notices /\ "defaulted" \in Statuses /\ "defaulted" \in Notices
  BY DEF Statuses, Notices
<1>2. SaveStatus(save, w, "paid").w \in WorldsIn(k)
  BY <1>1, RowOf, FetchKeeps, SaveStatusKeeps DEF SaveStatus
<1>3. SaveStatus(save, w, "defaulted").w \in WorldsIn(k)
  BY <1>1, RowOf, FetchKeeps, SaveStatusKeeps DEF SaveStatus
<1> QED BY <1>1, <1>2, <1>3, SendKeeps DEF OnPaid, OnDefaulted

LEMMA OutstandingIsInt ==
  ASSUME NEW k \in Kinds, NEW i \in InstancesIn(k)
  PROVE  Outstanding(i.data) \in Int /\ i.data.rem \in Int /\ i.data.status \in Statuses
BY DEF InstancesIn, InstanceType, DebtRow, Outstanding

LEMMA WholeRow == AllFields \in SUBSET AllFields /\ {"rem"} \in SUBSET AllFields /\ {"status"} \in SUBSET AllFields
BY Fields

LEMMA OnRestoreKeeps ==
  ASSUME NEW k \in Kinds, NEW save, Keeps(save, k), NEW w \in WorldsIn(k)
  PROVE  OnRestoreToActive(save, w) \in WorldsIn(k)
<1> DEFINE s == SaveStatus(save, w, "active")
           x == Outstanding(s.i.data)
           t == Save(save, s.w, [s.i EXCEPT !.data.rem = x], AllFields)
<1>1. "active" \in Statuses /\ "restored" \in Notices
  BY DEF Statuses, Notices
<1>2. s.w \in WorldsIn(k) /\ s.i \in InstancesIn(k)
  BY <1>1, RowOf, FetchKeeps, SaveStatusKeeps DEF SaveStatus
<1>3. t.w \in WorldsIn(k)
  <2> HIDE DEF s
  <2>1. [s.i EXCEPT !.data.rem = x] \in InstancesIn(k)
    BY <1>2, OutstandingIsInt, BalanceKeeps
  <2> QED BY <1>2, <2>1, RowOf, WholeRow, SaveKeeps DEF Save
<1>4. OnRestoreToActive(save, w) = Send(IF x = s.i.data.rem THEN s.w ELSE t.w, "restored")
  BY DEF OnRestoreToActive
<1> QED BY <1>1, <1>2, <1>3, <1>4, SendKeeps

LEMMA ResetKeeps ==
  ASSUME NEW k \in Kinds, NEW save, Keeps(save, k), NEW w \in WorldsIn(k),
         NEW i \in InstancesIn(k)
  PROVE  ResetDebt(save, w, i).w \in WorldsIn(k) /\ ResetDebt(save, w, i).i \in InstancesIn(k)
<1>1. [i EXCEPT !.data.rem = Outstanding(i.data)] \in InstancesIn(k)
  BY OutstandingIsInt, BalanceKeeps
<1> QED BY <1>1, RowOf, WholeRow, SaveKeeps DEF ResetDebt, Save

LEMMA InsertKeeps ==
  ASSUME NEW k \in Kinds, NEW save, Keeps(save, k), NEW w \in WorldsIn(k),
         NEW stored \in DebtRow, NEW fresh \in InstancesIn(k), NEW i \in InstancesIn(k),
         NEW p \in Penalties, NEW penalty \in PenaltyRow
  PROVE  /\ InsertPenalty(save, w, stored, fresh, i, p, penalty).w \in WorldsIn(k)
         /\ InsertPenalty(save, w, stored, fresh, i, p, penalty).i \in InstancesIn(k)
<1> DEFINE charged == [fresh EXCEPT !.data.rem = @ + penalty.amount]
           collected == SaveOver(save, [w EXCEPT !.penalties[p] = penalty], stored, charged, {"rem"})
           again == SavePenalty(save, collected.w, i, p, penalty)
<1>1. charged \in InstancesIn(k)
  <2>1. fresh.data.rem + penalty.amount \in Int
    BY OutstandingIsInt DEF PenaltyRow
  <2> QED BY <2>1, BalanceKeeps
<1>2. collected.w \in WorldsIn(k)
  BY <1>1, PenaltyKeeps, WholeRow, SaveKeeps
<1>3. again.w \in WorldsIn(k) /\ again.i \in InstancesIn(k)
  <2> HIDE DEF collected
  <2> QED BY <1>2, PenaltyKeeps, ResetKeeps DEF SavePenalty
<1>4. Send(again.w, "penalty") \in WorldsIn(k)
  BY <1>3, SendKeeps DEF Notices
<1>5. InsertPenalty(save, w, stored, fresh, i, p, penalty)
        = ResetDebt(save, Send(again.w, "penalty"), again.i)
  BY DEF InsertPenalty
<1> HIDE DEF again
<1> QED BY <1>3, <1>4, <1>5, ResetKeeps

LEMMA BillKeeps ==
  ASSUME NEW k \in Kinds, NEW save, Keeps(save, k), NEW w \in WorldsIn(k),
         NEW i \in InstancesIn(k), today \in Nat
  PROVE  BillPenalty(save, w, i) \in WorldsIn(k)
<1> DEFINE penalty == NewPenalty(w.debt, w.amount, today, TRUE)
           s == InsertPenalty(save, w, w.row, Fetch(w), i, w.free, penalty)
           charged == [s.i EXCEPT !.data.rem = @ + w.amount]
<1>1. CASE w.free = "none"
  <2>1. BillPenalty(save, w, i) = Raise(w)
    BY <1>1 DEF BillPenalty
  <2> QED BY <2>1, EndKeeps DEF Raise
<1>2. CASE w.free # "none"
  <2>1. w.free \in Penalties /\ penalty \in PenaltyRow
    BY <1>2, RowOf DEF NewPenalty, PenaltyRow, RowState
  <2>2. s.w \in WorldsIn(k) /\ s.i \in InstancesIn(k)
    BY <2>1, RowOf, FetchKeeps, InsertKeeps
  <2>3. BillPenalty(save, w, i) = Save(save, s.w, charged, AllFields).w
    BY <1>2 DEF BillPenalty
  <2>4. charged \in InstancesIn(k)
    <3> HIDE DEF s
    <3>1. s.i.data.rem + w.amount \in Int
      BY <2>2, OutstandingIsInt, RowOf
    <3> QED BY <2>2, <3>1, BalanceKeeps
  <2> HIDE DEF charged, s
  <2> QED BY <2>2, <2>3, <2>4, RowOf, WholeRow, SaveKeeps DEF Save
<1> QED BY <1>1, <1>2

LEMMA OnOverdueKeeps ==
  ASSUME NEW k \in Kinds, NEW save, Keeps(save, k), NEW w \in WorldsIn(k),
         NEW stored \in DebtRow, NEW i \in InstancesIn(k), today \in Nat
  PROVE  OnOverdueOver(save, w, stored, i) \in WorldsIn(k)
<1> DEFINE s == SaveStatusOver(save, w, stored, i, "overdue")
<1>1. s.w \in WorldsIn(k) /\ s.i \in InstancesIn(k)
  BY SaveStatusKeeps DEF Statuses
<1>2. OnOverdueOver(save, w, stored, i)
        = Send(IF BillsPenalty(s.w, s.i.data) THEN BillPenalty(save, s.w, s.i) ELSE s.w, "overdue")
  BY DEF OnOverdueOver
<1> HIDE DEF s
<1> QED BY <1>1, <1>2, BillKeeps, SendKeeps DEF Notices

LEMMA SettleKeeps ==
  ASSUME NEW k \in Kinds, NEW save, Keeps(save, k), NEW w \in WorldsIn(k),
         NEW i \in InstancesIn(k)
  PROVE  Settle(save, w, i).w \in WorldsIn(k) /\ Settle(save, w, i).i \in InstancesIn(k)
         /\ Settle(save, w, i) \in ResultsIn(k)
<1> DEFINE s == Save(save, w, [i EXCEPT !.data.status = "paid", !.skip = TRUE], {"status"})
<1>1. s \in ResultsIn(k)
  BY StatusKeeps, RowOf, WholeRow, SaveKeeps DEF Save, Statuses
<1>2. Settle(save, w, i) = [s EXCEPT !.w = OnPaid(save, s.w)]
  BY DEF Settle
<1> HIDE DEF s
<1>3. s.w \in WorldsIn(k)
  BY <1>1 DEF ResultsIn
<1>4. OnPaid(save, s.w) \in WorldsIn(k)
  BY <1>3, OnPaidKeeps
<1> QED BY <1>1, <1>2, <1>4 DEF ResultsIn

LEMMA TransitionKeeps ==
  ASSUME NEW k \in Kinds, NEW save, Keeps(save, k), NEW w \in WorldsIn(k),
         NEW i \in InstancesIn(k), today \in Nat
  PROVE  Transition(save, w, i) \in WorldsIn(k)
<1> DEFINE moved == IF i.old.status = i.data.status THEN w
                    ELSE CASE i.data.status = "paid" -> OnPaid(save, w)
                           [] i.data.status = "overdue" -> OnOverdue(save, w)
                           [] i.data.status = "defaulted" -> OnDefaulted(save, w)
                           [] i.data.status = "active" -> OnRestoreToActive(save, w)
<1>1. OnPaid(save, w) \in WorldsIn(k) /\ OnDefaulted(save, w) \in WorldsIn(k)
  BY OnPaidKeeps
<1>2. OnRestoreToActive(save, w) \in WorldsIn(k)
  BY OnRestoreKeeps
<1>3. OnOverdue(save, w) \in WorldsIn(k)
  BY RowOf, FetchKeeps, OnOverdueKeeps DEF OnOverdue
<1>4. i.data.status \in {"active", "paid", "overdue", "defaulted"}
  BY OutstandingIsInt DEF Statuses
<1>5. moved \in WorldsIn(k)
  BY <1>1, <1>2, <1>3, <1>4
<1>6. Transition(save, w, i) = IF i.old.total > i.data.total
                               THEN Send(CheckAllowed(moved, i.data.status), "forgiveness")
                               ELSE moved
  BY DEF Transition
<1> HIDE DEF moved
<1> QED BY <1>5, <1>6, CheckKeeps, SendKeeps DEF Notices

\* What of its instance a save writes over a row.
Merged(row, data, fields) == [f \in AllFields |-> IF f \in fields THEN data[f] ELSE row[f]]

LEMMA MergedRow ==
  ASSUME NEW row \in DebtRow, NEW data \in DebtRow, NEW fields \in SUBSET AllFields
  PROVE  /\ Merged(row, data, fields) \in DebtRow
         /\ Merged(row, data, fields).paid \in {row.paid, data.paid}
BY Fields DEF Merged, DebtRow

LEMMA RecalculatedKeeps ==
  ASSUME NEW stored \in DebtRow, NEW data \in DebtRow
  PROVE  Recalculated(stored, data) \in DebtRow /\ Recalculated(stored, data).paid = data.paid
BY DEF Recalculated, DebtRow, Max0, Outstanding

LEMMA SavedKeeps ==
  ASSUME NEW k \in Kinds, NEW save, Keeps(save, k), NEW w \in WorldsIn(k),
         NEW stored \in DebtRow, NEW i \in InstancesIn(k), NEW fields \in SUBSET AllFields,
         today \in Nat
  PROVE  Saved(save, w, stored, i, fields) \in ResultsIn(k)
<1> DEFINE data == IF i.skip THEN i.data ELSE Recalculated(stored, i.data)
           written == [w EXCEPT !.row = Merged(w.row, data, fields)]
           saved == [i EXCEPT !.data = data, !.old = stored]
           settled == IF ~i.skip /\ Settles(data) THEN Settle(save, written, saved)
                      ELSE [w |-> written, i |-> saved]
<1>1. Saved(save, w, stored, i, fields) = [settled EXCEPT !.w = Transition(save, settled.w, settled.i)]
  BY DEF Saved, Merged
<1>2. data \in DebtRow /\ data.paid = i.data.paid
  BY RecalculatedKeeps DEF InstancesIn, InstanceType
<1> HIDE DEF data
<1>3. written \in WorldsIn(k)
  BY <1>2, RowOf, MergedRow DEF WorldsIn, WorldType, InstancesIn, InstanceType
<1>4. saved \in InstancesIn(k)
  BY <1>2 DEF InstancesIn, InstanceType
<1> HIDE DEF written, saved
<1>5. settled \in ResultsIn(k)
  BY <1>3, <1>4, SettleKeeps DEF ResultsIn
<1> HIDE DEF settled
<1>6. settled.w \in WorldsIn(k) /\ settled.i \in InstancesIn(k)
  BY <1>5 DEF ResultsIn
<1>7. Transition(save, settled.w, settled.i) \in WorldsIn(k)
  BY <1>6, TransitionKeeps
<1> QED BY <1>1, <1>5, <1>7 DEF ResultsIn

LEMMA NestedKeeps ==
  ASSUME NEW k \in Kinds, NEW save, Keeps(save, k), today \in Nat
  PROVE  Keeps(Nested(save), k)
<1> SUFFICES ASSUME NEW s \in Situations, s.w \in WorldsIn(k), s.i \in InstancesIn(k)
             PROVE  Nested(save)[s] \in ResultsIn(k)
  BY DEF Keeps
<1>1. s.stored \in DebtRow /\ s.fields \in SUBSET AllFields
  BY DEF Situations
<1>2. Nested(save)[s] = Saved(save, s.w, s.stored, s.i, s.fields)
  BY DEF Nested
<1> QED BY <1>1, <1>2, SavedKeeps

LEMMA TooDeepKeeps ==
  ASSUME NEW k \in Kinds
  PROVE  Keeps(TooDeep, k)
<1> SUFFICES ASSUME NEW s \in Situations, s.w \in WorldsIn(k), s.i \in InstancesIn(k)
             PROVE  TooDeep[s] \in ResultsIn(k)
  BY DEF Keeps
<1>1. TooDeep[s] = [w |-> End(s.w, "endless"), i |-> s.i]
  BY DEF TooDeep
<1> QED BY <1>1, EndKeeps DEF ResultsIn

LEMMA SavesKeep ==
  ASSUME NEW k \in Kinds, today \in Nat
  PROVE  Keeps(Saves, k)
BY TooDeepKeeps, NestedKeeps DEF Saves

(***************************************************************************)
(* What a save comes to.                                                   *)
(***************************************************************************)
\* The row instance i holds once the first pre_save receiver has run.
DataOf(stored, i) == IF i.skip THEN i.data ELSE Recalculated(stored, i.data)

WrittenBy(w, data, fields) == [w EXCEPT !.row = Merged(w.row, data, fields)]
After(i, data, stored) == [i EXCEPT !.data = data, !.old = stored]

\* Whether the borrower has been told that the debt is paid.
Told(w) == "paid" \in Range(w.sent)

\* World v is w with the row and some notices more.
Carries(v, w, row) ==
  /\ v \in WorldType /\ v.row = row /\ v.penalties = w.penalties
  /\ v.debt = w.debt /\ v.free = w.free /\ v.amount = w.amount /\ v.outcome = w.outcome

\* The borrower is told that the debt is paid when it has become so on the way from w to v,
\* and never of one that is not.  No debt paid in w is reopened on the way.
Tells(v, w) ==
  /\ v.row.status = "paid" /\ w.row.status # "paid" => Told(v)
  /\ Told(v) => Told(w) \/ v.row.status = "paid"
  /\ Told(w) => Told(v)
  /\ w.row.status = "paid" => v.row.status = "paid"

Becomes(v, w, row) == Carries(v, w, row) /\ Tells(v, w)

LEMMA ToldSent ==
  ASSUME NEW w \in WorldType, NEW n \in Notices
  PROVE  Told(Send(w, n)) <=> Told(w) \/ n = "paid"
<1> DEFINE f == w.sent
           g == Append(f, n)
<1>1. f \in Seq(Notices) /\ Send(w, n).sent = g
  BY DEF WorldType, Send
<1> HIDE DEF f
<1>2. DOMAIN f = 1..Len(f) /\ DOMAIN g = 1..(Len(f) + 1) /\ Len(f) \in Nat
      /\ g[Len(f) + 1] = n /\ \A j \in 1..Len(f) : g[j] = f[j]
  BY <1>1
<1> HIDE DEF g
<1>3. "paid" \in Range(f) <=> \E j \in DOMAIN f : f[j] = "paid"
  BY DEF Range
<1>4. "paid" \in Range(g) <=> \E j \in DOMAIN g : g[j] = "paid"
  BY DEF Range
<1>5. \A j : j \in 1..(Len(f) + 1) <=> j \in 1..Len(f) \/ j = Len(f) + 1
  BY <1>2
<1>6. "paid" \in Range(g) <=> "paid" \in Range(f) \/ n = "paid"
  BY <1>2, <1>3, <1>4, <1>5
<1> QED BY <1>1, <1>6 DEF Told, f

LEMMA SentCarries ==
  ASSUME NEW w \in WorldType, NEW n \in Notices
  PROVE  Carries(Send(w, n), w, w.row)
<1>1. Send(w, n) \in WorldType
  BY AnyKind, SendKeeps
<1> QED BY <1>1 DEF Carries, Send, WorldType

LEMMA Sent ==
  ASSUME NEW w \in WorldType, NEW n \in Notices, n = "paid" => w.row.status = "paid"
  PROVE  Becomes(Send(w, n), w, w.row)
BY ToldSent, SentCarries DEF Becomes, Carries, Tells

LEMMA CarriesTwice ==
  ASSUME NEW u, NEW v, NEW w, NEW q, NEW r, Carries(u, v, r), Carries(v, w, q)
  PROVE  Carries(u, w, r)
BY DEF Carries

LEMMA BecomesTwice ==
  ASSUME NEW u, NEW v, NEW w, NEW q, NEW r, Becomes(u, v, r), Becomes(v, w, q)
  PROVE  Becomes(u, w, r)
BY DEF Becomes, Carries, Tells

LEMMA BecomesItself ==
  ASSUME NEW w \in WorldType
  PROVE  Becomes(w, w, w.row)
BY DEF Becomes, Carries, Tells

\* However the row has become paid, telling the borrower now is right.
LEMMA TellPaid ==
  ASSUME NEW u, NEW w, NEW q, Carries(u, w, q), q.status = "paid"
  PROVE  Becomes(Send(u, "paid"), w, q)
<1>1. u \in WorldType /\ u.row = q
  BY DEF Carries
<1>2. Carries(Send(u, "paid"), u, q) /\ Told(Send(u, "paid"))
  BY <1>1, SentCarries, ToldSent DEF Notices
<1>3. Carries(Send(u, "paid"), w, q)
  BY <1>2, CarriesTwice
<1>4. Send(u, "paid").row = q
  BY <1>2 DEF Carries
<1> QED BY <1>2, <1>3, <1>4 DEF Becomes, Tells

LEMMA WrittenCarries ==
  ASSUME NEW w \in WorldType, NEW r \in DebtRow
  PROVE  Carries([w EXCEPT !.row = r], w, r)
BY DEF Carries, WorldType

LEMMA WrittenWorld ==
  ASSUME NEW w \in WorldType, NEW r \in DebtRow, r.status = w.row.status
  PROVE  Becomes([w EXCEPT !.row = r], w, r)
BY WrittenCarries DEF Becomes, Carries, Tells, Told, WorldType

LEMMA DataType ==
  ASSUME NEW stored \in DebtRow, NEW i \in InstanceType
  PROVE  DataOf(stored, i) \in DebtRow
BY RecalculatedKeeps DEF DataOf, InstanceType

LEMMA AfterType ==
  ASSUME NEW i \in InstanceType, NEW data \in DebtRow, NEW stored \in DebtRow
  PROVE  /\ After(i, data, stored) \in InstanceType
         /\ After(i, data, stored).data = data /\ After(i, data, stored).skip = i.skip
         /\ After(i, data, stored).old = stored
BY DEF After, InstanceType

(***************************************************************************)
(* A save that settles nothing, changes no status and lowers no total      *)
(* writes the row, and that is all.                                        *)
(***************************************************************************)
Quiet(stored, i) ==
  LET n == DataOf(stored, i)
  IN  /\ i.skip \/ ~Settles(n)
      /\ stored.status = n.status /\ stored.total <= n.total

Quiets(save) ==
  \A w \in WorldType, stored \in DebtRow, i \in InstanceType, fields \in SUBSET AllFields :
    Quiet(stored, i) =>
      SaveOver(save, w, stored, i, fields)
        = [w |-> WrittenBy(w, DataOf(stored, i), fields), i |-> After(i, DataOf(stored, i), stored)]

LEMMA NestedSave ==
  ASSUME NEW save, NEW w \in WorldType, NEW stored \in DebtRow, NEW i \in InstanceType,
         NEW fields \in SUBSET AllFields
  PROVE  SaveOver(Nested(save), w, stored, i, fields) = Saved(save, w, stored, i, fields)
<1> DEFINE s == [w |-> w, stored |-> stored, i |-> i, fields |-> fields]
<1>1. s \in Situations
  BY DEF Situations
<1>2. Nested(save)[s] = Saved(save, s.w, s.stored, s.i, s.fields)
  BY <1>1 DEF Nested
<1>3. s.w = w /\ s.stored = stored /\ s.i = i /\ s.fields = fields
  OBVIOUS
<1> QED BY <1>2, <1>3 DEF SaveOver

\* Saved with its parts named.
LEMMA SavedParts ==
  ASSUME NEW save, NEW w, NEW stored, NEW i, NEW fields
  PROVE  LET data == DataOf(stored, i)
             written == WrittenBy(w, data, fields)
             settled == IF ~i.skip /\ Settles(data) THEN Settle(save, written, After(i, data, stored))
                        ELSE [w |-> written, i |-> After(i, data, stored)]
         IN  Saved(save, w, stored, i, fields) = [settled EXCEPT !.w = Transition(save, settled.w, settled.i)]
BY DEF Saved, DataOf, WrittenBy, Merged, After

LEMMA NestedQuiets ==
  ASSUME NEW save
  PROVE  Quiets(Nested(save))
<1> SUFFICES ASSUME NEW w \in WorldType, NEW stored \in DebtRow, NEW i \in InstanceType,
                    NEW fields \in SUBSET AllFields, Quiet(stored, i)
             PROVE  SaveOver(Nested(save), w, stored, i, fields)
                      = [w |-> WrittenBy(w, DataOf(stored, i), fields),
                         i |-> After(i, DataOf(stored, i), stored)]
  BY DEF Quiets
<1> DEFINE n == DataOf(stored, i)
           v == WrittenBy(w, n, fields)
           j == After(i, n, stored)
<1>1. n \in DebtRow
  BY DataType
<1>2. j.data = n /\ j.old = stored
  BY <1>1, AfterType
<1>3. /\ i.skip \/ ~Settles(n)
      /\ stored.status = n.status /\ ~(stored.total > n.total)
  BY <1>1 DEF Quiet, DebtRow
<1>4. Saved(save, w, stored, i, fields)
        = [[w |-> v, i |-> j] EXCEPT !.w = Transition(save, [w |-> v, i |-> j].w, [w |-> v, i |-> j].i)]
  BY <1>3, SavedParts
<1> HIDE DEF n, v, j
<1>5. Transition(save, v, j) = v
  BY <1>2, <1>3 DEF Transition
<1>6. Saved(save, w, stored, i, fields) = [w |-> v, i |-> j]
  BY <1>4, <1>5
<1> QED BY <1>6, NestedSave DEF n, v, j

(***************************************************************************)
(* Settlement.                                                             *)
(***************************************************************************)
LEMMA RowItself ==
  ASSUME NEW r \in DebtRow, NEW fields \in SUBSET AllFields
  PROVE  Merged(r, r, fields) = r
BY Fields DEF Merged, DebtRow

LEMMA SameRow ==
  ASSUME NEW r \in DebtRow
  PROVE  Recalculated(r, r) = r /\ [r EXCEPT !.status = r.status] = r
BY DEF Recalculated, DebtRow

\* Saving a row as it is stored.
LEMMA IdleSave ==
  ASSUME NEW save, Quiets(save), NEW w \in WorldType, ~Settles(w.row)
  PROVE  SaveStatus(save, w, w.row.status)
           = [w |-> CheckAllowed(w, w.row.status), i |-> Fetch(w)]
<1> DEFINE v == CheckAllowed(w, w.row.status)
           i == Fetch(w)
<1>1. w.row \in DebtRow
  BY DEF WorldType
<1>2. v \in WorldType /\ v.row = w.row
  <2>1. v \in WorldType
    BY AnyKind, CheckKeeps
  <2> QED BY <2>1 DEF CheckAllowed, Raise, End, WorldType
<1>3. i \in InstanceType /\ i.data = w.row /\ i.skip = FALSE /\ i.old = w.row
  BY <1>1 DEF Fetch, Instance, InstanceType
<1>4. [i EXCEPT !.data.status = w.row.status] = i
  <2>1. [i.data EXCEPT !.status = w.row.status] = w.row
    BY <1>1, <1>3, SameRow
  <2>2. [i EXCEPT !.data.status = w.row.status] = [i EXCEPT !.data = [i.data EXCEPT !.status = w.row.status]]
    BY <1>3 DEF InstanceType
  <2>3. [i EXCEPT !.data = w.row] = i
    BY <1>3 DEF InstanceType
  <2> QED BY <2>1, <2>2, <2>3
<1>5. DataOf(w.row, i) = w.row
  BY <1>1, <1>3, SameRow DEF DataOf
<1>6. Quiet(w.row, i)
  BY <1>1, <1>5 DEF Quiet, DebtRow
<1>7. WrittenBy(v, w.row, AllFields) = v
  BY <1>1, <1>2, RowItself, WholeRow DEF WrittenBy, WorldType
<1>8. After(i, w.row, w.row) = i
  BY <1>3 DEF After, InstanceType
<1>9. SaveStatus(save, w, w.row.status) = SaveOver(save, v, w.row, i, AllFields)
  BY <1>4 DEF SaveStatus, SaveStatusOver
<1> HIDE DEF v, i
<1>10. SaveOver(save, v, w.row, i, AllFields) = [w |-> v, i |-> i]
  BY <1>1, <1>2, <1>3, <1>5, <1>6, <1>7, <1>8, WholeRow DEF Quiets
<1> QED BY <1>9, <1>10 DEF v, i

LEMMA OnPaidOfPaid ==
  ASSUME NEW save, Quiets(save), NEW w \in WorldType, w.row.status = "paid"
  PROVE  OnPaid(save, w) = Send(w, "paid")
<1>1. CheckAllowed(w, "paid") = w
  BY ParameterAssumption DEF CheckAllowed
<1>2. SaveStatus(save, w, w.row.status) = [w |-> CheckAllowed(w, w.row.status), i |-> Fetch(w)]
  <2>1. ~Settles(w.row)
    BY DEF Settles
  <2> QED BY <2>1, IdleSave
<1>3. SaveStatus(save, w, "paid").w = w
  BY <1>1, <1>2
<1> QED BY <1>3 DEF OnPaid

\* Settle marks the row, and the instance, paid.
Marks(save) ==
  \A w \in WorldType, i \in InstanceType :
    w.row.total <= i.data.total =>
      \E v \in WorldType :
        /\ Becomes(v, w, [w.row EXCEPT !.status = "paid"])
        /\ Settle(save, w, i) =
             [w |-> v, i |-> [data |-> [i.data EXCEPT !.status = "paid"], skip |-> TRUE,
                              old |-> w.row]]

LEMMA InstanceParts ==
  ASSUME NEW x \in InstanceType, NEW y \in InstanceType,
         x.data = y.data, x.skip = y.skip, x.old = y.old
  PROVE  x = y
BY DEF InstanceType

LEMMA PaidInstance ==
  ASSUME NEW i \in InstanceType
  PROVE  [i EXCEPT !.data.status = "paid", !.skip = TRUE]
           = [data |-> [i.data EXCEPT !.status = "paid"], skip |-> TRUE, old |-> i.old]
<1> DEFINE r == [i.data EXCEPT !.status = "paid"]
<1>1. [i EXCEPT !.data.status = "paid", !.skip = TRUE]
        = [[i EXCEPT !.data = r] EXCEPT !.skip = TRUE]
  BY DEF InstanceType
<1>2. r \in DebtRow
  BY DEF InstanceType, DebtRow, Statuses
<1> HIDE DEF r
<1>3. [i EXCEPT !.data = r] = [data |-> r, skip |-> i.skip, old |-> i.old]
  BY <1>2 DEF InstanceType
<1> DEFINE x == [[i EXCEPT !.data = r] EXCEPT !.skip = TRUE]
           y == [data |-> r, skip |-> TRUE, old |-> i.old]
<1>4. y \in InstanceType /\ y.data = r /\ y.skip = TRUE /\ y.old = i.old
  BY <1>2 DEF InstanceType
<1>5. x \in InstanceType /\ x.data = r /\ x.skip = TRUE /\ x.old = i.old
  BY <1>2, <1>3 DEF InstanceType
<1> HIDE DEF x, y
<1>6. x = y
  BY <1>4, <1>5, InstanceParts
<1> QED BY <1>1, <1>6 DEF r, x, y

LEMMA Marked ==
  ASSUME NEW r \in DebtRow, NEW data \in DebtRow
  PROVE  /\ [r EXCEPT !.status = "paid"] \in DebtRow
         /\ Merged(r, [data EXCEPT !.status = "paid"], {"status"}) = [r EXCEPT !.status = "paid"]
BY Fields DEF Merged, DebtRow, Statuses

LEMMA NestedMarks ==
  ASSUME NEW inner, Quiets(inner)
  PROVE  Marks(Nested(inner))
<1> SUFFICES ASSUME NEW w \in WorldType, NEW i \in InstanceType, w.row.total <= i.data.total
             PROVE  \E v \in WorldType :
                      /\ Becomes(v, w, [w.row EXCEPT !.status = "paid"])
                      /\ Settle(Nested(inner), w, i) =
                           [w |-> v, i |-> [data |-> [i.data EXCEPT !.status = "paid"], skip |-> TRUE,
                                            old |-> w.row]]
  BY DEF Marks
<1> DEFINE save == Nested(inner)
           q == [w.row EXCEPT !.status = "paid"]
           n == [i.data EXCEPT !.status = "paid"]
           j == [i EXCEPT !.data.status = "paid", !.skip = TRUE]
           a == [data |-> n, skip |-> TRUE, old |-> w.row]
           v == [w EXCEPT !.row = q]
           s == Save(save, w, j, {"status"})
<1>1. w.row \in DebtRow /\ i.data \in DebtRow /\ q \in DebtRow /\ n \in DebtRow
      /\ Merged(w.row, n, {"status"}) = q
  BY Marked DEF WorldType, InstanceType
<1>2. j \in InstanceType /\ j.data = n /\ j.skip = TRUE /\ After(j, n, w.row) = a
  <2>1. j = [data |-> n, skip |-> TRUE, old |-> i.old]
    BY PaidInstance
  <2>2. i.old \in DebtRow
    BY DEF InstanceType
  <2> HIDE DEF n, j, q
  <2>3. j \in InstanceType /\ j.data = n /\ j.skip = TRUE
    BY <1>1, <2>1, <2>2 DEF InstanceType
  <2>4. /\ After(j, n, w.row) \in InstanceType /\ After(j, n, w.row).data = n
        /\ After(j, n, w.row).skip = TRUE /\ After(j, n, w.row).old = w.row
    <3>1. w.row \in DebtRow
      BY <1>1
    <3>2. j \in InstanceType /\ n \in DebtRow
      BY <1>1, <2>3
    <3>3. /\ After(j, n, w.row) \in InstanceType
          /\ After(j, n, w.row).data = n /\ After(j, n, w.row).skip = j.skip
          /\ After(j, n, w.row).old = w.row
      BY <3>1, <3>2, AfterType
    <3> QED BY <2>3, <3>3
  <2>5. a \in InstanceType /\ a.data = n /\ a.skip = TRUE /\ a.old = w.row
    BY <1>1 DEF InstanceType
  <2> HIDE DEF a
  <2> QED BY <2>3, <2>4, <2>5, InstanceParts
<1>3. v \in WorldType /\ v.row = q /\ Carries(v, w, q)
  BY <1>1, WrittenCarries DEF Carries
<1>4. DataOf(w.row, j) = n /\ WrittenBy(w, n, {"status"}) = v
  BY <1>1, <1>2 DEF DataOf, WrittenBy
<1>5. n.status = "paid" /\ q.status = "paid" /\ n.total = i.data.total /\ ~(w.row.total > n.total)
  BY <1>1 DEF DebtRow
<1>6. a.data = n /\ a.old = w.row
  OBVIOUS
<1>7. s = Saved(inner, w, w.row, j, {"status"})
  BY <1>1, <1>2, WholeRow, NestedSave DEF Save
<1>8. SaveOver(save, w, w.row, j, {"status"}) = s
  BY DEF Save
<1>9. s = [w |-> Transition(inner, v, a), i |-> a]
  <2> HIDE DEF n, j, a, v, s
  <2>1. Saved(inner, w, w.row, j, {"status"})
          = [[w |-> v, i |-> a] EXCEPT !.w = Transition(inner, [w |-> v, i |-> a].w, [w |-> v, i |-> a].i)]
    BY <1>2, <1>4, SavedParts
  <2> QED BY <1>7, <2>1
<1> HIDE DEF n, j, a, v, s, q
<1>10. Transition(inner, v, a) = v \/ Transition(inner, v, a) = OnPaid(inner, v)
  BY <1>5, <1>6 DEF Transition
<1>11. OnPaid(inner, v) = Send(v, "paid") /\ Carries(Send(v, "paid"), v, q)
  BY <1>3, <1>5, OnPaidOfPaid, SentCarries DEF Notices
<1>12. Carries(Transition(inner, v, a), w, q)
  BY <1>3, <1>10, <1>11, CarriesTwice
<1>13. Carries(s.w, w, q) /\ s.i = a
  BY <1>9, <1>12
<1>14. Quiets(save)
  BY NestedQuiets
<1>15. OnPaid(save, s.w) = Send(s.w, "paid")
  <2>1. s.w \in WorldType /\ s.w.row.status = "paid"
    BY <1>5, <1>13 DEF Carries
  <2> HIDE DEF save
  <2> QED BY <1>14, <2>1, OnPaidOfPaid
<1>16. Settle(save, w, i) = [s EXCEPT !.w = OnPaid(save, s.w)]
  BY DEF Settle, s, j
<1>17. Becomes(Send(s.w, "paid"), w, q)
  BY <1>5, <1>13, TellPaid
<1>18. Settle(save, w, i) = [w |-> Send(s.w, "paid"), i |-> a]
  BY <1>9, <1>13, <1>15, <1>16
<1>19. Send(s.w, "paid") \in WorldType
  BY <1>17 DEF Becomes, Carries
<1> QED BY <1>17, <1>18, <1>19 DEF q, a, n

(***************************************************************************)
(* Saves that leave the status to settlement.                              *)
(***************************************************************************)
\* The save s of an instance has turned world w into one with the row, which the instance shows.
Comes(s, w, row) ==
  /\ Becomes(s.w, w, row)
  /\ s.i \in InstanceType /\ s.i.data = row
  /\ s.i.skip => row.status = "paid"

\* Saving the given fields of i stores n, with the status and at least the total there was.
Keeping(w, i, fields, n) ==
  /\ n = DataOf(w.row, i) /\ n = Merged(w.row, n, fields)
  /\ n.status = w.row.status /\ w.row.total <= n.total
  /\ i.skip => n.status = "paid"

Steady(save) ==
  \A w \in WorldType, i \in InstanceType, fields \in SUBSET AllFields, n \in DebtRow :
    Keeping(w, i, fields, n) => Comes(Save(save, w, i, fields), w, Settled(n))

\* What the receivers do once they have settled.
LEMMA SettledSave ==
  ASSUME NEW save, Quiets(save), Marks(save), NEW w \in WorldType, NEW i \in InstanceType,
         NEW fields \in SUBSET AllFields, NEW n \in DebtRow, n = DataOf(w.row, i),
         n = Merged(w.row, n, fields), ~i.skip, Settles(n)
  PROVE  Comes(Save(Nested(save), w, i, fields), w, Settled(n))
<1> DEFINE v == WrittenBy(w, n, fields)
           j == After(i, n, w.row)
           q == [n EXCEPT !.status = "paid"]
           a == [data |-> q, skip |-> TRUE, old |-> n]
           s == Settle(save, v, j)
<1>1. w.row \in DebtRow /\ q \in DebtRow /\ q = Settled(n)
  BY Marked DEF WorldType, Settled
<1>2. j \in InstanceType /\ j.data = n
  <2>1. w.row \in DebtRow
    BY <1>1
  <2> QED BY <2>1, AfterType
<1>3. v = [w EXCEPT !.row = n]
  BY DEF WrittenBy
<1>4. v \in WorldType /\ v.row = n /\ Carries(v, w, n)
  BY <1>3, WrittenCarries DEF Carries
<1>5. a \in InstanceType /\ a.data = q /\ a.skip = TRUE /\ a.old = n
  BY <1>1 DEF InstanceType
<1>6. n.status # "paid" /\ q.status = "paid" /\ ~(n.total > q.total) /\ n.total <= n.total
  BY DEF Settles, DebtRow
<1>7. Saved(save, w, w.row, i, fields) = [s EXCEPT !.w = Transition(save, s.w, s.i)]
  BY SavedParts
<1>8. PICK u \in WorldType : Becomes(u, v, q) /\ s = [w |-> u, i |-> a]
  <2> HIDE DEF v, j
  <2> QED BY <1>2, <1>4, <1>6 DEF Marks
<1> HIDE DEF v, j, q, a, s
<1>9. Saved(save, w, w.row, i, fields) = [w |-> Transition(save, u, a), i |-> a]
  BY <1>7, <1>8
<1>10. Transition(save, u, a) = OnPaid(save, u)
  BY <1>5, <1>6 DEF Transition
<1>11. Carries(u, w, q) /\ OnPaid(save, u) = Send(u, "paid")
  <2>1. Carries(u, v, q) /\ u.row = q
    BY <1>8 DEF Becomes, Carries
  <2> QED BY <1>4, <1>6, <2>1, CarriesTwice, OnPaidOfPaid
<1>12. Becomes(Send(u, "paid"), w, q)
  BY <1>6, <1>11, TellPaid
<1>13. Save(Nested(save), w, i, fields) = [w |-> Send(u, "paid"), i |-> a]
  BY <1>1, <1>9, <1>10, <1>11, NestedSave DEF Save
<1> QED BY <1>1, <1>5, <1>6, <1>12, <1>13 DEF Comes

LEMMA NestedSteady ==
  ASSUME NEW save, Quiets(save), Marks(save)
  PROVE  Steady(Nested(save))
<1> SUFFICES ASSUME NEW w \in WorldType, NEW i \in InstanceType, NEW fields \in SUBSET AllFields,
                    NEW n \in DebtRow, Keeping(w, i, fields, n)
             PROVE  Comes(Save(Nested(save), w, i, fields), w, Settled(n))
  BY DEF Steady
<1>1. CASE ~i.skip /\ Settles(n)
  BY <1>1, SettledSave DEF Keeping
<1>2. CASE i.skip \/ ~Settles(n)
  <2> DEFINE v == WrittenBy(w, n, fields)
             j == After(i, n, w.row)
  <2>1. w.row \in DebtRow /\ n = DataOf(w.row, i) /\ Settled(n) = n
    BY <1>2 DEF WorldType, Keeping, Settled, Settles
  <2>2. Quiet(w.row, i)
    BY <1>2 DEF Keeping, Quiet
  <2>3. Save(Nested(save), w, i, fields) = [w |-> v, i |-> j]
    BY <2>1, <2>2, NestedQuiets DEF Quiets, Save
  <2>4. v = [w EXCEPT !.row = n]
    BY DEF Keeping, WrittenBy
  <2>5. Becomes(v, w, n)
    BY <2>4, WrittenWorld DEF Keeping
  <2>6. j \in InstanceType /\ j.data = n /\ j.skip = i.skip
    <3>1. w.row \in DebtRow
      BY <2>1
    <3> QED BY <3>1, AfterType
  <2> HIDE DEF v, j
  <2> QED BY <2>1, <2>3, <2>5, <2>6 DEF Comes, Keeping
<1> QED BY <1>1, <1>2

(***************************************************************************)
(* Saves of the balance.                                                   *)
(***************************************************************************)
\* The rows may differ in the balance.
Agree(r, q) ==
  /\ r.state = q.state /\ r.total = q.total /\ r.paid = q.paid
  /\ r.status = q.status /\ r.due = q.due /\ r.accrued = q.accrued

LEMMA BalanceRow ==
  ASSUME NEW r \in DebtRow, NEW q \in DebtRow, Agree(r, q), NEW x \in Int
  PROVE  /\ [r EXCEPT !.rem = x] = [q EXCEPT !.rem = x] /\ [r EXCEPT !.rem = x] \in DebtRow
         /\ Recalculated(q, [r EXCEPT !.rem = x]) = [q EXCEPT !.rem = x]
         /\ Merged(q, [q EXCEPT !.rem = x], {"rem"}) = [q EXCEPT !.rem = x]
         /\ Merged(q, [q EXCEPT !.rem = x], AllFields) = [q EXCEPT !.rem = x]
         /\ WithBalance(r, x) = WithBalance(q, x)
         /\ Outstanding(r) = Outstanding(q) /\ Outstanding(r) \in Int
<1>1. [r EXCEPT !.rem = x] = [q EXCEPT !.rem = x]
  BY DEF Agree, DebtRow
<1>2. [r EXCEPT !.rem = x] \in DebtRow
  BY DEF DebtRow
<1>3. Recalculated(q, [r EXCEPT !.rem = x]) = [q EXCEPT !.rem = x]
  BY <1>1 DEF Recalculated, DebtRow
<1>4. /\ Merged(q, [q EXCEPT !.rem = x], {"rem"}) = [q EXCEPT !.rem = x]
      /\ Merged(q, [q EXCEPT !.rem = x], AllFields) = [q EXCEPT !.rem = x]
  BY Fields DEF Merged, DebtRow
<1>5. WithBalance(r, x) = WithBalance(q, x)
  BY <1>1 DEF WithBalance
<1>6. Outstanding(r) = Outstanding(q) /\ Outstanding(r) \in Int
  BY DEF Agree, Outstanding, DebtRow
<1> QED BY <1>1, <1>2, <1>3, <1>4, <1>5, <1>6

LEMMA BalanceInstance ==
  ASSUME NEW i \in InstanceType, NEW x \in Int
  PROVE  /\ [i EXCEPT !.data.rem = x] \in InstanceType
         /\ [i EXCEPT !.data.rem = x].data = [i.data EXCEPT !.rem = x]
         /\ [i EXCEPT !.data.rem = x].skip = i.skip
BY DEF InstanceType, DebtRow

LEMMA BalanceSave ==
  ASSUME NEW save, Steady(save), NEW w \in WorldType, NEW i \in InstanceType, NEW x \in Int,
         Agree(i.data, w.row), i.skip => i.data.status = "paid",
         NEW fields \in {AllFields, {"rem"}}
  PROVE  Comes(Save(save, w, [i EXCEPT !.data.rem = x], fields), w, WithBalance(w.row, x))
<1> DEFINE j == [i EXCEPT !.data.rem = x]
           n == [w.row EXCEPT !.rem = x]
<1>1. w.row \in DebtRow /\ i.data \in DebtRow
  BY DEF WorldType, InstanceType
<1>2. j \in InstanceType /\ j.data = n /\ j.skip = i.skip
  <2>1. [i.data EXCEPT !.rem = x] = n
    BY <1>1, BalanceRow
  <2> QED BY <2>1, BalanceInstance
<1>3. n \in DebtRow /\ Recalculated(w.row, n) = n /\ Merged(w.row, n, fields) = n
  <2>1. w.row \in DebtRow /\ Agree(w.row, w.row)
    BY <1>1 DEF Agree
  <2>2. /\ n \in DebtRow /\ Recalculated(w.row, n) = n
        /\ Merged(w.row, n, {"rem"}) = n /\ Merged(w.row, n, AllFields) = n
    BY <2>1, BalanceRow
  <2> QED BY <2>2
<1>4. n.status = w.row.status /\ w.row.total <= n.total
  BY <1>1 DEF DebtRow
<1>5. fields \in SUBSET AllFields
  BY WholeRow
<1> HIDE DEF j
<1>6. Keeping(w, j, fields, n)
  <2>1. n = DataOf(w.row, j)
    BY <1>2, <1>3 DEF DataOf
  <2>2. j.skip => n.status = "paid"
    BY <1>2, <1>4 DEF Agree
  <2> QED BY <1>3, <1>4, <2>1, <2>2 DEF Keeping
<1>7. WithBalance(w.row, x) = Settled(n)
  BY DEF WithBalance
<1> HIDE DEF n
<1> QED BY <1>2, <1>3, <1>5, <1>6, <1>7 DEF Steady, j

(***************************************************************************)
(* Penalties.                                                              *)
(***************************************************************************)
\* An instance as it is before a save of the balance.
Fits(i, row) == Agree(i.data, row) /\ (i.skip => i.data.status = "paid")

LEMMA FetchFits ==
  ASSUME NEW w \in WorldType
  PROVE  Fetch(w) \in InstanceType /\ Fetch(w).data = w.row /\ Fits(Fetch(w), w.row)
         /\ Fetch(w).skip = FALSE /\ Fetch(w).old = w.row
BY DEF Fetch, Instance, InstanceType, WorldType, Fits, Agree

LEMMA ComesFits ==
  ASSUME NEW s, NEW w, NEW row, Comes(s, w, row)
  PROVE  /\ s.w \in WorldType /\ s.w.row = row /\ s.i \in InstanceType /\ s.i.data = row
         /\ Fits(s.i, row)
BY DEF Comes, Becomes, Carries, Fits, Agree

LEMMA ResetSave ==
  ASSUME NEW save, Steady(save), NEW w \in WorldType, NEW i \in InstanceType, Fits(i, w.row)
  PROVE  Comes(ResetDebt(save, w, i), w, Reset(w.row))
<1> DEFINE x == Outstanding(i.data)
<1>1. w.row \in DebtRow /\ i.data \in DebtRow
  BY DEF WorldType, InstanceType
<1>2. x \in Int /\ x = Outstanding(w.row)
  BY <1>1 DEF Fits, Agree, Outstanding, DebtRow
<1>3. ResetDebt(save, w, i) = Save(save, w, [i EXCEPT !.data.rem = x], AllFields)
  BY DEF ResetDebt
<1>4. Reset(w.row) = WithBalance(w.row, x)
  BY <1>2 DEF Reset
<1> HIDE DEF x
<1> QED BY <1>2, <1>3, <1>4, BalanceSave DEF Fits

LEMMA ResetTwice ==
  ASSUME NEW r \in DebtRow
  PROVE  /\ Reset(Reset(r)) = Reset(r) /\ Reset(r).rem = Outstanding(r)
         /\ Outstanding(Reset(r)) = Outstanding(r) /\ Outstanding(r) \in Int
<1> DEFINE x == Outstanding(r)
           q == [r EXCEPT !.rem = x]
           s == [q EXCEPT !.status = "paid"]
<1>1. x \in Int
  BY DEF Outstanding, DebtRow
<1>2. q \in DebtRow /\ q.rem = x /\ [q EXCEPT !.rem = x] = q /\ Outstanding(q) = x
  BY <1>1 DEF DebtRow, Outstanding
<1>3. s \in DebtRow /\ s.rem = x /\ [s EXCEPT !.rem = x] = s /\ Outstanding(s) = x /\ s.status = "paid"
  BY <1>1, <1>2, Marked DEF DebtRow, Outstanding
<1>4. Reset(r) = Settled(q)
  BY DEF Reset, WithBalance
<1> HIDE DEF x, q, s
<1>5. CASE Settles(q)
  <2>1. Reset(r) = s
    BY <1>4, <1>5 DEF Settled, s
  <2>2. Reset(s) = s
    BY <1>3 DEF Reset, WithBalance, Settled, Settles
  <2> QED BY <1>1, <1>3, <2>1, <2>2 DEF x
<1>6. CASE ~Settles(q)
  <2>1. Reset(r) = q
    BY <1>4, <1>6 DEF Settled
  <2>2. Reset(q) = q
    BY <1>2, <1>6 DEF Reset, WithBalance, Settled
  <2> QED BY <1>1, <1>2, <2>1, <2>2 DEF x
<1> QED BY <1>5, <1>6

LEMMA CollectedRow ==
  ASSUME NEW r \in DebtRow, Sound(r), NEW a \in Nat
  PROVE  /\ WithBalance(r, r.rem + a) \in DebtRow
         /\ Agree(r, WithBalance(r, r.rem + a)) /\ r.rem + a \in Int
<1> DEFINE x == r.rem + a
           q == [r EXCEPT !.rem = x]
<1>1. x \in Int /\ (r.rem > Eps => x > Eps) /\ r.rem \in Int
  BY EpsAssumption DEF DebtRow
<1>2. q \in DebtRow /\ q.rem = x /\ q.status = r.status /\ Agree(r, q)
  BY <1>1 DEF DebtRow, Agree
<1> HIDE DEF x
<1>3. ~Settles(q)
  BY <1>1, <1>2, EpsAssumption DEF Settles, Sound
<1>4. WithBalance(r, x) = q
  BY <1>3 DEF WithBalance, Settled
<1> QED BY <1>1, <1>2, <1>4 DEF x

\* World v is w with one penalty more, or changed, and the row.
LEMMA PenaltyWorld ==
  ASSUME NEW w \in WorldType, NEW p \in Penalties, NEW q \in PenaltyRow
  PROVE  /\ [w EXCEPT !.penalties[p] = q] \in WorldType
         /\ [w EXCEPT !.penalties[p] = q].row = w.row
         /\ [w EXCEPT !.penalties[p] = q].penalties = [w.penalties EXCEPT ![p] = q]
         /\ [w EXCEPT !.penalties[p] = q].penalties[p] = q
BY DEF WorldType

\* Writing a penalty again changes nothing.
LEMMA PenaltyAgain ==
  ASSUME NEW w \in WorldType, NEW p \in Penalties, NEW q \in PenaltyRow, w.penalties[p] = q
  PROVE  [w EXCEPT !.penalties[p] = q] = w
BY DEF WorldType

LEMMA BecomesPenalty ==
  ASSUME NEW v \in WorldType, NEW w \in WorldType, NEW row, Becomes(v, w, row),
         NEW p \in Penalties, NEW q \in PenaltyRow
  PROVE  Becomes([v EXCEPT !.penalties[p] = q], [w EXCEPT !.penalties[p] = q], row)
<1> DEFINE x == [v EXCEPT !.penalties[p] = q]
           y == [w EXCEPT !.penalties[p] = q]
<1>1. /\ x \in WorldType /\ x.row = v.row /\ x.debt = v.debt /\ x.free = v.free
      /\ x.amount = v.amount /\ x.outcome = v.outcome /\ x.sent = v.sent
      /\ x.penalties = [v.penalties EXCEPT ![p] = q]
  BY DEF WorldType
<1>2. /\ y.row = w.row /\ y.debt = w.debt /\ y.free = w.free
      /\ y.amount = w.amount /\ y.outcome = w.outcome /\ y.sent = w.sent
      /\ y.penalties = [w.penalties EXCEPT ![p] = q]
  BY DEF WorldType
<1> HIDE DEF x, y
<1>3. Becomes(x, y, row)
  BY <1>1, <1>2 DEF Becomes, Carries, Tells, Told
<1> QED BY <1>3 DEF x, y

LEMMA InsertEffect ==
  ASSUME NEW save, Steady(save), NEW w \in WorldType, Sound(w.row), NEW i \in InstanceType,
         Fits(i, w.row), NEW p \in Penalties, NEW penalty \in PenaltyRow
  PROVE  Comes(InsertPenalty(save, w, w.row, Fetch(w), i, p, penalty),
               [w EXCEPT !.penalties[p] = penalty], Reset(w.row))
<1> DEFINE r == w.row
           v == [w EXCEPT !.penalties[p] = penalty]
           x == r.rem + penalty.amount
           c == SaveOver(save, v, r, [Fetch(w) EXCEPT !.data.rem = x], {"rem"})
           again == SavePenalty(save, c.w, i, p, penalty)
           sent1 == Send(again.w, "penalty")
           last == ResetDebt(save, sent1, again.i)
<1>1. r \in DebtRow /\ penalty.amount \in Nat
  BY DEF WorldType, PenaltyRow
<1>2. v \in WorldType /\ v.row = r /\ v.penalties[p] = penalty
  BY PenaltyWorld
<1>3. InsertPenalty(save, w, r, Fetch(w), i, p, penalty) = last
  <2>1. Fetch(w).data.rem + penalty.amount = x
    BY DEF Fetch, Instance
  <2>2. [Fetch(w) EXCEPT !.data.rem = @ + penalty.amount] = [Fetch(w) EXCEPT !.data.rem = x]
    BY DEF Fetch, Instance
  <2> QED BY <2>2 DEF InsertPenalty
<1>4. /\ WithBalance(r, x) \in DebtRow /\ Agree(r, WithBalance(r, x)) /\ x \in Int
  <2>1. r \in DebtRow /\ Sound(r) /\ penalty.amount \in Nat
    BY <1>1
  <2> HIDE DEF r
  <2> QED BY <2>1, CollectedRow
<1>5. c = Save(save, v, [Fetch(w) EXCEPT !.data.rem = x], {"rem"})
  BY <1>2 DEF Save
<1> HIDE DEF v, x, c, again, sent1, last
<1>6. Comes(c, v, WithBalance(r, x))
  <2>1. Fetch(w) \in InstanceType /\ Agree(Fetch(w).data, v.row)
        /\ (Fetch(w).skip => Fetch(w).data.status = "paid")
    BY <1>2, FetchFits DEF Fits
  <2> QED BY <1>2, <1>4, <1>5, <2>1, BalanceSave
<1>7. /\ c.w \in WorldType /\ c.w.row = WithBalance(r, x) /\ c.w.penalties[p] = penalty
      /\ Becomes(c.w, v, WithBalance(r, x))
  BY <1>2, <1>6 DEF Comes, Becomes, Carries
<1>8. again = ResetDebt(save, c.w, i)
  BY <1>7, PenaltyAgain DEF SavePenalty, again
<1>9. Fits(i, c.w.row)
  <2>1. Agree(i.data, r) /\ (i.skip => i.data.status = "paid")
    BY DEF Fits
  <2> HIDE DEF r
  <2>2. Agree(i.data, c.w.row)
    BY <1>4, <1>7, <2>1 DEF Agree
  <2> QED BY <2>1, <2>2 DEF Fits
<1>10. Comes(again, c.w, Reset(c.w.row))
  BY <1>7, <1>8, <1>9, ResetSave
<1>11. Reset(c.w.row) = Reset(r)
  <2>1. r \in DebtRow /\ c.w.row \in DebtRow /\ Agree(r, c.w.row)
    BY <1>1, <1>4, <1>7
  <2>2. Outstanding(r) = Outstanding(c.w.row) /\ Outstanding(r) \in Int
    BY <2>1 DEF Agree, Outstanding, DebtRow
  <2>3. WithBalance(r, Outstanding(r)) = WithBalance(c.w.row, Outstanding(r))
    BY <2>1, <2>2, BalanceRow
  <2> QED BY <2>2, <2>3 DEF Reset
<1>12. Comes(again, c.w, Reset(r)) /\ again.w \in WorldType /\ again.w.row = Reset(r)
       /\ Becomes(again.w, v, Reset(r))
  BY <1>7, <1>10, <1>11, BecomesTwice DEF Comes, Becomes, Carries
<1>13. sent1 \in WorldType /\ sent1.row = Reset(r) /\ Becomes(sent1, v, Reset(r))
  <2>1. Becomes(sent1, again.w, again.w.row)
    BY <1>12, Sent DEF sent1, Notices
  <2> QED BY <1>12, <2>1, BecomesTwice DEF Becomes, Carries
<1>14. again.i \in InstanceType /\ Fits(again.i, Reset(r))
  BY <1>12, ComesFits
<1>15. Comes(last, sent1, Reset(r))
  <2>1. Comes(last, sent1, Reset(sent1.row))
    BY <1>13, <1>14, ResetSave DEF last
  <2> QED BY <1>1, <1>13, <2>1, ResetTwice
<1>16. Comes(last, v, Reset(r))
  BY <1>13, <1>15, BecomesTwice DEF Comes
<1> QED BY <1>3, <1>16 DEF v

LEMMA ChargeEffect ==
  ASSUME NEW save, Steady(save), NEW w \in WorldType, NEW r \in DebtRow, NEW s,
         Comes(s, w, Reset(r)), NEW a \in Nat, NEW fields \in {AllFields, {"rem"}}
  PROVE  Comes(Save(save, s.w, [s.i EXCEPT !.data.rem = @ + a], fields), w, Charged(r, a))
<1> DEFINE x == s.i.data.rem + a
           t == Save(save, s.w, [s.i EXCEPT !.data.rem = x], fields)
<1>1. s.w \in WorldType /\ s.w.row = Reset(r) /\ s.i \in InstanceType /\ s.i.data = Reset(r)
      /\ Fits(s.i, s.w.row)
  BY ComesFits
<1>2. x = Outstanding(r) + a /\ x \in Int
  BY <1>1, ResetTwice
<1>3. t = Save(save, s.w, [s.i EXCEPT !.data.rem = @ + a], fields)
  <2>1. [s.i EXCEPT !.data.rem = @ + a] = [s.i EXCEPT !.data.rem = x]
    BY <1>1 DEF InstanceType, DebtRow
  <2> QED BY <2>1
<1>4. Charged(r, a) = WithBalance(s.w.row, x)
  BY <1>1, <1>2 DEF Charged
<1> HIDE DEF x
<1>5. Comes(t, s.w, WithBalance(s.w.row, x))
  BY <1>1, <1>2, BalanceSave DEF Fits
<1>6. Becomes(s.w, w, Reset(r))
  BY DEF Comes
<1> HIDE DEF t
<1>7. Comes(t, w, Charged(r, a))
  BY <1>4, <1>5, <1>6, BecomesTwice DEF Comes
<1> QED BY <1>3, <1>7

(***************************************************************************)
(* Calls that have raised.                                                 *)
(***************************************************************************)
Raised == [debts |-> Debts, paids |-> Nat, ends |-> {"raised"}]

LEMMA RaisedKind ==
  /\ Raised \in Kinds
  /\ WorldsIn(Raised) = {w \in WorldType : w.outcome = "raised"}
  /\ InstancesIn(Raised) = InstanceType
BY DEF Raised, Kinds, WorldsIn, InstancesIn, WorldType, InstanceType, DebtRow, Outcomes

LEMMA Raises ==
  ASSUME NEW w \in WorldType, w.outcome \in {"done", "raised"}
  PROVE  Raise(w) \in WorldsIn(Raised)
<1>1. Raise(w) \in WorldType
  BY AnyKind, EndKeeps DEF Raise
<1>2. Raise(w).outcome = "raised"
  BY DEF Raise, End, WorldType
<1> QED BY <1>1, <1>2, RaisedKind

LEMMA CheckRaises ==
  ASSUME NEW w \in WorldType, w.outcome \in {"done", "raised"}, NEW status
  PROVE  IF status \in AllowedStatuses THEN CheckAllowed(w, status) = w
         ELSE CheckAllowed(w, status) \in WorldsIn(Raised)
BY Raises DEF CheckAllowed

\* What holds of every save that nests at least three deep.
Proper(save) == Keeps(save, Raised) /\ Quiets(save) /\ Marks(save) /\ Steady(save)

Deep == Nested(Nested(Nested(Nested(TooDeep))))

LEMMA NestedProper ==
  ASSUME NEW save, Keeps(save, Raised), Quiets(save), Marks(save), today \in Nat
  PROVE  Proper(Nested(save))
BY RaisedKind, NestedKeeps, NestedQuiets, NestedMarks, NestedSteady DEF Proper

LEMMA SavesProper ==
  ASSUME today \in Nat
  PROVE  Saves = Nested(Deep) /\ Proper(Deep) /\ Proper(Saves)
<1>1. Keeps(TooDeep, Raised)
  BY RaisedKind, TooDeepKeeps
<1>2. Keeps(Nested(TooDeep), Raised) /\ Quiets(Nested(TooDeep))
  BY <1>1, RaisedKind, NestedKeeps, NestedQuiets
<1>3. /\ Keeps(Nested(Nested(TooDeep)), Raised) /\ Quiets(Nested(Nested(TooDeep)))
      /\ Marks(Nested(Nested(TooDeep)))
  BY <1>2, RaisedKind, NestedKeeps, NestedQuiets, NestedMarks
<1>4. Proper(Nested(Nested(Nested(TooDeep))))
  BY <1>3, NestedProper
<1>5. Proper(Deep)
  BY <1>4, NestedProper DEF Deep, Proper
<1>6. Saves = Nested(Deep)
  BY DEF Saves, Deep
<1> QED BY <1>5, <1>6, NestedProper DEF Proper

(***************************************************************************)
(* The transitions, from a row whose status has just become theirs.        *)
(***************************************************************************)
Penalised(w) == [w EXCEPT !.penalties[w.free] = NewPenalty(w.debt, w.amount, today, TRUE)]

Billed(u, w) == w.free # "none" /\ Becomes(u, Penalised(w), Charged(w.row, w.amount))

\* What the transition to overdue leaves of world w.
Overdue(u, w) ==
  \/ ~BillsPenalty(w, w.row) /\ Becomes(u, w, w.row)
  \/ BillsPenalty(w, w.row) /\ Billed(u, w)

\* What the transitions leave of world w, whose debt has moved from status old.
Landed(u, w, old) ==
  LET changed == w.row.status # old
      allowed == w.row.status \in AllowedStatuses
  IN  \/ u \in WorldsIn(Raised)
      \/ /\ (changed => w.row.status \in {"paid", "defaulted"} /\ allowed) /\ Becomes(u, w, w.row)
         /\ changed /\ w.row.status = "paid" => Told(u)
      \/ changed /\ w.row.status = "active" /\ allowed /\ Becomes(u, w, Restored(w.row))
      \/ changed /\ w.row.status = "overdue" /\ allowed /\ Overdue(u, w)

LEMMA BecomesSent ==
  ASSUME NEW u, NEW w, NEW row, Becomes(u, w, row), NEW n \in Notices, n # "paid"
  PROVE  Becomes(Send(u, n), w, row)
<1>1. u \in WorldType /\ u.row = row
  BY DEF Becomes, Carries
<1>2. Becomes(Send(u, n), u, u.row)
  BY <1>1, Sent
<1> QED BY <1>1, <1>2, BecomesTwice

LEMMA LandedSent ==
  ASSUME NEW u, NEW w, NEW old, Landed(u, w, old), NEW n \in Notices, n # "paid"
  PROVE  Landed(Send(u, n), w, old)
<1>1. u \in WorldsIn(Raised) => Send(u, n) \in WorldsIn(Raised)
  BY RaisedKind, SendKeeps
<1>2. \A v, row : Becomes(u, v, row) => Becomes(Send(u, n), v, row) /\ (Told(u) => Told(Send(u, n)))
  BY BecomesSent, ToldSent DEF Becomes, Carries
<1> QED BY <1>1, <1>2 DEF Landed, Overdue, Billed

LEMMA LandedEnds ==
  ASSUME NEW u, NEW w \in WorldType, w.outcome = "done", NEW old, Landed(u, w, old)
  PROVE  u \in WorldType /\ u.outcome \in {"done", "raised"}
<1>1. CASE u \in WorldsIn(Raised)
  BY <1>1, RaisedKind
<1>2. CASE \E row : Becomes(u, w, row) \/ Becomes(u, Penalised(w), row)
  BY <1>2 DEF Becomes, Carries, Penalised, WorldType
<1> QED BY <1>1, <1>2 DEF Landed, Overdue, Billed

LEMMA LandedChecked ==
  ASSUME NEW u, NEW w \in WorldType, w.outcome = "done", NEW old, Landed(u, w, old), NEW status
  PROVE  Landed(CheckAllowed(u, status), w, old)
<1>1. u \in WorldType /\ u.outcome \in {"done", "raised"}
  BY LandedEnds
<1>2. CheckAllowed(u, status) = u \/ CheckAllowed(u, status) \in WorldsIn(Raised)
  BY <1>1, CheckRaises
<1> QED BY <1>2 DEF Landed

\* The save a transition starts with.
LEMMA StatusSave ==
  ASSUME NEW save, Proper(save), NEW w \in WorldType, w.outcome = "done", ~Settles(w.row),
         NEW status, w.row.status = status
  PROVE  /\ SaveStatus(save, w, status) = [w |-> CheckAllowed(w, status), i |-> Fetch(w)]
         /\ IF status \in AllowedStatuses THEN CheckAllowed(w, status) = w
            ELSE CheckAllowed(w, status) \in WorldsIn(Raised)
BY IdleSave, CheckRaises DEF Proper

LEMMA OnDefaultedLands ==
  ASSUME NEW save, Proper(save), NEW w \in WorldType, w.outcome = "done", ~Settles(w.row),
         w.row.status = "defaulted", NEW old, old # "defaulted"
  PROVE  Landed(OnDefaulted(save, w), w, old)
<1> DEFINE v == CheckAllowed(w, "defaulted")
<1>1. OnDefaulted(save, w) = Send(v, "defaulted")
  BY StatusSave DEF OnDefaulted
<1>2. "defaulted" \in AllowedStatuses => v = w
  BY DEF CheckAllowed
<1>3. "defaulted" \notin AllowedStatuses => v \in WorldsIn(Raised)
  BY CheckRaises
<1>4. Becomes(w, w, w.row)
  BY BecomesItself
<1> HIDE DEF v
<1>5. Landed(v, w, old)
  BY <1>2, <1>3, <1>4 DEF Landed
<1> QED BY <1>1, <1>5, LandedSent DEF Notices

LEMMA OnPaidLands ==
  ASSUME NEW save, Proper(save), NEW w \in WorldType, w.row.status = "paid", NEW old
  PROVE  Landed(OnPaid(save, w), w, old)
<1>1. OnPaid(save, w) = Send(w, "paid")
  BY OnPaidOfPaid DEF Proper
<1>2. Becomes(Send(w, "paid"), w, w.row) /\ Told(Send(w, "paid"))
  BY TellPaid, ToldSent DEF Carries, Notices
<1> QED BY <1>1, <1>2, ParameterAssumption DEF Landed

LEMMA OnRestoreLands ==
  ASSUME NEW save, Proper(save), NEW w \in WorldType, w.outcome = "done", ~Settles(w.row),
         w.row.status = "active", NEW old, old # "active"
  PROVE  Landed(OnRestoreToActive(save, w), w, old)
<1> DEFINE v == CheckAllowed(w, "active")
           i == Fetch(w)
           x == Outstanding(i.data)
           t == Save(save, v, [i EXCEPT !.data.rem = x], AllFields)
           u == IF x = i.data.rem THEN v ELSE t.w
<1>1. SaveStatus(save, w, "active") = [w |-> v, i |-> i]
  BY StatusSave
<1>2. OnRestoreToActive(save, w) = Send(u, "restored")
  <2>1. SaveStatus(save, w, "active").w = v /\ SaveStatus(save, w, "active").i = i
    BY <1>1
  <2> QED BY <2>1 DEF OnRestoreToActive
<1>3. i \in InstanceType /\ i.data = w.row /\ Fits(i, w.row) /\ w.row \in DebtRow /\ x \in Int
      /\ i.data.rem = w.row.rem /\ x = Outstanding(w.row)
  BY FetchFits, ResetTwice DEF WorldType
<1>4. Restored(w.row) = WithBalance(w.row, x)
  <2>1. [w.row EXCEPT !.status = "active"] = w.row
    BY <1>3, SameRow
  <2> QED BY <1>3, <2>1 DEF Restored, Reset
<1> HIDE DEF i, x
<1>5. CASE "active" \in AllowedStatuses
  <2>1. v = w
    BY <1>5 DEF CheckAllowed
  <2>2. Comes(t, w, WithBalance(w.row, x))
    <3> HIDE DEF v
    <3> QED BY <1>3, <2>1, BalanceSave DEF Fits, Proper
  <2>3. x = w.row.rem => WithBalance(w.row, x) = w.row
    <3>1. [w.row EXCEPT !.rem = w.row.rem] = w.row
      BY <1>3 DEF DebtRow
    <3> QED BY <3>1 DEF WithBalance, Settled
  <2>4. Becomes(w, w, w.row)
    BY BecomesItself
  <2> HIDE DEF t, v
  <2>5. Becomes(u, w, Restored(w.row))
    BY <1>3, <1>4, <2>1, <2>2, <2>3, <2>4 DEF Comes
  <2> HIDE DEF u
  <2>6. Landed(u, w, old)
    BY <1>5, <2>5 DEF Landed
  <2> QED BY <1>2, <2>6, LandedSent DEF Notices
<1>6. CASE "active" \notin AllowedStatuses
  <2>1. v \in WorldsIn(Raised)
    BY <1>6, CheckRaises
  <2>2. t.w \in WorldsIn(Raised)
    <3> HIDE DEF v
    <3>1. [i EXCEPT !.data.rem = x] \in InstancesIn(Raised)
      BY <1>3, RaisedKind, BalanceKeeps
    <3> QED BY <2>1, <3>1, RaisedKind, RowOf, WholeRow, SaveKeeps DEF Save, Proper
  <2> HIDE DEF t, v
  <2>3. u \in WorldsIn(Raised)
    BY <2>1, <2>2
  <2> HIDE DEF u
  <2>4. Landed(u, w, old)
    BY <2>3 DEF Landed
  <2> QED BY <1>2, <2>4, LandedSent DEF Notices
<1> QED BY <1>5, <1>6

LEMMA PenalisedWorld ==
  ASSUME NEW w \in WorldType, w.free # "none", today \in Nat
  PROVE  /\ NewPenalty(w.debt, w.amount, today, TRUE) \in PenaltyRow /\ w.free \in Penalties
         /\ Penalised(w) \in WorldType
<1>1. NewPenalty(w.debt, w.amount, today, TRUE) \in PenaltyRow /\ w.free \in Penalties
  BY DEF WorldType, NewPenalty, PenaltyRow, RowState
<1> QED BY <1>1, PenaltyWorld DEF Penalised

LEMMA BillEffect ==
  ASSUME NEW save, Proper(save), NEW w \in WorldType, w.outcome = "done", Sound(w.row),
         NEW i \in InstanceType, Fits(i, w.row), today \in Nat
  PROVE  BillPenalty(save, w, i) \in WorldsIn(Raised) \/ Billed(BillPenalty(save, w, i), w)
<1>1. CASE w.free = "none"
  <2>1. BillPenalty(save, w, i) = Raise(w)
    BY <1>1 DEF BillPenalty
  <2> QED BY <2>1, Raises
<1>2. CASE w.free # "none"
  <2> DEFINE penalty == NewPenalty(w.debt, w.amount, today, TRUE)
             s == InsertPenalty(save, w, w.row, Fetch(w), i, w.free, penalty)
             t == Save(save, s.w, [s.i EXCEPT !.data.rem = @ + w.amount], AllFields)
  <2>1. penalty \in PenaltyRow /\ w.free \in Penalties /\ Penalised(w) \in WorldType
    BY <1>2, PenalisedWorld
  <2>2. BillPenalty(save, w, i) = t.w
    BY <1>2 DEF BillPenalty
  <2>3. Penalised(w) = [w EXCEPT !.penalties[w.free] = penalty]
    BY DEF Penalised
  <2> HIDE DEF penalty
  <2>4. Comes(s, Penalised(w), Reset(w.row))
    BY <2>1, <2>3, InsertEffect DEF Proper
  <2> HIDE DEF s
  <2>5. w.row \in DebtRow /\ w.amount \in Nat
    BY DEF WorldType
  <2>6. Comes(t, Penalised(w), Charged(w.row, w.amount))
    BY <2>1, <2>4, <2>5, ChargeEffect DEF Proper
  <2> HIDE DEF t
  <2> QED BY <1>2, <2>2, <2>6 DEF Comes, Billed
<1> QED BY <1>1, <1>2

LEMMA OnOverdueLands ==
  ASSUME NEW save, Proper(save), NEW w \in WorldType, w.outcome = "done", ~Settles(w.row),
         w.row.status = "overdue", NEW old, old # "overdue", today \in Nat
  PROVE  Landed(OnOverdue(save, w), w, old)
<1> DEFINE v == CheckAllowed(w, "overdue")
           i == Fetch(w)
           u == IF BillsPenalty(v, i.data) THEN BillPenalty(save, v, i) ELSE v
<1>1. SaveStatus(save, w, "overdue") = [w |-> v, i |-> i]
  BY StatusSave
<1>2. OnOverdue(save, w) = Send(u, "overdue")
  <2>1. SaveStatus(save, w, "overdue").w = v /\ SaveStatus(save, w, "overdue").i = i
    BY <1>1
  <2> QED BY <2>1 DEF OnOverdue, OnOverdueOver, SaveStatus
<1>3. i \in InstanceType /\ i.data = w.row /\ Fits(i, w.row)
  BY FetchFits
<1> HIDE DEF i
<1>4. CASE "overdue" \in AllowedStatuses
  <2>1. v = w
    BY <1>4 DEF CheckAllowed
  <2> HIDE DEF v
  <2>2. ASSUME BillsPenalty(w, w.row) PROVE Landed(u, w, old)
    <3>1. u = BillPenalty(save, w, i)
      BY <1>3, <2>1, <2>2
    <3>2. Sound(w.row)
      BY DEF Settles, Sound
    <3>3. u \in WorldsIn(Raised) \/ Billed(u, w)
      BY <1>3, <3>1, <3>2, BillEffect
    <3> HIDE DEF u
    <3> QED BY <1>4, <2>2, <3>3 DEF Landed, Overdue
  <2>3. ASSUME ~BillsPenalty(w, w.row) PROVE Landed(u, w, old)
    <3>1. u = w
      BY <1>3, <2>1, <2>3
    <3>2. Becomes(w, w, w.row)
      BY BecomesItself
    <3> HIDE DEF u
    <3> QED BY <1>4, <2>3, <3>1, <3>2 DEF Landed, Overdue
  <2> HIDE DEF u
  <2>4. Landed(u, w, old)
    BY <2>2, <2>3
  <2> QED BY <1>2, <2>4, LandedSent DEF Notices
<1>5. CASE "overdue" \notin AllowedStatuses
  <2>1. v \in WorldsIn(Raised)
    BY <1>5, CheckRaises
  <2> HIDE DEF v
  <2>2. BillPenalty(save, v, i) \in WorldsIn(Raised)
    BY <1>3, <2>1, RaisedKind, BillKeeps DEF Proper
  <2>3. u \in WorldsIn(Raised)
    BY <2>1, <2>2
  <2> HIDE DEF u
  <2>4. Landed(u, w, old)
    BY <2>3 DEF Landed
  <2> QED BY <1>2, <2>4, LandedSent DEF Notices
<1> QED BY <1>4, <1>5

(***************************************************************************)
(* A save that may change the status.                                      *)
(***************************************************************************)
LEMMA TransitionLands ==
  ASSUME NEW save, Proper(save), NEW w \in WorldType, w.outcome = "done", ~Settles(w.row),
         NEW i \in InstanceType, i.data = w.row, today \in Nat
  PROVE  Landed(Transition(save, w, i), w, i.old.status)
<1> DEFINE old == i.old.status
           status == i.data.status
           moved == IF old = status THEN w
                    ELSE CASE status = "paid" -> OnPaid(save, w)
                           [] status = "overdue" -> OnOverdue(save, w)
                           [] status = "defaulted" -> OnDefaulted(save, w)
                           [] status = "active" -> OnRestoreToActive(save, w)
<1>1. status = w.row.status /\ status \in {"active", "paid", "overdue", "defaulted"}
  BY DEF InstanceType, DebtRow, Statuses
<1>2. Transition(save, w, i) = IF i.old.total > i.data.total
                               THEN Send(CheckAllowed(moved, status), "forgiveness")
                               ELSE moved
  BY DEF Transition
<1> HIDE DEF status, old
<1>3. ASSUME old = status PROVE Landed(moved, w, old)
  <2>1. moved = w /\ Becomes(w, w, w.row)
    BY <1>3, BecomesItself
  <2> HIDE DEF moved
  <2> QED BY <1>1, <1>3, <2>1 DEF Landed
<1>4. ASSUME old # status, status = "paid" PROVE Landed(moved, w, old)
  <2>1. moved = OnPaid(save, w)
    BY <1>4
  <2> QED BY <1>1, <1>4, <2>1, OnPaidLands
<1>5. ASSUME old # status, status = "overdue" PROVE Landed(moved, w, old)
  <2>1. moved = OnOverdue(save, w)
    BY <1>5
  <2> QED BY <1>1, <1>5, <2>1, OnOverdueLands
<1>6. ASSUME old # status, status = "defaulted" PROVE Landed(moved, w, old)
  <2>1. moved = OnDefaulted(save, w)
    BY <1>6
  <2> QED BY <1>1, <1>6, <2>1, OnDefaultedLands
<1>7. ASSUME old # status, status = "active" PROVE Landed(moved, w, old)
  <2>1. moved = OnRestoreToActive(save, w)
    BY <1>7
  <2> QED BY <1>1, <1>7, <2>1, OnRestoreLands
<1> HIDE DEF moved
<1>8. Landed(moved, w, old)
  BY <1>1, <1>3, <1>4, <1>5, <1>6, <1>7
<1>9. Landed(Send(CheckAllowed(moved, status), "forgiveness"), w, old)
  <2>1. Landed(CheckAllowed(moved, status), w, old)
    BY <1>8, LandedChecked
  <2> QED BY <2>1, LandedSent DEF Notices
<1> QED BY <1>2, <1>8, <1>9 DEF old

\* Saving the given fields of i, which has no skip flag and whose row becomes n.
LEMMA FullSave ==
  ASSUME NEW save, Proper(save), NEW w \in WorldType, w.outcome = "done",
         NEW i \in InstanceType, ~i.skip, NEW fields \in SUBSET AllFields,
         NEW n \in DebtRow, n = DataOf(w.row, i), n = Merged(w.row, n, fields), today \in Nat
  PROVE  LET s == Save(Nested(save), w, i, fields)
         IN  IF Settles(n) THEN Comes(s, w, Settled(n))
             ELSE Landed(s.w, [w EXCEPT !.row = n], w.row.status) /\ s.i.data = n
<1> DEFINE s == Save(Nested(save), w, i, fields)
           v == [w EXCEPT !.row = n]
           j == After(i, n, w.row)
<1>1. Settles(n) => Comes(s, w, Settled(n))
  BY SettledSave DEF Proper
<1>2. ASSUME ~Settles(n) PROVE Landed(s.w, v, w.row.status) /\ s.i.data = n
  <2>1. w.row \in DebtRow
    BY DEF WorldType
  <2>2. j \in InstanceType /\ j.data = n /\ j.old = w.row
    BY <2>1, AfterType
  <2>3. v \in WorldType /\ v.row = n /\ v.outcome = "done"
    BY DEF WorldType
  <2>4. v = WrittenBy(w, n, fields)
    BY DEF WrittenBy
  <2>5. s = Saved(save, w, w.row, i, fields)
    BY <2>1, NestedSave DEF Save
  <2> HIDE DEF v, j, s
  <2>6. Saved(save, w, w.row, i, fields)
          = [[w |-> v, i |-> j] EXCEPT !.w = Transition(save, [w |-> v, i |-> j].w, [w |-> v, i |-> j].i)]
    BY <1>2, <2>4, SavedParts DEF j
  <2>7. s = [w |-> Transition(save, v, j), i |-> j]
    BY <2>5, <2>6
  <2>8. Landed(Transition(save, v, j), v, j.old.status)
    BY <1>2, <2>2, <2>3, TransitionLands
  <2> QED BY <2>2, <2>7, <2>8
<1> QED BY <1>1, <1>2

(***************************************************************************)
(* The end of a call.                                                      *)
(***************************************************************************)
\* What PaidIsAnnounced says of a step.
Announced ==
  \A d \in Debts :
    Exists(d) => /\ debts[d].status # "paid" /\ debts'[d].status = "paid"
                      => "paid" \in Range(sent')
                 /\ debts'[d] # debts[d] /\ "paid" \in Range(sent')
                      => debts'[d].status = "paid"

\* A call that returns, and one that raises.
Done == outcome' = "done" /\ Announced
Failed == outcome' = "raised" /\ Announced

\* A world w of a call on debt w.debt before any notice.
Begins(w) ==
  /\ w.outcome = "done" /\ ~Told(w) /\ w.debt \in Debts
  /\ Exists(w.debt) /\ w.row.status = "paid" => debts[w.debt].status = "paid"

LEMMA CommitRaised ==
  ASSUME NEW u \in WorldsIn(Raised), Commit(u)
  PROVE  Failed /\ UNCHANGED <<debts, penalties>>
BY RaisedKind DEF Commit, Store, Failed, Announced

LEMMA CommitTold ==
  ASSUME TypeOK, NEW u, NEW w, NEW row, Becomes(u, w, row), w.outcome = "done", ~Told(w),
         w.debt \in Debts, Begins(w) \/ Told(u), Commit(u)
  PROVE  /\ Done /\ penalties' = w.penalties
         /\ debts' = [debts EXCEPT ![w.debt] = row]
<1> DEFINE d == w.debt
<1>1. /\ outcome' = "done" /\ sent' = u.sent /\ penalties' = w.penalties
      /\ debts' = [debts EXCEPT ![d] = row]
  BY DEF Commit, Store, Becomes, Carries
<1>2. "paid" \in Range(sent') <=> Told(u)
  BY <1>1 DEF Told
<1>3. debts'[d] = row /\ \A e \in Debts : e # d => debts'[e] = debts[e]
  BY <1>1 DEF TypeOK
<1>4. Told(u) => row.status = "paid"
  BY DEF Becomes, Carries, Tells
<1>5. Exists(d) /\ debts[d].status # "paid" /\ row.status = "paid" => Told(u)
  BY DEF Becomes, Carries, Tells, Begins
<1> HIDE DEF d
<1>6. Announced
  BY <1>2, <1>3, <1>4, <1>5 DEF Announced
<1> QED BY <1>1, <1>6 DEF Done, d

LEMMA CommitBecomes ==
  ASSUME TypeOK, NEW u, NEW w, NEW row, Becomes(u, w, row), Begins(w), Commit(u)
  PROVE  /\ Done /\ penalties' = w.penalties
         /\ debts' = [debts EXCEPT ![w.debt] = row]
BY CommitTold DEF Begins

LEMMA WorldOf ==
  ASSUME TypeOK, NEW d \in Debts, NEW w \in Worlds(d) \cup {Plain(d)}
  PROVE  /\ w \in WorldType /\ w.outcome = "done" /\ w.row = debts[d] /\ w.debt = d
         /\ w.penalties = penalties /\ ~Told(w) /\ Begins(w)
         /\ w.free # "none" => w.free \in FreePenalties /\ w.amount \in PenaltyAmounts
<1>1. \/ w = Plain(d)
      \/ \E p \in FreePenalties, amount \in PenaltyAmounts : w = World(d, p, amount)
  BY DEF Worlds
<1>2. debts[d] \in DebtRow /\ penalties \in [Penalties -> PenaltyRow]
  BY DEF TypeOK
<1>3. <<>> \in Seq(Notices) /\ "done" \in Outcomes
  BY DEF Outcomes
<1>4. ASSUME w = Plain(d)
      PROVE  /\ w \in WorldType /\ w.outcome = "done" /\ w.row = debts[d] /\ w.debt = d
             /\ w.penalties = penalties /\ w.sent = <<>>
             /\ w.free # "none" => w.free \in FreePenalties /\ w.amount \in PenaltyAmounts
  BY <1>2, <1>3, <1>4 DEF Plain, World, WorldType
<1>5. ASSUME \E p \in FreePenalties, amount \in PenaltyAmounts : w = World(d, p, amount)
      PROVE  /\ w \in WorldType /\ w.outcome = "done" /\ w.row = debts[d] /\ w.debt = d
             /\ w.penalties = penalties /\ w.sent = <<>>
             /\ w.free # "none" => w.free \in FreePenalties /\ w.amount \in PenaltyAmounts
  <2>1. PICK p \in FreePenalties, amount \in PenaltyAmounts : w = World(d, p, amount)
    BY <1>5
  <2>2. p \in Penalties /\ amount \in Nat
    BY Inputs DEF FreePenalties
  <2> QED BY <1>2, <1>3, <2>1, <2>2 DEF World, WorldType
<1>6. /\ w \in WorldType /\ w.outcome = "done" /\ w.row = debts[d] /\ w.debt = d
      /\ w.penalties = penalties /\ w.sent = <<>>
      /\ w.free # "none" => w.free \in FreePenalties /\ w.amount \in PenaltyAmounts
  BY <1>1, <1>4, <1>5
<1>7. ~Told(w)
  <2>1. DOMAIN w.sent = {}
    BY <1>6
  <2> QED BY <2>1 DEF Told, Range
<1> QED BY <1>6, <1>7 DEF Begins

\* A world that has become overdue, once committed.
LEMMA OverdueCommits ==
  ASSUME TypeOK, NEW d \in Debts, NEW w \in WorldType, w.debt = d, w.penalties = penalties,
         w.free # "none" => w.free \in FreePenalties /\ w.amount \in PenaltyAmounts,
         w.outcome = "done", ~Told(w), w.row.status # "paid", "overdue" \in AllowedStatuses,
         NEW u, Overdue(u, w), Commit(u)
  PROVE  Done /\ EnterOverdue(d, w.row)
<1>1. BillsPenalty(w, w.row) <=> AutoPenalty /\ PastGrace(w.row) /\ ~PenaltySinceDue(d, w.row)
  BY DEF BillsPenalty, PenaltySinceDue, LivePenalties
<1>2. CASE ~BillsPenalty(w, w.row) /\ Becomes(u, w, w.row)
  <2>1. Begins(w)
    BY DEF Begins
  <2>2. Done /\ penalties' = penalties /\ debts' = [debts EXCEPT ![d] = w.row]
    BY <1>2, <2>1, CommitBecomes
  <2> QED BY <1>1, <1>2, <2>2 DEF EnterOverdue
<1>3. CASE BillsPenalty(w, w.row) /\ Billed(u, w)
  <2>1. Becomes(u, Penalised(w), Charged(w.row, w.amount)) /\ w.free \in FreePenalties
        /\ w.amount \in PenaltyAmounts
    BY <1>3 DEF Billed
  <2>2. Penalised(w).outcome = "done" /\ Penalised(w).debt = d
        /\ Penalised(w).row = w.row /\ Penalised(w).sent = w.sent
        /\ Penalised(w).penalties
             = [penalties EXCEPT ![w.free] = NewPenalty(d, w.amount, today, TRUE)]
    BY DEF Penalised, WorldType
  <2>3. /\ Done /\ debts' = [debts EXCEPT ![d] = Charged(w.row, w.amount)]
        /\ penalties' = [penalties EXCEPT ![w.free] = NewPenalty(d, w.amount, today, TRUE)]
    <3> DEFINE v == Penalised(w)
               row == Charged(w.row, w.amount)
    <3>1. Becomes(u, v, row) /\ v.outcome = "done" /\ v.debt = d /\ Begins(v)
      BY <2>1, <2>2 DEF Begins, Told
    <3>2. v.penalties = [penalties EXCEPT ![w.free] = NewPenalty(d, w.amount, today, TRUE)]
      BY <2>2
    <3> HIDE DEF v, row
    <3>3. Done /\ penalties' = v.penalties /\ debts' = [debts EXCEPT ![v.debt] = row]
      BY <3>1, CommitBecomes
    <3> QED BY <3>1, <3>2, <3>3 DEF row
  <2> QED BY <1>1, <1>3, <2>1, <2>3 DEF EnterOverdue
<1> QED BY <1>2, <1>3 DEF Overdue

\* A call that saves row new over the debt it has fetched.
LEMMA SaveCommits ==
  ASSUME TypeOK, NEW d \in Debts, NEW new \in DebtRow, NEW w \in Worlds(d) \cup {Plain(d)},
         NEW fields \in SUBSET AllFields,
         Merged(debts[d], Recalculated(debts[d], new), fields) = Recalculated(debts[d], new),
         Commit(Save(Saves, w, [Fetch(w) EXCEPT !.data = new], fields).w)
  PROVE  \/ Failed /\ UNCHANGED <<debts, penalties>>
         \/ Done /\ SaveDebt(d, new)
<1> DEFINE n == Recalculated(debts[d], new)
           i == [Fetch(w) EXCEPT !.data = new]
           s == Save(Saves, w, i, fields)
           v == [w EXCEPT !.row = n]
<1>1. /\ w \in WorldType /\ w.outcome = "done" /\ w.row = debts[d] /\ w.debt = d
      /\ w.penalties = penalties /\ ~Told(w) /\ Begins(w)
      /\ w.free # "none" => w.free \in FreePenalties /\ w.amount \in PenaltyAmounts
  BY WorldOf
<1>2. debts[d] \in DebtRow /\ today \in Nat /\ n \in DebtRow
  BY RecalculatedKeeps DEF TypeOK
<1>3. i \in InstanceType /\ ~i.skip /\ i.data = new
  BY <1>1, FetchFits DEF InstanceType
<1>4. n = DataOf(w.row, i)
  BY <1>1, <1>3 DEF DataOf
<1>5. Saves = Nested(Deep) /\ Proper(Deep)
  BY <1>2, SavesProper
<1>6. /\ v \in WorldType /\ v.row = n /\ v.outcome = "done" /\ v.debt = d /\ ~Told(v)
      /\ v.penalties = penalties /\ v.free = w.free /\ v.amount = w.amount
  BY <1>1, <1>2 DEF WorldType, Told
<1>7. n = Merged(w.row, n, fields)
  BY <1>1
<1>8. debts[d].status = w.row.status
  BY <1>1
<1> HIDE DEF i, n, v
<1>9. IF Settles(n) THEN Comes(s, w, Settled(n))
      ELSE Landed(s.w, v, debts[d].status) /\ s.i.data = n
  BY <1>1, <1>2, <1>3, <1>4, <1>5, <1>7, <1>8, FullSave DEF v
<1>10. Commit(s.w)
  BY DEF i
<1> HIDE DEF s
<1>11. SaveDebt(d, new) <=>
         \/ /\ Settles(n)
            /\ debts' = [debts EXCEPT ![d] = Settled(n)]
            /\ UNCHANGED penalties
         \/ /\ ~Settles(n)
            /\ n.status # debts[d].status => n.status \in {"paid", "defaulted"} \cap AllowedStatuses
            /\ debts' = [debts EXCEPT ![d] = n]
            /\ UNCHANGED penalties
         \/ /\ ~Settles(n) /\ n.status # debts[d].status /\ n.status = "active"
            /\ "active" \in AllowedStatuses
            /\ debts' = [debts EXCEPT ![d] = Restored(n)]
            /\ UNCHANGED penalties
         \/ /\ ~Settles(n) /\ n.status # debts[d].status /\ n.status = "overdue"
            /\ EnterOverdue(d, n)
  BY DEF SaveDebt, n
<1>12. CASE Settles(n)
  <2>1. Becomes(s.w, w, Settled(n))
    BY <1>9, <1>12 DEF Comes
  <2>2. Done /\ penalties' = penalties /\ debts' = [debts EXCEPT ![d] = Settled(n)]
    BY <1>1, <1>10, <2>1, CommitBecomes
  <2> QED BY <1>11, <1>12, <2>2
<1>13. CASE ~Settles(n)
  <2>1. Landed(s.w, v, debts[d].status)
    BY <1>9, <1>13
  <2>2. CASE s.w \in WorldsIn(Raised)
    BY <1>10, <2>2, CommitRaised
  <2>3. ASSUME NEW row, Becomes(s.w, v, row),
               n.status = "paid" => debts[d].status = "paid" \/ Told(s.w)
        PROVE  Done /\ penalties' = penalties /\ debts' = [debts EXCEPT ![d] = row]
    <3>1. v.debt \in Debts /\ (Begins(v) \/ Told(s.w))
      BY <1>6, <2>3 DEF Begins
    <3> QED BY <1>6, <1>10, <2>3, <3>1, CommitTold
  <2>4. CASE /\ n.status # debts[d].status => n.status \in {"paid", "defaulted"} /\ n.status \in AllowedStatuses
             /\ Becomes(s.w, v, n)
             /\ n.status # debts[d].status /\ n.status = "paid" => Told(s.w)
    BY <1>11, <1>13, <2>3, <2>4
  <2>5. CASE /\ n.status # debts[d].status /\ n.status = "active" /\ n.status \in AllowedStatuses
             /\ Becomes(s.w, v, Restored(n))
    BY <1>11, <1>13, <2>3, <2>5
  <2>6. CASE /\ n.status # debts[d].status /\ n.status = "overdue" /\ n.status \in AllowedStatuses
             /\ Overdue(s.w, v)
    <3>1. Done /\ EnterOverdue(d, v.row)
      BY <1>1, <1>6, <1>10, <2>6, OverdueCommits
    <3> QED BY <1>6, <1>11, <1>13, <2>6, <3>1
  <2> QED BY <1>6, <2>1, <2>2, <2>4, <2>5, <2>6 DEF Landed
<1> QED BY <1>12, <1>13

(***************************************************************************)
(* DebtService and ForgivenessService.                                     *)
(***************************************************************************)
LEMMA SaveDebtAsCommits ==
  ASSUME TypeOK, NEW d \in Debts, NEW new \in DebtRow, SaveDebtAs(d, new)
  PROVE  \/ Failed /\ UNCHANGED <<debts, penalties>>
         \/ Done /\ SaveDebt(d, new)
<1>1. PICK w \in Worlds(d) : Commit(Save(Saves, w, [Fetch(w) EXCEPT !.data = new], AllFields).w)
  BY DEF SaveDebtAs
<1>2. debts[d] \in DebtRow /\ Recalculated(debts[d], new) \in DebtRow
  BY RecalculatedKeeps DEF TypeOK
<1>3. Merged(debts[d], Recalculated(debts[d], new), AllFields) = Recalculated(debts[d], new)
  <2> DEFINE n == Recalculated(debts[d], new)
  <2>1. n \in DebtRow
    BY <1>2
  <2> HIDE DEF n
  <2>2. Merged(debts[d], n, AllFields) = n
    BY <2>1, Fields DEF Merged, DebtRow
  <2> QED BY <2>2 DEF n
<1> QED BY <1>1, <1>3, WholeRow, SaveCommits

LEMMA CreateSimulates ==
  ASSUME TypeOK, NEW d \in Debts, DebtServiceCreate(d)
  PROVE  Done /\ CreateDebt(d)
<1>1. PICK total \in Totals, paid \in PaidEdits, status \in Statuses, due \in DueDates,
           accrued \in AccrualDates \cup {today} :
        LET row == [state |-> "live", total |-> total, paid |-> paid,
                    rem |-> Max0(total - paid), status |-> status,
                    due |-> due, accrued |-> accrued]
            w == [Plain(d) EXCEPT !.row = row]
        IN  /\ Commit(IF Settles(row) THEN Settle(Saves, w, Fetch(w)).w ELSE w)
            /\ entered' = [entered EXCEPT ![d] = paid]
  BY DEF DebtServiceCreate
<1> DEFINE row == [state |-> "live", total |-> total, paid |-> paid,
                   rem |-> Max0(total - paid), status |-> status,
                   due |-> due, accrued |-> accrued]
           w == [Plain(d) EXCEPT !.row = row]
           u == IF Settles(row) THEN Settle(Saves, w, Fetch(w)).w ELSE w
<1>2. row \in DebtRow
  BY Inputs DEF TypeOK, DebtRow, RowState, Max0
<1>3. /\ Plain(d) \in WorldType /\ Plain(d).outcome = "done" /\ Plain(d).debt = d
      /\ Plain(d).penalties = penalties /\ ~Told(Plain(d))
  BY WorldOf
<1>4. Commit(u)
  BY <1>1
<1>5. /\ w \in WorldType /\ w.row = row /\ w.outcome = "done" /\ w.debt = d
      /\ w.penalties = penalties /\ ~Told(w)
  <2> HIDE DEF row
  <2> QED BY <1>2, <1>3 DEF WorldType, Told
<1> HIDE DEF row, w
<1>6. Becomes(u, w, Settled(row))
  <2>1. ASSUME ~Settles(row) PROVE Becomes(u, w, Settled(row))
    BY <1>5, <2>1, BecomesItself DEF Settled
  <2>2. ASSUME Settles(row) PROVE Becomes(u, w, Settled(row))
    <3>1. Fetch(w) \in InstanceType /\ w.row.total <= Fetch(w).data.total
      <4>1. Fetch(w) \in InstanceType /\ Fetch(w).data = row
        BY <1>5, FetchFits
      <4>2. row.total \in Int
        BY <1>2 DEF DebtRow
      <4> HIDE DEF u
      <4> QED BY <1>5, <4>1, <4>2
    <3>2. Marks(Saves)
      BY SavesProper DEF TypeOK, Proper
    <3>3. PICK v \in WorldType :
            /\ Becomes(v, w, [w.row EXCEPT !.status = "paid"])
            /\ Settle(Saves, w, Fetch(w)) =
                 [w |-> v, i |-> [data |-> [Fetch(w).data EXCEPT !.status = "paid"], skip |-> TRUE,
                                  old |-> w.row]]
      BY <1>5, <3>1, <3>2 DEF Marks
    <3> QED BY <1>5, <2>2, <3>3 DEF Settled
  <2> QED BY <2>1, <2>2
<1> HIDE DEF u
<1>7. ~Exists(d) /\ interest' = [interest EXCEPT ![d] = 0] /\ UNCHANGED <<payments, today>>
  BY DEF DebtServiceCreate
<1>8. Done /\ penalties' = penalties /\ debts' = [debts EXCEPT ![d] = Settled(row)]
  <2>1. Begins(w)
    BY <1>5, <1>7 DEF Begins
  <2> QED BY <1>4, <1>5, <1>6, <2>1, CommitBecomes
<1> QED BY <1>1, <1>7, <1>8 DEF CreateDebt, row

LEMMA UpdateSimulates ==
  ASSUME TypeOK, NEW d \in Debts, DebtServiceUpdate(d)
  PROVE  (Done \/ Failed) /\ (UpdateDebt(d) \/ UNCHANGED vars)
<1>1. PICK total \in Totals \cup {debts[d].total}, paid \in PaidEdits \cup {debts[d].paid},
           status \in Statuses, due \in DueDates \cup {debts[d].due},
           accrued \in AccrualDates \cup {debts[d].accrued} :
        /\ paid <= total
        /\ SaveDebtAs(d, [debts[d] EXCEPT !.total = total, !.paid = paid, !.status = status,
                                          !.due = due, !.accrued = accrued])
        /\ entered' = [entered EXCEPT ![d] = IF outcome' = "done" THEN @ + paid - debts[d].paid
                                             ELSE @]
  BY DEF DebtServiceUpdate
<1> DEFINE new == [debts[d] EXCEPT !.total = total, !.paid = paid, !.status = status,
                                   !.due = due, !.accrued = accrued]
<1>2. new \in DebtRow
  <2>1. debts[d] \in DebtRow
    BY DEF TypeOK
  <2>2. total \in Int /\ paid \in Nat /\ due \in Int /\ accrued \in Int
    BY <2>1, Inputs DEF DebtRow
  <2> QED BY <2>1, <2>2, EditedRow
<1>3. Live(d) /\ UNCHANGED <<payments, today, interest>>
  BY DEF DebtServiceUpdate
<1> HIDE DEF new
<1>4. \/ Failed /\ UNCHANGED <<debts, penalties>>
      \/ Done /\ SaveDebt(d, new)
  BY <1>1, <1>2, SaveDebtAsCommits DEF new
<1>5. CASE Failed /\ UNCHANGED <<debts, penalties>>
  <2>1. entered' = entered
    BY <1>1, <1>5 DEF TypeOK, Failed
  <2> QED BY <1>3, <1>5, <2>1 DEF vars
<1>6. CASE Done /\ SaveDebt(d, new)
  <2>1. entered' = [entered EXCEPT ![d] = @ + paid - debts[d].paid]
    BY <1>1, <1>6 DEF Done
  <2>2. UpdateDebt(d)
    BY <1>1, <1>3, <1>6, <2>1 DEF UpdateDebt, new
  <2> QED BY <1>6, <2>2
<1> QED BY <1>4, <1>5, <1>6

LEMMA CorrectSimulates ==
  ASSUME TypeOK, NEW d \in Debts, DebtServiceCorrectTotal(d)
  PROVE  (Done \/ Failed) /\ (CorrectTotal(d) \/ UNCHANGED vars)
<1>1. PICK total \in Totals :
        total >= debts[d].paid /\ SaveDebtAs(d, [debts[d] EXCEPT !.total = total])
  BY DEF DebtServiceCorrectTotal
<1>2. [debts[d] EXCEPT !.total = total] \in DebtRow
  BY Inputs DEF TypeOK, DebtRow
<1>3. \/ Failed /\ UNCHANGED <<debts, penalties>>
      \/ Done /\ SaveDebt(d, [debts[d] EXCEPT !.total = total])
  BY <1>1, <1>2, SaveDebtAsCommits
<1>4. Live(d) /\ UNCHANGED <<payments, today, interest, entered>>
  BY DEF DebtServiceCorrectTotal
<1> QED BY <1>1, <1>3, <1>4 DEF CorrectTotal, vars

\* The balance a service sets next to a new total is computed again before it is stored.
LEMMA ForgivenRow ==
  ASSUME NEW r \in DebtRow, NEW total \in Int, total # r.total, NEW x \in Int
  PROVE  /\ [r EXCEPT !.total = total, !.rem = x] \in DebtRow
         /\ [r EXCEPT !.total = total] \in DebtRow
         /\ Recalculated(r, [r EXCEPT !.total = total, !.rem = x])
              = Recalculated(r, [r EXCEPT !.total = total])
<1> DEFINE q == [r EXCEPT !.total = total]
           s == [r EXCEPT !.total = total, !.rem = x]
<1>1. q \in DebtRow /\ s \in DebtRow /\ q.total = total /\ s.total = total /\ s.paid = q.paid
  BY DEF DebtRow
<1>2. \A y : [s EXCEPT !.rem = y] = [q EXCEPT !.rem = y]
  BY DEF DebtRow
<1>3. Outstanding(s) = Outstanding(q)
  BY <1>1 DEF Outstanding
<1> HIDE DEF q, s
<1>4. Recalculated(r, s) = Recalculated(r, q)
  BY <1>1, <1>2, <1>3 DEF Recalculated
<1> QED BY <1>1, <1>4 DEF q, s

LEMMA ForgiveSimulates ==
  ASSUME TypeOK, NEW d \in Debts, ForgivenessServiceApply(d)
  PROVE  (Done \/ Failed) /\ (Forgive(d) \/ UNCHANGED vars)
<1>1. PICK amount \in PayAmounts :
        /\ amount <= debts[d].total
        /\ SaveDebtAs(d, [debts[d] EXCEPT !.total = @ - amount,
                                          !.rem = Max0(Outstanding(debts[d]) - amount)])
  BY DEF ForgivenessServiceApply
<1> DEFINE saved == [debts[d] EXCEPT !.total = @ - amount,
                                     !.rem = Max0(Outstanding(debts[d]) - amount)]
           new == [debts[d] EXCEPT !.total = @ - amount]
<1>2. debts[d] \in DebtRow /\ amount \in Nat \ {0}
  BY ParameterAssumption DEF TypeOK
<1>3. saved \in DebtRow /\ new \in DebtRow /\ Recalculated(debts[d], saved) = Recalculated(debts[d], new)
  <2>1. Max0(Outstanding(debts[d]) - amount) \in Int /\ debts[d].total - amount \in Int
        /\ debts[d].total - amount # debts[d].total
    BY <1>2 DEF DebtRow, Max0, Outstanding
  <2> QED BY <1>2, <2>1, ForgivenRow
<1> HIDE DEF saved, new
<1>4. SaveDebt(d, saved) => SaveDebt(d, new)
  BY <1>3 DEF SaveDebt
<1>5. \/ Failed /\ UNCHANGED <<debts, penalties>>
      \/ Done /\ SaveDebt(d, new)
  BY <1>1, <1>3, <1>4, SaveDebtAsCommits DEF saved
<1>6. Live(d) /\ UNCHANGED <<payments, today, interest, entered>>
  BY DEF ForgivenessServiceApply
<1> QED BY <1>1, <1>5, <1>6 DEF Forgive, vars, new

\* Saving the given fields, with the status and at least the total there was.
LEMMA SteadyCommits ==
  ASSUME TypeOK, NEW d \in Debts, NEW w \in WorldType, w.outcome = "done", w.debt = d,
         w.penalties = penalties, NEW new \in DebtRow, NEW fields \in SUBSET AllFields,
         NEW n \in DebtRow, n = Recalculated(w.row, new), n = Merged(w.row, n, fields),
         n.status = w.row.status, w.row.total <= n.total
  PROVE  Comes(Save(Saves, w, [Fetch(w) EXCEPT !.data = new], fields), w, Settled(n))
<1> DEFINE i == [Fetch(w) EXCEPT !.data = new]
<1>1. i \in InstanceType /\ i.skip = FALSE /\ i.data = new
  BY FetchFits DEF InstanceType
<1>2. Steady(Saves)
  BY SavesProper DEF TypeOK, Proper
<1> HIDE DEF i
<1>3. Keeping(w, i, fields, n)
  BY <1>1 DEF Keeping, DataOf
<1>4. Comes(Save(Saves, w, i, fields), w, Settled(n))
  BY <1>1, <1>2, <1>3 DEF Steady
<1> QED BY <1>4 DEF i

LEMMA StateSimulates ==
  ASSUME TypeOK, NEW d \in Debts, NEW state \in RowState,
         LET w == Plain(d)
         IN  Commit(Save(Saves, w, [Fetch(w) EXCEPT !.data.state = state], {"state"}).w)
  PROVE  /\ Done /\ penalties' = penalties
         /\ debts' = [debts EXCEPT ![d] = Settled([@ EXCEPT !.state = state])]
<1> DEFINE w == Plain(d)
           n == [debts[d] EXCEPT !.state = state]
           s == Save(Saves, w, [Fetch(w) EXCEPT !.data = n], {"state"})
<1>1. /\ w \in WorldType /\ w.outcome = "done" /\ w.row = debts[d] /\ w.debt = d
      /\ w.penalties = penalties /\ Begins(w)
  BY WorldOf
<1>2. debts[d] \in DebtRow
  BY DEF TypeOK
<1>3. n \in DebtRow /\ n = Recalculated(debts[d], n) /\ n = Merged(debts[d], n, {"state"})
      /\ n.status = debts[d].status /\ debts[d].total <= n.total /\ {"state"} \in SUBSET AllFields
  BY <1>2, Fields DEF DebtRow, Recalculated, Merged
<1>4. [Fetch(w) EXCEPT !.data.state = state] = [Fetch(w) EXCEPT !.data = n]
  BY <1>1 DEF Fetch, Instance
<1>5. Commit(s.w)
  BY <1>4
<1> HIDE DEF w, n
<1>6. Comes(s, w, Settled(n))
  BY <1>1, <1>3, SteadyCommits
<1> HIDE DEF s
<1>7. Done /\ penalties' = penalties /\ debts' = [debts EXCEPT ![d] = Settled(n)]
  BY <1>1, <1>5, <1>6, CommitBecomes DEF Comes
<1> QED BY <1>7 DEF n, TypeOK

LEMMA DeleteSimulates ==
  ASSUME TypeOK, NEW d \in Debts, DebtServiceDelete(d)
  PROVE  Done /\ DeleteDebt(d)
<1>1. /\ Done /\ penalties' = penalties
      /\ debts' = [debts EXCEPT ![d] = Settled([@ EXCEPT !.state = "deleted"])]
  BY StateSimulates DEF DebtServiceDelete, RowState
<1> QED BY <1>1 DEF DebtServiceDelete, DeleteDebt

LEMMA RestoreSimulates ==
  ASSUME TypeOK, NEW d \in Debts, DebtServiceRestore(d)
  PROVE  Done /\ RestoreDebt(d)
<1>1. /\ Done /\ penalties' = penalties
      /\ debts' = [debts EXCEPT ![d] = Settled([@ EXCEPT !.state = "live"])]
  BY StateSimulates DEF DebtServiceRestore, RowState
<1> QED BY <1>1 DEF DebtServiceRestore, RestoreDebt

(***************************************************************************)
(* Interest and payments.                                                  *)
(***************************************************************************)
LEMMA AccruedRow ==
  ASSUME NEW r \in DebtRow, NEW x \in Nat, NEW asOf \in Int
  PROVE  LET n == [r EXCEPT !.rem = @ + x, !.accrued = asOf]
         IN  /\ n \in DebtRow /\ n = Recalculated(r, n) /\ n = Merged(r, n, {"rem", "accrued"})
             /\ n.status = r.status /\ r.total <= n.total
             /\ Settled(n) = WithBalance([r EXCEPT !.accrued = asOf], r.rem + x)
<1> DEFINE y == r.rem + x
           n == [r EXCEPT !.rem = y, !.accrued = asOf]
           q == [r EXCEPT !.accrued = asOf]
<1>1. y \in Int
  BY DEF DebtRow
<1>2. n \in DebtRow /\ n.status = r.status /\ n.total = r.total /\ n.paid = r.paid /\ r.total \in Int
  BY <1>1 DEF DebtRow
<1>3. n = Merged(r, n, {"rem", "accrued"})
  <2> HIDE DEF y
  <2> QED BY <1>1, Fields DEF Merged, DebtRow
<1>4. [q EXCEPT !.rem = y] = n
  <2> HIDE DEF y
  <2> QED BY DEF DebtRow
<1>5. n = [r EXCEPT !.rem = @ + x, !.accrued = asOf]
  BY DEF DebtRow
<1> HIDE DEF n, y, q
<1>6. n = Recalculated(r, n) /\ r.total <= n.total
  BY <1>2 DEF Recalculated
<1>7. Settled(n) = WithBalance(q, y)
  BY <1>4 DEF WithBalance
<1> QED BY <1>2, <1>3, <1>5, <1>6, <1>7 DEF q, y

LEMMA AccrueEffect ==
  ASSUME TypeOK, NEW d \in Debts, NEW asOf \in Int, NEW s \in Accrue(Plain(d), Fetch(Plain(d)), asOf)
  PROVE  /\ s.w.row \in Accruals(debts[d], asOf) /\ s.i.data = s.w.row
         /\ Becomes(s.w, Plain(d), s.w.row)
<1> DEFINE w == Plain(d)
           r == debts[d]
           open == r.status \in OpenStatuses /\ r.rem > Eps /\ r.accrued < asOf
<1>1. /\ w \in WorldType /\ w.outcome = "done" /\ w.row = r /\ w.debt = d
      /\ w.penalties = penalties
  BY WorldOf
<1>2. r \in DebtRow
  BY DEF TypeOK
<1>3. Fetch(w).data = r /\ Fetch(w) \in InstanceType
  BY <1>1, FetchFits
<1>4. \/ s = [w |-> w, i |-> Fetch(w)]
      \/ open /\ \E x \in InterestAmounts :
           s = Save(Saves, w, [Fetch(w) EXCEPT !.data.rem = @ + x, !.data.accrued = asOf],
                    {"rem", "accrued"})
  BY <1>3 DEF Accrue
<1>5. CASE s = [w |-> w, i |-> Fetch(w)]
  <2>1. r \in Accruals(r, asOf)
    BY DEF Accruals
  <2> HIDE DEF w, r
  <2>2. s.w = w /\ s.i = Fetch(w) /\ Becomes(w, w, r)
    BY <1>1, <1>5, BecomesItself
  <2> QED BY <1>1, <1>3, <2>1, <2>2 DEF w, r
<1>6. ASSUME open, NEW x \in InterestAmounts,
             s = Save(Saves, w, [Fetch(w) EXCEPT !.data.rem = @ + x, !.data.accrued = asOf],
                      {"rem", "accrued"})
      PROVE  /\ s.w.row \in Accruals(debts[d], asOf) /\ s.i.data = s.w.row
             /\ Becomes(s.w, Plain(d), s.w.row)
  <2> DEFINE n == [r EXCEPT !.rem = @ + x, !.accrued = asOf]
  <2>1. x \in Nat
    BY ParameterAssumption
  <2>2. /\ n \in DebtRow /\ n = Recalculated(r, n) /\ n = Merged(r, n, {"rem", "accrued"})
        /\ n.status = r.status /\ r.total <= n.total
        /\ Settled(n) = WithBalance([r EXCEPT !.accrued = asOf], r.rem + x)
    BY <1>2, <2>1, AccruedRow
  <2>3. [Fetch(w) EXCEPT !.data.rem = @ + x, !.data.accrued = asOf] = [Fetch(w) EXCEPT !.data = n]
    BY <1>1 DEF Fetch, Instance
  <2>4. {"rem", "accrued"} \in SUBSET AllFields
    BY Fields
  <2>5. s = Save(Saves, w, [Fetch(w) EXCEPT !.data = n], {"rem", "accrued"})
    BY <1>6, <2>3
  <2>6. Settled(n) \in Accruals(r, asOf)
    BY <1>6, <2>2 DEF Accruals
  <2> HIDE DEF w, r, n
  <2>7. Comes(s, w, Settled(n))
    BY <1>1, <2>2, <2>4, <2>5, SteadyCommits
  <2> QED BY <2>6, <2>7 DEF Comes, Becomes, Carries, w, r
<1> QED BY <1>4, <1>5, <1>6

LEMMA AccrualSimulates ==
  ASSUME TypeOK, NEW d \in Debts, AccrualRun(d)
  PROVE  Done /\ AccrueDaily(d)
<1>1. PICK s \in Accrue(Plain(d), Fetch(Plain(d)), today) :
        s.w.row # debts[d] /\ Commit(s.w) /\ RecordInterest(d, s.w.row)
  BY DEF AccrualRun
<1>2. today \in Int
  BY DEF TypeOK
<1>3. s.w.row \in Accruals(debts[d], today) /\ Becomes(s.w, Plain(d), s.w.row)
  BY <1>2, AccrueEffect
<1>4. Plain(d).outcome = "done" /\ Plain(d).debt = d /\ Plain(d).penalties = penalties
      /\ Begins(Plain(d))
  BY WorldOf
<1>5. Done /\ penalties' = penalties /\ debts' = [debts EXCEPT ![d] = s.w.row]
  BY <1>1, <1>3, <1>4, CommitBecomes
<1>6. Live(d) /\ UNCHANGED <<payments, today, entered>>
  BY DEF AccrualRun
<1> QED BY <1>1, <1>3, <1>5, <1>6 DEF AccrueDaily

LEMMA PaidRow ==
  ASSUME NEW r \in DebtRow, NEW a \in Nat
  PROVE  LET new == [r EXCEPT !.paid = @ + a]
             n == Recalculated(r, new)
         IN  /\ new \in DebtRow /\ n \in DebtRow /\ n = Merged(r, n, {"paid", "rem"})
             /\ n.status = r.status /\ r.total <= n.total
<1> DEFINE new == [r EXCEPT !.paid = @ + a]
           n == Recalculated(r, new)
           x == Max0(Outstanding(new))
<1>1. new \in DebtRow /\ r.total \in Int /\ x \in Int
  BY DEF DebtRow, Max0, Outstanding
<1>2. /\ new.state = r.state /\ new.total = r.total /\ new.status = r.status
      /\ new.due = r.due /\ new.accrued = r.accrued /\ new.rem = r.rem
  BY DEF DebtRow
<1>3. n = new \/ n = [new EXCEPT !.rem = x]
  BY DEF Recalculated
<1> HIDE DEF new, n, x
<1>4. n \in DebtRow
  BY <1>1, <1>3 DEF DebtRow
<1>5. /\ n.state = r.state /\ n.total = r.total /\ n.status = r.status
      /\ n.due = r.due /\ n.accrued = r.accrued
  BY <1>1, <1>2, <1>3 DEF DebtRow
<1>6. n = Merged(r, n, {"paid", "rem"})
  BY <1>4, <1>5, Fields DEF Merged, DebtRow
<1> QED BY <1>1, <1>4, <1>5, <1>6 DEF new, n

\* Wherever a call has come that owes d's row r, the payment it confirms is confirmed there.
LEMMA OnConfirmSimulates ==
  ASSUME TypeOK, NEW d \in Debts, NEW p \in Payments, NEW amount \in PayAmounts,
         NEW s, Becomes(s.w, Plain(d), s.w.row), s.w.row \in DebtRow,
         OnConfirm(d, p, s, amount), UNCHANGED <<today, entered>>
  PROVE  \/ Done /\ Confirm(d, p, s.w.row, amount) /\ UNCHANGED penalties
         \/ Failed /\ UNCHANGED vars
<1> DEFINE r == s.w.row
           new == [r EXCEPT !.paid = @ + amount]
           n == Recalculated(r, new)
           t == Save(Saves, s.w, [Fetch(s.w) EXCEPT !.data.paid = @ + amount], {"paid", "rem"})
           u == IF ~PartialPayment /\ t.w.row.rem > Eps THEN Raise(t.w) ELSE t.w
<1>1. /\ Commit(Send(u, "payment"))
      /\ IF outcome' = "done"
         THEN /\ payments' = [payments EXCEPT ![p] =
                               [state |-> "live", debt |-> d, amount |-> amount]]
              /\ RecordInterest(d, r)
         ELSE UNCHANGED <<payments, interest>>
  BY DEF OnConfirm
<1>2. amount \in Nat
  BY ParameterAssumption
<1>3. Plain(d).outcome = "done" /\ Plain(d).debt = d /\ Plain(d).penalties = penalties
      /\ Begins(Plain(d))
  BY WorldOf
<1>4. s.w \in WorldType /\ s.w.outcome = "done" /\ s.w.debt = d /\ s.w.penalties = penalties
      /\ r \in DebtRow
  BY <1>3 DEF Becomes, Carries, WorldType
<1>5. /\ new \in DebtRow /\ n \in DebtRow /\ n = Merged(r, n, {"paid", "rem"})
      /\ n.status = r.status /\ r.total <= n.total
  BY <1>2, <1>4, PaidRow
<1>6. t = Save(Saves, s.w, [Fetch(s.w) EXCEPT !.data = new], {"paid", "rem"})
  <2>1. [Fetch(s.w) EXCEPT !.data.paid = @ + amount] = [Fetch(s.w) EXCEPT !.data = new]
    BY DEF Fetch, Instance
  <2> QED BY <2>1
<1>7. {"paid", "rem"} \in SUBSET AllFields
  BY Fields
<1>8. Comes(t, s.w, Settled(n))
  <2>1. n = Recalculated(s.w.row, new) /\ n = Merged(s.w.row, n, {"paid", "rem"})
        /\ n.status = s.w.row.status /\ s.w.row.total <= n.total
    BY <1>5
  <2> HIDE DEF t, new, n, r
  <2> QED BY <1>4, <1>5, <1>6, <1>7, <2>1, SteadyCommits
<1> HIDE DEF t, n, r, new
<1>9. t.w \in WorldType /\ t.w.row = Settled(n) /\ t.w.outcome = "done"
      /\ Becomes(t.w, s.w, Settled(n))
  BY <1>4, <1>8 DEF Comes, Becomes, Carries
<1>10. CASE ~PartialPayment /\ t.w.row.rem > Eps
  <2>1. Raise(t.w) \in WorldsIn(Raised)
    BY <1>9, Raises
  <2>2. u = Raise(t.w)
    BY <1>10
  <2>3. Send(u, "payment") \in WorldsIn(Raised)
    <3> HIDE DEF u
    <3> QED BY <2>1, <2>2, RaisedKind, SendKeeps DEF Notices
  <2> HIDE DEF u
  <2>4. Failed /\ UNCHANGED <<debts, penalties>>
    BY <1>1, <2>3, CommitRaised
  <2> QED BY <1>1, <2>4 DEF vars, Failed
<1>11. CASE PartialPayment \/ ~(t.w.row.rem > Eps)
  <2>1. u = t.w
    BY <1>11, ParameterAssumption
  <2> HIDE DEF u
  <2>2. Becomes(Send(u, "payment"), Plain(d), Settled(n))
    <3>1. Becomes(Send(u, "payment"), s.w, Settled(n))
      BY <1>9, <2>1, BecomesSent DEF Notices
    <3> QED BY <3>1, BecomesTwice
  <2>3. Done /\ penalties' = penalties /\ debts' = [debts EXCEPT ![d] = Settled(n)]
    BY <1>1, <1>3, <2>2, CommitBecomes
  <2>4. PartialPayment \/ Settled(n).rem <= Eps
    <3>1. Settled(n).rem \in Int
      BY <1>5, SettledLemma DEF DebtRow
    <3> QED BY <1>9, <1>11, <3>1, EpsAssumption
  <2>5. n = Recalculated(s.w.row, [s.w.row EXCEPT !.paid = @ + amount])
    BY DEF n, new, r
  <2> QED BY <1>1, <2>3, <2>4, <2>5 DEF Confirm, Done, r
<1> QED BY <1>10, <1>11

LEMMA PaymentSimulates ==
  ASSUME TypeOK, NEW d \in Debts, NEW p \in Payments, PaymentServiceCreate(d, p)
  PROVE  (Done \/ Failed) /\ (RecordPayment(d, p) \/ UNCHANGED vars)
<1>1. PICK date \in PaymentDates \cup {today}, amount \in PayAmounts :
        \E s \in Accrue(Plain(d), Fetch(Plain(d)), date) :
          amount <= s.i.data.rem /\ OnConfirm(d, p, s, amount)
  BY DEF PaymentServiceCreate
<1>2. PICK s \in Accrue(Plain(d), Fetch(Plain(d)), date) :
        amount <= s.i.data.rem /\ OnConfirm(d, p, s, amount)
  BY <1>1
<1>3. date \in Int
  BY ParameterAssumption DEF TypeOK
<1>4. s.w.row \in Accruals(debts[d], date) /\ s.i.data = s.w.row /\ Becomes(s.w, Plain(d), s.w.row)
  BY <1>3, AccrueEffect
<1>5. s.w.row \in DebtRow
  BY <1>3, <1>4, AccrualRows DEF TypeOK
<1>6. Live(d) /\ payments[p].state = "none" /\ UNCHANGED <<today, entered>>
  BY DEF PaymentServiceCreate
<1>7. \/ Done /\ Confirm(d, p, s.w.row, amount) /\ UNCHANGED penalties
      \/ Failed /\ UNCHANGED vars
  BY <1>2, <1>4, <1>5, <1>6, OnConfirmSimulates
<1> QED BY <1>2, <1>4, <1>6, <1>7 DEF RecordPayment

LEMMA UploadSimulates ==
  ASSUME TypeOK, NEW d \in Debts, NEW p \in Payments, CreateUploadedPayment(d, p)
  PROVE  (Done \/ Failed) /\ (UploadNewPayment(d, p) \/ UNCHANGED vars)
<1> DEFINE w == Plain(d)
           s == [w |-> w, i |-> Fetch(w)]
<1>1. PICK amount \in PayAmounts : OnConfirm(d, p, s, amount)
  BY DEF CreateUploadedPayment
<1>2. w \in WorldType /\ w.outcome = "done" /\ w.row = debts[d] /\ debts[d] \in DebtRow
  BY WorldOf DEF TypeOK
<1>3. Becomes(w, w, w.row)
  <2> HIDE DEF w
  <2> QED BY <1>2, BecomesItself
<1>4. s.w = w /\ s.w.row = debts[d] /\ s.w.row \in DebtRow /\ Becomes(s.w, Plain(d), s.w.row)
  <2>1. s.w = w
    OBVIOUS
  <2> HIDE DEF s
  <2> QED BY <1>2, <1>3, <2>1 DEF w
<1>5. Live(d) /\ payments[p].state = "none" /\ UNCHANGED <<today, entered>>
  BY DEF CreateUploadedPayment
<1> HIDE DEF s, w
<1>6. \/ Done /\ Confirm(d, p, s.w.row, amount) /\ UNCHANGED penalties
      \/ Failed /\ UNCHANGED vars
  BY <1>1, <1>4, <1>5, OnConfirmSimulates
<1> QED BY <1>4, <1>5, <1>6 DEF UploadNewPayment

LEMMA VoidedRow ==
  ASSUME NEW r \in DebtRow, NEW y \in Nat, NEW x \in Int
  PROVE  LET new == [r EXCEPT !.paid = y, !.rem = x]
             n == Recalculated(r, new)
         IN  /\ new \in DebtRow /\ n \in DebtRow /\ n = Merged(r, n, AllFields)
             /\ n.status = r.status /\ r.total <= n.total
<1> DEFINE new == [r EXCEPT !.paid = y, !.rem = x]
           n == Recalculated(r, new)
           z == Max0(Outstanding(new))
<1>1. new \in DebtRow /\ r.total \in Int /\ z \in Int /\ new.status = r.status /\ new.total = r.total
  <2>1. new \in DebtRow /\ r.total \in Int /\ new.status = r.status /\ new.total = r.total
    BY DEF DebtRow
  <2> HIDE DEF new
  <2> QED BY <2>1 DEF DebtRow, Max0, Outstanding
<1>2. n = new \/ n = [new EXCEPT !.rem = z]
  BY DEF Recalculated
<1> HIDE DEF new, n, z
<1>3. n \in DebtRow /\ n.status = r.status /\ n.total = r.total
  BY <1>1, <1>2 DEF DebtRow
<1>4. n = Merged(r, n, AllFields)
  BY <1>3, Fields DEF Merged, DebtRow
<1> QED BY <1>1, <1>3, <1>4 DEF new, n

LEMMA VoidSimulates ==
  ASSUME TypeOK, NEW p \in Payments, VoidPayment(p)
  PROVE  Failed /\ UNCHANGED vars
<1> DEFINE d == payments[p].debt
           w == Plain(d)
           i == [Fetch(w) EXCEPT !.data.paid = Max0(@ - payments[p].amount)]
           y == Max0(debts[d].paid - payments[p].amount)
           x == Max0(Outstanding(i.data))
           new == [debts[d] EXCEPT !.paid = y, !.rem = x]
           n == Recalculated(debts[d], new)
           s == Save(Saves, w, [Fetch(w) EXCEPT !.data = new], AllFields)
<1>1. d \in Debts /\ debts[d] \in DebtRow /\ payments[p].amount \in Nat
  BY DEF TypeOK, PaymentRow
<1>2. /\ w \in WorldType /\ w.outcome = "done" /\ w.row = debts[d] /\ w.debt = d
      /\ w.penalties = penalties
  BY <1>1, WorldOf
<1>3. i.data = [debts[d] EXCEPT !.paid = y]
  BY <1>2 DEF Fetch, Instance
<1>4. y \in Nat
  BY <1>1 DEF Max0, DebtRow
<1>5. i.data \in DebtRow
  <2> HIDE DEF y, i, d
  <2> QED BY <1>1, <1>3, <1>4 DEF DebtRow
<1>6. x \in Int
  <2> HIDE DEF i
  <2> QED BY <1>5 DEF Max0, Outstanding, DebtRow
<1>7. [i EXCEPT !.data.rem = x] = [Fetch(w) EXCEPT !.data = new]
  <2> DEFINE f == Fetch(w)
             q == [debts[d] EXCEPT !.paid = y]
  <2>1. i = [f EXCEPT !.data = q]
    BY <1>2 DEF Fetch, Instance
  <2>2. f \in InstanceType
    BY <1>2, FetchFits
  <2>3. q \in DebtRow
    BY <1>3, <1>5
  <2> HIDE DEF x, y, d
  <2>4. [q EXCEPT !.rem = x] = new
    BY <1>1 DEF DebtRow
  <2> HIDE DEF f, q, new, i
  <2>5. [i EXCEPT !.data.rem = x] = [f EXCEPT !.data = [q EXCEPT !.rem = x]]
    BY <2>1, <2>2, <2>3 DEF InstanceType
  <2> QED BY <2>4, <2>5 DEF f
<1>8. /\ new \in DebtRow /\ n \in DebtRow /\ n = Merged(debts[d], n, AllFields)
      /\ n.status = debts[d].status /\ debts[d].total <= n.total
  <2> HIDE DEF x, y, d
  <2> QED BY <1>1, <1>4, <1>6, VoidedRow
<1>9. Commit(Raise(s.w))
  <2>1. Commit(OnVoid(Save(Saves, w, [i EXCEPT !.data.rem = x], AllFields).w, TRUE))
    BY DEF VoidPayment
  <2> QED BY <1>7, <2>1 DEF OnVoid
<1>10. Comes(s, w, Settled(n))
  <2>1. n = Recalculated(w.row, new) /\ n = Merged(w.row, n, AllFields)
        /\ n.status = w.row.status /\ w.row.total <= n.total
    BY <1>2, <1>8
  <2> HIDE DEF w, new, n, d
  <2> QED BY <1>1, <1>2, <1>8, <2>1, WholeRow, SteadyCommits
<1>11. s.w \in WorldType /\ s.w.outcome = "done"
  <2> HIDE DEF s, w, n
  <2> QED BY <1>2, <1>10 DEF Comes, Becomes, Carries
<1> HIDE DEF s
<1>12. Failed /\ UNCHANGED <<debts, penalties>>
  BY <1>9, <1>11, Raises, CommitRaised
<1>13. payments' = payments
  <2>1. payments' = [payments EXCEPT ![p].state = @]
    BY <1>12 DEF VoidPayment, Failed
  <2> QED BY <2>1 DEF TypeOK, PaymentRow
<1> QED BY <1>12, <1>13 DEF VoidPayment, vars

(***************************************************************************)
(* PenaltyTransactionService.                                              *)
(***************************************************************************)
\* Every penalty is a penalty of a debt there is.
Held == \A p \in Penalties : penalties[p].state # "none" => Exists(penalties[p].debt)

LEMMA HeldRow ==
  ASSUME Inv, Held, NEW p \in Penalties, penalties[p].state # "none"
  PROVE  penalties[p].debt \in Debts /\ debts[penalties[p].debt] \in DebtRow
         /\ Sound(debts[penalties[p].debt])
BY DEF Inv, Held, TypeOK, PenaltyRow, SettledIsPaid, Sound

\* Saving a penalty with an instance that fits the row resets the row.
LEMMA PenaltySaved ==
  ASSUME TypeOK, NEW w \in WorldType, NEW i \in InstanceType, Fits(i, w.row),
         NEW p \in Penalties, NEW new \in PenaltyRow
  PROVE  Comes(SavePenalty(Saves, w, i, p, new), [w EXCEPT !.penalties[p] = new], Reset(w.row))
<1> DEFINE v == [w EXCEPT !.penalties[p] = new]
<1>1. v \in WorldType /\ v.row = w.row
  BY PenaltyWorld
<1>2. SavePenalty(Saves, w, i, p, new) = ResetDebt(Saves, v, i)
  BY DEF SavePenalty
<1>3. Steady(Saves)
  BY SavesProper DEF TypeOK, Proper
<1> HIDE DEF v
<1>4. Comes(ResetDebt(Saves, v, i), v, Reset(v.row))
  BY <1>1, <1>3, ResetSave
<1> QED BY <1>1, <1>2, <1>4 DEF v

\* Committing a world with the penalty and the row.
LEMMA PenaltyCommits ==
  ASSUME TypeOK, NEW w \in WorldType, Begins(w), w.penalties = penalties, NEW p \in Penalties,
         NEW new \in PenaltyRow, NEW row, NEW u, Becomes(u, [w EXCEPT !.penalties[p] = new], row),
         Commit(u)
  PROVE  /\ Done /\ debts' = [debts EXCEPT ![w.debt] = row]
         /\ penalties' = [penalties EXCEPT ![p] = new]
<1> DEFINE v == [w EXCEPT !.penalties[p] = new]
<1>1. /\ v.outcome = w.outcome /\ v.row = w.row /\ v.sent = w.sent /\ v.debt = w.debt
      /\ v.penalties = [penalties EXCEPT ![p] = new]
  BY DEF WorldType
<1>2. Becomes(u, v, row)
  OBVIOUS
<1> HIDE DEF v
<1>3. Done /\ penalties' = v.penalties /\ debts' = [debts EXCEPT ![v.debt] = row]
  <2>1. Begins(v)
    BY <1>1 DEF Begins, Told
  <2> QED BY <1>1, <1>2, <2>1, CommitBecomes
<1> QED BY <1>1, <1>3

LEMMA ServicePenaltyCommits ==
  ASSUME TypeOK, NEW d \in Debts, Sound(debts[d]), NEW p \in Penalties, NEW penalty \in PenaltyRow,
         ServicePenalty(d, p, penalty)
  PROVE  /\ Done /\ debts' = [debts EXCEPT ![d] = Charged(debts[d], penalty.amount)]
         /\ penalties' = [penalties EXCEPT ![p] = penalty]
<1> DEFINE w == Plain(d)
           s == InsertPenalty(Saves, w, w.row, Fetch(w), Fetch(w), p, penalty)
           t == Save(Saves, s.w, [s.i EXCEPT !.data.rem = @ + penalty.amount], {"rem"})
           v == [w EXCEPT !.penalties[p] = penalty]
<1>1. /\ w \in WorldType /\ w.outcome = "done" /\ w.row = debts[d] /\ w.debt = d
      /\ w.penalties = penalties /\ Begins(w)
  BY WorldOf
<1>2. Commit(t.w)
  BY DEF ServicePenalty, ChargePenalty, AddToBalance
<1>3. Steady(Saves)
  BY SavesProper DEF TypeOK, Proper
<1>4. debts[d] \in DebtRow /\ penalty.amount \in Nat
  BY DEF TypeOK, PenaltyRow
<1> HIDE DEF w
<1>5. Comes(s, v, Reset(w.row))
  BY <1>1, <1>3, FetchFits, InsertEffect
<1>6. v \in WorldType
  BY <1>1, PenaltyWorld
<1> HIDE DEF s, v
<1>7. Comes(t, v, Charged(debts[d], penalty.amount))
  BY <1>1, <1>3, <1>4, <1>5, <1>6, ChargeEffect
<1> HIDE DEF t
<1>8. Becomes(t.w, [w EXCEPT !.penalties[p] = penalty], Charged(debts[d], penalty.amount))
  BY <1>7 DEF Comes, v
<1> QED BY <1>1, <1>2, <1>8, PenaltyCommits

LEMMA NewPenaltyRow ==
  ASSUME TypeOK, NEW d \in Debts, NEW amount \in PenaltyAmounts, NEW date \in PenaltyDates \cup {today},
         NEW auto \in BOOLEAN
  PROVE  NewPenalty(d, amount, date, auto) \in PenaltyRow
         /\ NewPenalty(d, amount, date, auto).amount = amount
BY Inputs DEF TypeOK, NewPenalty, PenaltyRow, RowState

LEMMA CreatePenaltySimulates ==
  ASSUME Inv, NEW d \in Debts, PenaltyServiceCreate(d)
  PROVE  Done /\ CreatePenalty(d)
<1>1. PICK p \in FreePenalties, amount \in PenaltyAmounts, date \in PenaltyDates \cup {today},
            auto \in BOOLEAN :
        ServicePenalty(d, p, NewPenalty(d, amount, date, auto))
  BY DEF PenaltyServiceCreate
<1>2. p \in Penalties /\ Sound(debts[d]) /\ TypeOK
  BY DEF FreePenalties, PenaltyServiceCreate, Live, Exists, Inv, SettledIsPaid, Sound
<1>3. NewPenalty(d, amount, date, auto) \in PenaltyRow
      /\ NewPenalty(d, amount, date, auto).amount = amount
  BY <1>2, NewPenaltyRow
<1> DEFINE penalty == NewPenalty(d, amount, date, auto)
<1>4. penalty \in PenaltyRow /\ penalty.amount = amount /\ ServicePenalty(d, p, penalty)
  BY <1>1, <1>3
<1> HIDE DEF penalty
<1>5. /\ Done /\ debts' = [debts EXCEPT ![d] = Charged(debts[d], amount)]
      /\ penalties' = [penalties EXCEPT ![p] = penalty]
  BY <1>2, <1>4, ServicePenaltyCommits
<1> QED BY <1>1, <1>5 DEF penalty, PenaltyServiceCreate, CreatePenalty

LEMMA Lowered ==
  ASSUME TypeOK, NEW d \in Debts, NEW x \in Int
  PROVE  Comes(LowerBalance(Plain(d), Fetch(Plain(d)), x), Plain(d),
               WithBalance(debts[d], Max0(debts[d].rem - x)))
<1> DEFINE w == Plain(d)
           i == Fetch(w)
           y == Max0(debts[d].rem - x)
<1>1. w \in WorldType /\ w.row = debts[d]
  BY WorldOf
<1>2. i \in InstanceType /\ i.data = debts[d] /\ Fits(i, w.row)
  BY <1>1, FetchFits
<1>3. y \in Int
  BY DEF TypeOK, DebtRow, Max0
<1>4. LowerBalance(w, i, x) = Save(Saves, w, [i EXCEPT !.data.rem = y], {"rem"})
  <2>1. [i EXCEPT !.data.rem = Max0(@ - x)] = [i EXCEPT !.data.rem = y]
    BY <1>2 DEF InstanceType, DebtRow
  <2> QED BY <2>1 DEF LowerBalance
<1>5. Steady(Saves)
  BY SavesProper DEF TypeOK, Proper
<1> HIDE DEF w, i, y
<1>6. Comes(Save(Saves, w, [i EXCEPT !.data.rem = y], {"rem"}), w, WithBalance(w.row, y))
  BY <1>1, <1>2, <1>3, <1>5, BalanceSave DEF Fits
<1> QED BY <1>1, <1>4, <1>6 DEF w, i, y

LEMMA ClampedReset ==
  ASSUME NEW r \in DebtRow, Sound(r)
  PROVE  Reset(WithBalance(r, Max0(r.rem))) = Reset(r)
<1> DEFINE x == Max0(r.rem)
           q == [r EXCEPT !.rem = x]
<1>1. x \in Int /\ (r.rem > Eps => x = r.rem) /\ r.rem \in Int
  BY EpsAssumption DEF DebtRow, Max0
<1> HIDE DEF x
<1>2. q \in DebtRow /\ q.rem = x /\ q.status = r.status /\ Agree(r, q)
  BY <1>1 DEF DebtRow, Agree
<1>3. ~Settles(q)
  BY <1>1, <1>2, EpsAssumption DEF Settles, Sound
<1>4. WithBalance(r, x) = q
  BY <1>3 DEF WithBalance, Settled
<1> HIDE DEF q
<1>5. Outstanding(r) = Outstanding(q) /\ Outstanding(r) \in Int
  BY <1>2 DEF Agree, Outstanding, DebtRow
<1>6. WithBalance(r, Outstanding(r)) = WithBalance(q, Outstanding(r))
  BY <1>2, <1>5, BalanceRow
<1> QED BY <1>4, <1>5, <1>6 DEF x, Reset

LEMMA UpdatePenaltySimulates ==
  ASSUME Inv, Held, NEW p \in Penalties, PenaltyServiceUpdate(p)
  PROVE  Done /\ UpdatePenalty(p)
<1> DEFINE d == penalties[p].debt
           w == Plain(d)
           i == Fetch(w)
           was == penalties[p].amount
<1>1. PICK amount \in PenaltyAmounts \cup {was}, date \in PenaltyDates \cup {penalties[p].date},
           auto \in BOOLEAN, edited \in BOOLEAN :
        LET s == IF edited THEN LowerBalance(w, i, was - amount) ELSE [w |-> w, i |-> i]
        IN  /\ ~edited => amount = was
            /\ Commit(SavePenalty(Saves, s.w, s.i, p, [penalties[p] EXCEPT !.amount = amount,
                                                       !.date = date, !.auto = auto]).w)
  BY DEF PenaltyServiceUpdate
<1> DEFINE new == [penalties[p] EXCEPT !.amount = amount, !.date = date, !.auto = auto]
           s == IF edited THEN LowerBalance(w, i, was - amount) ELSE [w |-> w, i |-> i]
           x == Max0(debts[d].rem - was + amount)
           q == IF edited THEN WithBalance(debts[d], x) ELSE debts[d]
           t == SavePenalty(Saves, s.w, s.i, p, new)
<1>2. penalties[p].state = "live" /\ TypeOK
  BY DEF PenaltyServiceUpdate, Inv
<1>3. d \in Debts /\ debts[d] \in DebtRow /\ Sound(debts[d])
  BY <1>2, HeldRow
<1>4. /\ w \in WorldType /\ w.outcome = "done" /\ w.row = debts[d] /\ w.debt = d
      /\ w.penalties = penalties /\ Begins(w)
  BY <1>2, <1>3, WorldOf
<1>5. was \in Int /\ amount \in Int /\ amount \in Nat /\ date \in Int /\ was - amount \in Int
      /\ new \in PenaltyRow
  <2>1. was \in Nat /\ penalties[p].date \in Int /\ penalties[p] \in PenaltyRow
    BY <1>2 DEF TypeOK, PenaltyRow
  <2>2. amount \in Nat /\ date \in Int
    BY <2>1, Inputs
  <2> HIDE DEF was
  <2>3. was \in Int /\ amount \in Int /\ was - amount \in Int
    BY <2>1, <2>2
  <2>4. new \in PenaltyRow
    <3> DEFINE f == penalties[p]
    <3>1. f \in PenaltyRow
      BY <2>1
    <3> HIDE DEF f
    <3>2. [f EXCEPT !.amount = amount, !.date = date, !.auto = auto] \in PenaltyRow
      BY <2>2, <3>1 DEF PenaltyRow
    <3> QED BY <3>2 DEF f
  <2> QED BY <2>2, <2>3, <2>4
<1>6. Commit(t.w) /\ (~edited => amount = was)
  BY <1>1
<1>7. x = Max0(debts[d].rem - (was - amount))
  <2>1. debts[d].rem \in Int
    BY <1>3 DEF DebtRow
  <2> HIDE DEF was, d
  <2> QED BY <1>5, <2>1
<1> HIDE DEF x, new, was, i
<1>8. /\ s.w \in WorldType /\ Becomes(s.w, w, q) /\ s.w.row = q
      /\ s.i \in InstanceType /\ Fits(s.i, s.w.row)
  <2> HIDE DEF w, d
  <2>1. ASSUME edited PROVE Comes(s, w, q)
    <3>1. Comes(LowerBalance(w, i, was - amount), w, WithBalance(debts[d], x))
      BY <1>2, <1>3, <1>5, <1>7, Lowered DEF w, i
    <3> QED BY <2>1, <3>1
  <2>2. ASSUME ~edited PROVE Comes(s, w, q)
    <3>1. s.w = w /\ s.i = i /\ q = w.row
      BY <1>4, <2>2
    <3> HIDE DEF s, q
    <3>2. Becomes(w, w, q) /\ i \in InstanceType /\ i.data = q /\ i.skip = FALSE
      BY <1>4, <3>1, FetchFits, BecomesItself DEF i
    <3> QED BY <3>1, <3>2 DEF Comes
  <2> HIDE DEF s, q
  <2>3. Comes(s, w, q)
    BY <2>1, <2>2
  <2> QED BY <2>3, ComesFits DEF Comes
<1> HIDE DEF s
<1>9. Becomes(t.w, [w EXCEPT !.penalties[p] = new], Reset(q))
  <2>1. Comes(t, [s.w EXCEPT !.penalties[p] = new], Reset(s.w.row))
    BY <1>2, <1>5, <1>8, PenaltySaved
  <2> HIDE DEF t, q, w, d
  <2>2. Becomes([s.w EXCEPT !.penalties[p] = new], [w EXCEPT !.penalties[p] = new], q)
    BY <1>4, <1>5, <1>8, BecomesPenalty
  <2> QED BY <1>8, <2>1, <2>2, BecomesTwice DEF Comes
<1> HIDE DEF t, q
<1>10. /\ Done /\ debts' = [debts EXCEPT ![w.debt] = Reset(q)]
       /\ penalties' = [penalties EXCEPT ![p] = new]
  <2> HIDE DEF w, d
  <2> QED BY <1>2, <1>4, <1>5, <1>6, <1>9, PenaltyCommits
<1>11. /\ Done /\ debts' = [debts EXCEPT ![d] = Reset(q)]
       /\ penalties' = [penalties EXCEPT ![p] = new]
  BY <1>4, <1>10
<1>12. Reset(q) = IF amount = was THEN Reset(debts[d]) ELSE Reset(WithBalance(debts[d], x))
  <2>1. CASE ~edited
    BY <1>6, <2>1 DEF q
  <2>2. CASE edited /\ amount # was
    BY <2>2 DEF q
  <2>3. CASE edited /\ amount = was
    <3>1. x = Max0(debts[d].rem)
      BY <1>3, <1>5, <2>3 DEF x, DebtRow
    <3>2. Reset(WithBalance(debts[d], x)) = Reset(debts[d])
      BY <1>3, <3>1, ClampedReset
    <3> QED BY <2>3, <3>2 DEF q
  <2> QED BY <2>1, <2>2, <2>3
<1>13. penalties' = [penalties EXCEPT ![p].amount = amount, ![p].date = date, ![p].auto = auto]
  BY <1>2, <1>11 DEF new, TypeOK
<1>14. debts' = [debts EXCEPT ![penalties[p].debt] =
            IF amount = penalties[p].amount
            THEN Reset(@)
            ELSE Reset(WithBalance(@, Max0(@.rem - penalties[p].amount + amount)))]
  BY <1>11, <1>12 DEF was, x
<1>15. UNCHANGED <<payments, today, interest, entered>>
  BY DEF PenaltyServiceUpdate
<1> QED BY <1>1, <1>2, <1>11, <1>13, <1>14, <1>15 DEF UpdatePenalty, was

LEMMA DeletePenaltySimulates ==
  ASSUME Inv, Held, NEW p \in Penalties, PenaltyServiceDelete(p)
  PROVE  Done /\ DeletePenalty(p)
<1> DEFINE d == penalties[p].debt
           w == Plain(d)
           s == LowerBalance(w, Fetch(w), penalties[p].amount)
           new == [penalties[p] EXCEPT !.state = "deleted"]
           t == SavePenalty(Saves, s.w, s.i, p, new)
           q == WithBalance(debts[d], Max0(debts[d].rem - penalties[p].amount))
<1>1. penalties[p].state = "live" /\ TypeOK /\ Commit(t.w)
      /\ UNCHANGED <<payments, today, interest, entered>>
  BY DEF PenaltyServiceDelete, Inv
<1>2. d \in Debts
  BY <1>1, HeldRow
<1>3. w \in WorldType /\ w.debt = d /\ w.penalties = penalties /\ Begins(w)
  BY <1>1, <1>2, WorldOf
<1>4. penalties[p].amount \in Int /\ new \in PenaltyRow
  BY <1>1 DEF TypeOK, PenaltyRow, RowState
<1>5. Comes(s, w, q)
  BY <1>1, <1>2, <1>4, Lowered
<1> HIDE DEF w, s, new, q
<1>6. s.w \in WorldType /\ s.w.row = q /\ s.i \in InstanceType /\ Fits(s.i, s.w.row)
  BY <1>5, ComesFits
<1>7. Becomes(t.w, [w EXCEPT !.penalties[p] = new], Reset(q))
  <2>1. Comes(t, [s.w EXCEPT !.penalties[p] = new], Reset(s.w.row))
    BY <1>1, <1>4, <1>6, PenaltySaved
  <2> HIDE DEF t
  <2>2. Becomes([s.w EXCEPT !.penalties[p] = new], [w EXCEPT !.penalties[p] = new], q)
    BY <1>3, <1>4, <1>5, <1>6, BecomesPenalty DEF Comes
  <2> QED BY <1>6, <2>1, <2>2, BecomesTwice DEF Comes
<1> HIDE DEF t
<1>8. /\ Done /\ debts' = [debts EXCEPT ![w.debt] = Reset(q)]
      /\ penalties' = [penalties EXCEPT ![p] = new]
  BY <1>1, <1>3, <1>4, <1>7, PenaltyCommits
<1>9. penalties' = [penalties EXCEPT ![p].state = "deleted"]
  BY <1>1, <1>8 DEF new, TypeOK
<1> QED BY <1>1, <1>3, <1>8, <1>9 DEF DeletePenalty, q

LEMMA RestorePenaltySimulates ==
  ASSUME Inv, Held, NEW p \in Penalties, PenaltyServiceRestore(p)
  PROVE  Done /\ RestorePenalty(p)
<1> DEFINE d == penalties[p].debt
           w == Plain(d)
           a == penalties[p].amount
           new == [penalties[p] EXCEPT !.state = "live"]
           s == SavePenalty(Saves, w, Fetch(w), p, new)
           t == Save(Saves, s.w, [s.i EXCEPT !.data.rem = @ + a], {"rem"})
           v == [w EXCEPT !.penalties[p] = new]
<1>1. penalties[p].state = "deleted" /\ TypeOK /\ UNCHANGED <<payments, today, interest, entered>>
  BY DEF PenaltyServiceRestore, Inv
<1>2. Commit(t.w)
  BY DEF PenaltyServiceRestore, AddToBalance
<1>3. d \in Debts /\ debts[d] \in DebtRow
  BY <1>1, HeldRow
<1>4. /\ w \in WorldType /\ w.outcome = "done" /\ w.row = debts[d] /\ w.debt = d
      /\ w.penalties = penalties /\ Begins(w)
  BY <1>1, <1>3, WorldOf
<1>5. a \in Nat /\ new \in PenaltyRow
  BY <1>1 DEF TypeOK, PenaltyRow, RowState
<1>6. Steady(Saves)
  BY <1>1, SavesProper DEF TypeOK, Proper
<1> HIDE DEF w, new
<1>7. Comes(s, v, Reset(w.row))
  BY <1>1, <1>4, <1>5, FetchFits, PenaltySaved
<1>8. v \in WorldType
  BY <1>4, <1>5, PenaltyWorld
<1> HIDE DEF s, v, a, d
<1>9. Comes(t, v, Charged(debts[d], a))
  <2>1. Comes(s, v, Reset(debts[d]))
    BY <1>4, <1>7
  <2> QED BY <1>3, <1>5, <1>6, <1>8, <2>1, ChargeEffect
<1> HIDE DEF t
<1> DEFINE row == Charged(debts[d], a)
<1>10. Becomes(t.w, [w EXCEPT !.penalties[p] = new], row)
  BY <1>9 DEF Comes, v
<1> HIDE DEF row
<1>11. /\ Done /\ debts' = [debts EXCEPT ![w.debt] = row]
       /\ penalties' = [penalties EXCEPT ![p] = new]
  BY <1>1, <1>2, <1>4, <1>5, <1>10, PenaltyCommits
<1>12. penalties' = [penalties EXCEPT ![p].state = "live"]
  BY <1>1, <1>11 DEF new, TypeOK
<1> QED BY <1>1, <1>4, <1>11, <1>12 DEF RestorePenalty, row, a, d

LEMMA PurgePenaltySimulates ==
  ASSUME Inv, Held, NEW p \in Penalties, PenaltyServicePermanentDelete(p)
  PROVE  Done /\ PurgePenalty(p)
<1> DEFINE d == penalties[p].debt
           w == Plain(d)
           t == LowerBalance(w, Fetch(w), penalties[p].amount)
           s == IF penalties[p].state = "live" THEN t.w ELSE w
           row == WithBalance(debts[d], Max0(debts[d].rem - penalties[p].amount))
           q == IF penalties[p].state = "live" THEN row ELSE debts[d]
<1>1. penalties[p].state # "none" /\ TypeOK /\ UNCHANGED <<payments, today, interest, entered>>
      /\ Commit([s EXCEPT !.penalties[p] = NoPenalty])
  BY DEF PenaltyServicePermanentDelete, Inv
<1>2. d \in Debts
  BY <1>1, HeldRow
<1>3. /\ w \in WorldType /\ w.outcome = "done" /\ w.row = debts[d] /\ w.debt = d
      /\ w.penalties = penalties /\ Begins(w)
  BY <1>1, <1>2, WorldOf
<1>4. penalties[p].amount \in Int /\ NoPenalty \in PenaltyRow
  BY <1>1, Defaults DEF TypeOK, PenaltyRow
<1>5. Comes(t, w, row)
  BY <1>1, <1>2, <1>4, Lowered
<1>6. Becomes(w, w, debts[d])
  BY <1>3, BecomesItself
<1> HIDE DEF w, t, row
<1>7. Becomes(s, w, q)
  BY <1>5, <1>6 DEF Comes
<1> HIDE DEF s
<1>8. /\ s \in WorldType /\ s.outcome = "done" /\ s.debt = d /\ s.penalties = penalties /\ s.row = q
  BY <1>3, <1>7 DEF Becomes, Carries
<1> DEFINE u == [s EXCEPT !.penalties[p] = NoPenalty]
<1>9. Becomes(u, [w EXCEPT !.penalties[p] = NoPenalty], q)
  <2> HIDE DEF q, d
  <2> QED BY <1>3, <1>4, <1>7, <1>8, BecomesPenalty
<1>10. Commit(u)
  BY <1>1
<1>11. /\ Done /\ debts' = [debts EXCEPT ![d] = q]
       /\ penalties' = [penalties EXCEPT ![p] = NoPenalty]
  <2> HIDE DEF q, u, d
  <2> QED BY <1>1, <1>3, <1>4, <1>9, <1>10, PenaltyCommits
<1>12. CASE penalties[p].state = "live"
  <2>1. debts' = [debts EXCEPT ![d] = row]
    BY <1>11, <1>12
  <2> QED BY <1>1, <1>11, <1>12, <2>1 DEF PurgePenalty, row
<1>13. CASE penalties[p].state # "live"
  <2>1. debts' = debts
    BY <1>1, <1>2, <1>11, <1>13 DEF TypeOK
  <2> QED BY <1>1, <1>11, <1>13, <2>1 DEF PurgePenalty
<1> QED BY <1>12, <1>13

(***************************************************************************)
(* Jobs.                                                                   *)
(***************************************************************************)
LEMMA PenaltyTaskSimulates ==
  ASSUME Inv, NEW d \in Debts, PenaltyTask(d)
  PROVE  Done /\ (ApplyAutoPenalties(d) \/ RunAutoPenalties(d))
<1>1. PICK p \in FreePenalties, amount \in PenaltyAmounts :
        ServicePenalty(d, p, NewPenalty(d, amount, today, TRUE))
  BY DEF PenaltyTask
<1>2. p \in Penalties /\ Sound(debts[d]) /\ TypeOK
  BY DEF FreePenalties, PenaltyTask, PenaltyCandidate, Live, Exists, Inv, SettledIsPaid, Sound
<1> DEFINE penalty == NewPenalty(d, amount, today, TRUE)
<1>3. penalty \in PenaltyRow /\ penalty.amount = amount /\ ServicePenalty(d, p, penalty)
  BY <1>1, <1>2, NewPenaltyRow
<1> HIDE DEF penalty
<1>4. /\ Done /\ debts' = [debts EXCEPT ![d] = Charged(debts[d], amount)]
      /\ penalties' = [penalties EXCEPT ![p] = penalty]
  BY <1>2, <1>3, ServicePenaltyCommits
<1>5. ChargeAutoPenalty(d)
  BY <1>1, <1>4 DEF PenaltyTask, ChargeAutoPenalty, penalty
<1> QED BY <1>4, <1>5 DEF PenaltyTask, ApplyAutoPenalties, RunAutoPenalties

\* A debt just billed for being overdue is not billed again.
LEMMA OverdueOnce ==
  ASSUME TypeOK, NEW u, NEW w \in WorldType, Overdue(u, w)
  PROVE  ~BillsPenalty(u, w.row)
<1>1. CASE ~BillsPenalty(w, w.row) /\ Becomes(u, w, w.row)
  BY <1>1 DEF Becomes, Carries, BillsPenalty
<1>2. CASE BillsPenalty(w, w.row) /\ Billed(u, w)
  <2>1. /\ w.free \in Penalties
        /\ u.debt = w.debt /\ u.penalties[w.free] = NewPenalty(w.debt, w.amount, today, TRUE)
    BY <1>2 DEF Billed, Becomes, Carries, Penalised, WorldType
  <2>2. today >= w.row.due
    <3>1. today \in Nat /\ w.row.due \in Int /\ today - w.row.due > Grace /\ Grace \in Nat
      BY <1>2, ParameterAssumption DEF BillsPenalty, PastGrace, TypeOK, WorldType, DebtRow
    <3> QED BY <3>1
  <2> QED BY <2>1, <2>2 DEF BillsPenalty, NewPenalty
<1> QED BY <1>1, <1>2 DEF Overdue

LEMMA OverdueSent ==
  ASSUME NEW u, NEW w, Overdue(u, w), NEW n \in Notices, n # "paid"
  PROVE  Overdue(Send(u, n), w)
BY BecomesSent DEF Overdue, Billed

LEMMA OverdueSimulates ==
  ASSUME TypeOK, NEW d \in Debts, OverdueTask(d)
  PROVE  (Done \/ Failed) /\ (UpdateOverdueStatuses(d) \/ UNCHANGED vars)
<1>1. PICK w \in Worlds(d) : Commit(OnOverdue(Saves, w))
  BY DEF OverdueTask
<1> DEFINE r == debts[d]
           n == [r EXCEPT !.status = "overdue"]
           v == CheckAllowed(w, "overdue")
           i == [Fetch(w) EXCEPT !.data.status = "overdue"]
           s == SaveOver(Saves, v, w.row, i, AllFields)
           b == IF BillsPenalty(s.w, s.i.data) THEN BillPenalty(Saves, s.w, s.i) ELSE s.w
<1>2. /\ w \in WorldType /\ w.outcome = "done" /\ w.row = r /\ w.debt = d
      /\ w.penalties = penalties /\ ~Told(w)
      /\ w.free # "none" => w.free \in FreePenalties /\ w.amount \in PenaltyAmounts
  BY WorldOf
<1>3. Commit(Send(b, "overdue"))
  BY <1>1 DEF OnOverdue, OnOverdueOver, SaveStatusOver
<1>4. Live(d) /\ r.status = "active" /\ r.due < today /\ r.rem > Eps /\ today \in Nat
      /\ r \in DebtRow /\ UNCHANGED <<payments, today, interest, entered>>
  BY DEF OverdueTask, TypeOK
<1>5. n \in DebtRow /\ n.status = "overdue" /\ n.rem = r.rem /\ n = Recalculated(r, n)
      /\ n = Merged(r, n, AllFields)
  <2>1. n \in DebtRow /\ n.status = "overdue" /\ n.rem = r.rem
        /\ n.total = r.total /\ n.paid = r.paid
    BY <1>4 DEF DebtRow, Statuses
  <2> HIDE DEF n, r
  <2> QED BY <2>1, Fields DEF Recalculated, Merged, DebtRow
<1>6. ~Settles(n)
  <2>1. n.rem > Eps /\ n.rem \in Int
    BY <1>4, <1>5 DEF DebtRow
  <2> HIDE DEF n
  <2> QED BY <2>1, EpsAssumption DEF Settles
<1>7. i \in InstanceType /\ i.skip = FALSE /\ i.data = n
  <2>1. Fetch(w) \in InstanceType /\ Fetch(w).data = r /\ Fetch(w).skip = FALSE
    BY <1>2, FetchFits
  <2> HIDE DEF r
  <2> QED BY <1>5, <2>1 DEF InstanceType
<1>8. s.i \in InstanceType /\ (v \in WorldsIn(Raised) => s.w \in WorldsIn(Raised))
  <2>1. v \in WorldType
    BY <1>2, AnyKind, CheckKeeps
  <2>2. Keeps(Saves, Anything) /\ Keeps(Saves, Raised)
    BY <1>4, SavesKeep, AnyKind, RaisedKind
  <2>3. w.row \in DebtRow
    BY <1>2 DEF WorldType
  <2> HIDE DEF v, i
  <2>4. s.i \in InstanceType
    BY <1>7, <2>1, <2>2, <2>3, AnyKind, WholeRow, SaveKeeps
  <2>5. v \in WorldsIn(Raised) => s.w \in WorldsIn(Raised)
    BY <1>7, <2>2, <2>3, RaisedKind, WholeRow, SaveKeeps
  <2> QED BY <2>4, <2>5
<1>9. Saves = Nested(Deep) /\ Proper(Deep) /\ Keeps(Saves, Raised)
  BY <1>4, SavesProper DEF Proper
<1> DEFINE x == [w EXCEPT !.row = n]
<1>10. /\ x \in WorldType /\ x.row = n /\ x.outcome = "done" /\ x.debt = d /\ ~Told(x)
       /\ x.penalties = penalties /\ x.free = w.free /\ x.amount = w.amount
  <2> HIDE DEF n
  <2> QED BY <1>2, <1>5 DEF WorldType, Told
<1>11. \/ s.w \in WorldsIn(Raised)
       \/ "overdue" \in AllowedStatuses /\ Overdue(s.w, x) /\ s.i.data = n
  <2>1. CASE "overdue" \notin AllowedStatuses
    BY <1>2, <1>8, <2>1, CheckRaises
  <2>2. CASE "overdue" \in AllowedStatuses
    <3>1. v = w
      BY <2>2 DEF CheckAllowed
    <3>2. s = Save(Saves, w, i, AllFields)
      BY <3>1 DEF Save
    <3>3. n = DataOf(w.row, i) /\ n = Merged(w.row, n, AllFields)
      BY <1>2, <1>5, <1>7 DEF DataOf
    <3> HIDE DEF n, i, s, v, r
    <3>4. Landed(s.w, [w EXCEPT !.row = n], w.row.status) /\ s.i.data = n
      BY <1>2, <1>4, <1>5, <1>6, <1>7, <1>9, <3>2, <3>3, WholeRow, FullSave
    <3>5. Landed(s.w, x, "active")
      BY <1>2, <1>4, <3>4
    <3>6. x.row.status = "overdue"
      BY <1>5, <1>10
    <3> HIDE DEF x
    <3> QED BY <2>2, <3>4, <3>5, <3>6 DEF Landed
  <2> QED BY <2>1, <2>2
<1> HIDE DEF s, v, i
<1>12. CASE s.w \in WorldsIn(Raised)
  <2>1. BillPenalty(Saves, s.w, s.i) \in WorldsIn(Raised)
    BY <1>4, <1>8, <1>9, <1>12, RaisedKind, BillKeeps
  <2>2. b \in WorldsIn(Raised)
    BY <1>12, <2>1
  <2> HIDE DEF b
  <2>3. Send(b, "overdue") \in WorldsIn(Raised)
    BY <2>2, RaisedKind, SendKeeps DEF Notices
  <2>4. Failed /\ UNCHANGED <<debts, penalties>>
    BY <1>3, <2>3, CommitRaised
  <2> QED BY <1>4, <2>4 DEF vars
<1>13. CASE "overdue" \in AllowedStatuses /\ Overdue(s.w, x) /\ s.i.data = n
  <2> HIDE DEF x, n
  <2>1. ~BillsPenalty(s.w, s.i.data)
    BY <1>10, <1>13, OverdueOnce
  <2>2. b = s.w
    BY <2>1
  <2> HIDE DEF b
  <2>3. Overdue(Send(b, "overdue"), x)
    BY <1>13, <2>2, OverdueSent DEF Notices
  <2>4. Done /\ EnterOverdue(d, x.row)
    <3>1. x.row.status # "paid"
      BY <1>5, <1>10
    <3> QED BY <1>2, <1>3, <1>10, <1>13, <2>3, <3>1, OverdueCommits
  <2> QED BY <1>4, <1>10, <2>4 DEF UpdateOverdueStatuses, n, r
<1> QED BY <1>11, <1>12, <1>13

LEMMA CorrectorSimulates ==
  ASSUME TypeOK, NEW d \in Debts, CorrectorTask(d)
  PROVE  (Done \/ Failed) /\ (CorrectMisoverdue(d) \/ UNCHANGED vars)
<1> DEFINE w == Plain(d)
           status == IF debts[d].rem <= Eps THEN "paid" ELSE "active"
           new == [debts[d] EXCEPT !.status = status]
<1>1. Commit(Save(Saves, w, [Fetch(w) EXCEPT !.data.status = status], {"status"}).w)
  BY DEF CorrectorTask
<1>2. [Fetch(w) EXCEPT !.data.status = status] = [Fetch(w) EXCEPT !.data = new]
  <2>1. w.row = debts[d]
    BY WorldOf
  <2> HIDE DEF w, status
  <2> QED BY <2>1 DEF Fetch, Instance
<1>3. new \in DebtRow /\ Recalculated(debts[d], new) = new
      /\ Merged(debts[d], new, {"status"}) = new
  <2>1. debts[d] \in DebtRow /\ status \in Statuses
    BY DEF TypeOK, Statuses
  <2> HIDE DEF status
  <2> QED BY <2>1, Fields DEF Recalculated, Merged, DebtRow
<1>4. \/ Failed /\ UNCHANGED <<debts, penalties>>
      \/ Done /\ SaveDebt(d, new)
  <2>1. Commit(Save(Saves, Plain(d), [Fetch(Plain(d)) EXCEPT !.data = new], {"status"}).w)
    BY <1>1, <1>2
  <2>2. Plain(d) \in Worlds(d) \cup {Plain(d)}
    OBVIOUS
  <2> HIDE DEF new
  <2> QED BY <1>3, <2>1, <2>2, WholeRow, SaveCommits
<1>5. UNCHANGED <<payments, today, interest, entered>>
  BY DEF CorrectorTask
<1>6. SaveDebt(d, new) => CorrectMisoverdue(d)
  BY <1>5 DEF CorrectorTask, CorrectMisoverdue
<1> HIDE DEF new
<1> QED BY <1>4, <1>5, <1>6 DEF vars

(***************************************************************************)
(* Every penalty stays a penalty of a debt there is.                       *)
(***************************************************************************)
\* The row of d becomes s; the penalties stay, or d gets a new one.
RowMoves(d, s) ==
  /\ s.state # "none" /\ debts' = [debts EXCEPT ![d] = s]
  /\ \/ UNCHANGED penalties
     \/ \E p \in Penalties, a \in PenaltyAmounts, date \in Int, auto \in BOOLEAN :
          penalties' = [penalties EXCEPT ![p] = NewPenalty(d, a, date, auto)]

LEMMA RowHeld ==
  ASSUME TypeOK, Held, NEW d \in Debts, NEW s, RowMoves(d, s)
  PROVE  Held'
<1>1. Exists(d)' /\ \A e \in Debts : Exists(e) => Exists(e)'
  BY DEF RowMoves, Exists, TypeOK
<1>2. \A p \in Penalties : penalties[p].debt \in Debts
  BY DEF TypeOK, PenaltyRow
<1>3. \A p \in Penalties : penalties'[p] = penalties[p] \/ penalties'[p].debt = d
  BY DEF RowMoves, NewPenalty, TypeOK
<1> QED BY <1>1, <1>2, <1>3 DEF Held, Exists

LEMMA RowStates ==
  ASSUME NEW r \in DebtRow
  PROVE  /\ Settled(r).state = r.state /\ Reset(r).state = r.state
         /\ \A x \in Int : WithBalance(r, x).state = r.state
         /\ \A a \in Nat : Charged(r, a).state = r.state
BY SavedRows DEF SameMoney

LEMMA EnterOverdueHeld ==
  ASSUME TypeOK, NEW d \in Debts, NEW r \in DebtRow, r.state # "none", EnterOverdue(d, r)
  PROVE  \E s : RowMoves(d, s)
<1>1. CASE debts' = [debts EXCEPT ![d] = r] /\ UNCHANGED penalties
  BY <1>1 DEF RowMoves
<1>2. ASSUME NEW p \in FreePenalties, NEW a \in PenaltyAmounts,
             penalties' = [penalties EXCEPT ![p] = NewPenalty(d, a, today, TRUE)],
             debts' = [debts EXCEPT ![d] = Charged(r, a)]
      PROVE  RowMoves(d, Charged(r, a))
  <2>1. p \in Penalties /\ a \in Nat /\ today \in Int
    BY Inputs DEF FreePenalties, TypeOK
  <2>2. Charged(r, a).state # "none"
    BY <2>1, RowStates
  <2> QED BY <1>2, <2>1, <2>2 DEF RowMoves
<1> QED BY <1>1, <1>2 DEF EnterOverdue

LEMMA SaveDebtHeld ==
  ASSUME TypeOK, NEW d \in Debts, NEW new \in DebtRow, new.state # "none", SaveDebt(d, new)
  PROVE  \E s : RowMoves(d, s)
<1> DEFINE r == Recalculated(debts[d], new)
<1>1. r \in DebtRow /\ r.state # "none"
  BY RecalculatedLemma, RecalculatedExcess DEF TypeOK, SameMoney
<1>2. [r EXCEPT !.status = "active"] \in DebtRow
      /\ [r EXCEPT !.status = "active"].state # "none"
  <2> HIDE DEF r
  <2> QED BY <1>1 DEF DebtRow, Statuses
<1>3. \/ debts' = [debts EXCEPT ![d] = Settled(r)] /\ UNCHANGED penalties
      \/ debts' = [debts EXCEPT ![d] = r] /\ UNCHANGED penalties
      \/ debts' = [debts EXCEPT ![d] = Restored(r)] /\ UNCHANGED penalties
      \/ EnterOverdue(d, r)
  BY DEF SaveDebt
<1> HIDE DEF r
<1>4. Settled(r).state # "none" /\ Restored(r).state # "none"
  BY <1>1, <1>2, RowStates DEF Restored
<1> QED BY <1>1, <1>3, <1>4, EnterOverdueHeld DEF RowMoves

LEMMA PurgeHeld ==
  ASSUME TypeOK, Held, NEW d \in Debts, PurgeDebt(d)
  PROVE  Held'
<1>1. NoPenalty.state = "none"
  BY DEF NoPenalty
<1>2. \A p \in Penalties : penalties'[p] = IF penalties[p].debt = d THEN NoPenalty ELSE penalties[p]
  BY DEF PurgeDebt
<1>3. \A p \in Penalties : penalties'[p].state # "none" =>
        penalties[p].debt # d /\ penalties'[p] = penalties[p]
  <2> HIDE DEF NoPenalty
  <2> QED BY <1>1, <1>2
<1>4. \A p \in Penalties : penalties[p].debt \in Debts
  BY DEF TypeOK, PenaltyRow
<1>5. \A e \in Debts : e # d => debts'[e] = debts[e]
  BY DEF PurgeDebt, TypeOK
<1> QED BY <1>3, <1>4, <1>5 DEF Held, Exists

LEMMA DebtCallHeld ==
  ASSUME TypeOK, Held, NEW d \in Debts, DebtCall(d)
  PROVE  Held'
<1> DEFINE r == debts[d]
<1>1. r \in DebtRow /\ (Live(d) => r.state # "none") /\ "live" # "none" /\ today \in Int
  BY DEF TypeOK, Live
<1>2. SUFFICES ASSUME ~PurgeDebt(d) PROVE \E s : RowMoves(d, s)
  <2> QED BY RowHeld, PurgeHeld
<1>3. CASE CreateDebt(d)
  <2>1. PICK total \in Totals, paid \in PaidEdits, status \in Statuses, due \in DueDates,
             accrued \in AccrualDates \cup {today} :
          debts' = [debts EXCEPT ![d] =
            Settled([state |-> "live", total |-> total, paid |-> paid,
                     rem |-> Max0(total - paid), status |-> status,
                     due |-> due, accrued |-> accrued])]
    BY <1>3 DEF CreateDebt
  <2> DEFINE row == [state |-> "live", total |-> total, paid |-> paid,
                     rem |-> Max0(total - paid), status |-> status,
                     due |-> due, accrued |-> accrued]
  <2>2. row \in DebtRow /\ row.state = "live"
    <3> HIDE DEF r
    <3>1. total \in Int /\ paid \in Nat /\ due \in Int /\ accrued \in Int
      BY <1>1, Inputs
    <3>2. Max0(total - paid) \in Int /\ "live" \in RowState
      BY <3>1 DEF Max0, RowState
    <3> QED BY <3>1, <3>2 DEF DebtRow
  <2> HIDE DEF row
  <2>3. Settled(row).state # "none"
    BY <2>2, RowStates
  <2>4. debts' = [debts EXCEPT ![d] = Settled(row)] /\ UNCHANGED penalties
    BY <1>3, <2>1 DEF row, CreateDebt
  <2> QED BY <2>3, <2>4 DEF RowMoves
<1>4. CASE UpdateDebt(d)
  <2>1. PICK total \in Totals \cup {debts[d].total}, paid \in PaidEdits \cup {debts[d].paid},
             status \in Statuses, due \in DueDates \cup {debts[d].due},
             accrued \in AccrualDates \cup {debts[d].accrued} :
          SaveDebt(d, [debts[d] EXCEPT !.total = total, !.paid = paid, !.status = status,
                                       !.due = due, !.accrued = accrued])
    BY <1>4 DEF UpdateDebt
  <2> DEFINE new == [debts[d] EXCEPT !.total = total, !.paid = paid, !.status = status,
                                     !.due = due, !.accrued = accrued]
  <2>2. total \in Int /\ paid \in Nat /\ due \in Int /\ accrued \in Int
    BY <1>1, Inputs DEF DebtRow
  <2>3. new \in DebtRow /\ new.state = r.state
    BY <1>1, <2>2, EditedRow DEF DebtRow
  <2> HIDE DEF new, r
  <2> QED BY <1>1, <1>4, <2>1, <2>3, SaveDebtHeld DEF UpdateDebt, new
<1>5. CASE CorrectTotal(d) \/ Forgive(d)
  <2>1. PICK total \in Int : SaveDebt(d, [debts[d] EXCEPT !.total = total])
    <3>1. debts[d].total \in Int
      BY <1>1 DEF DebtRow
    <3>2. \A amount \in PayAmounts : amount \in Int
      BY ParameterAssumption
    <3>3. \A amount \in PayAmounts : debts[d].total - amount \in Int
      BY <3>1, <3>2
    <3> QED BY <1>5, <3>3, Inputs DEF CorrectTotal, Forgive
  <2>2. [debts[d] EXCEPT !.total = total] \in DebtRow
        /\ [debts[d] EXCEPT !.total = total].state = r.state
    BY <1>1 DEF DebtRow
  <2> QED BY <1>1, <1>5, <2>1, <2>2, SaveDebtHeld DEF CorrectTotal, Forgive
<1>6. ASSUME NEW state \in {"live", "deleted"}, UNCHANGED penalties,
             debts' = [debts EXCEPT ![d] = Settled([@ EXCEPT !.state = state])]
      PROVE  \E s : RowMoves(d, s)
  <2>1. [r EXCEPT !.state = state] \in DebtRow /\ [r EXCEPT !.state = state].state # "none"
    BY <1>1 DEF DebtRow, RowState
  <2>2. Settled([r EXCEPT !.state = state]).state # "none"
    BY <2>1, RowStates
  <2>3. debts' = [debts EXCEPT ![d] = Settled([r EXCEPT !.state = state])]
    BY <1>6 DEF TypeOK
  <2> QED BY <1>6, <2>2, <2>3 DEF RowMoves
<1>7. CASE DeleteDebt(d) \/ RestoreDebt(d)
  BY <1>6, <1>7 DEF DeleteDebt, RestoreDebt
<1>8. CASE CreatePenalty(d)
  <2>1. PICK p \in FreePenalties, amount \in PenaltyAmounts, date \in PenaltyDates \cup {today},
             auto \in BOOLEAN :
          /\ penalties' = [penalties EXCEPT ![p] = NewPenalty(d, amount, date, auto)]
          /\ debts' = [debts EXCEPT ![d] = Charged(@, amount)]
    BY <1>8 DEF CreatePenalty
  <2>2. p \in Penalties /\ amount \in Nat /\ date \in Int
    BY <1>1, Inputs DEF FreePenalties
  <2>3. Charged(r, amount).state # "none"
    BY <1>1, <1>8, <2>2, RowStates DEF CreatePenalty
  <2>4. debts' = [debts EXCEPT ![d] = Charged(r, amount)]
    BY <2>1 DEF TypeOK
  <2> QED BY <2>1, <2>2, <2>3, <2>4 DEF RowMoves
<1>9. ASSUME NEW p \in Payments, NEW amount \in PayAmounts, NEW q \in DebtRow, q.state # "none",
             Confirm(d, p, q, amount), UNCHANGED penalties
      PROVE  \E s : RowMoves(d, s)
  <2> DEFINE new == [q EXCEPT !.paid = @ + amount]
  <2>1. amount \in Nat
    BY ParameterAssumption
  <2>2. new \in DebtRow /\ new.state = q.state
    BY <2>1 DEF DebtRow
  <2> HIDE DEF new
  <2>3. Recalculated(q, new) \in DebtRow /\ Recalculated(q, new).state = q.state
    BY <2>2, RecalculatedLemma, RecalculatedExcess DEF SameMoney
  <2>4. Settled(Recalculated(q, new)).state # "none"
    BY <1>9, <2>3, RowStates
  <2>5. debts' = [debts EXCEPT ![d] = Settled(Recalculated(q, new))]
    BY <1>9 DEF Confirm, new
  <2> QED BY <1>9, <2>4, <2>5 DEF RowMoves
<1>10. CASE \E p \in Payments : RecordPayment(d, p)
  <2>1. PICK p \in Payments, date \in PaymentDates \cup {today}, amount \in PayAmounts :
          /\ \E q \in Accruals(debts[d], date) : Confirm(d, p, q, amount)
          /\ Live(d) /\ UNCHANGED penalties
    BY <1>10 DEF RecordPayment
  <2>2. PICK q \in Accruals(debts[d], date) : Confirm(d, p, q, amount)
    BY <2>1
  <2>3. date \in Int
    BY <1>1, ParameterAssumption
  <2>4. q \in DebtRow /\ q.state # "none"
    BY <1>1, <2>1, <2>3, AccrualRows DEF SameMoney
  <2> QED BY <1>9, <2>1, <2>2, <2>4
<1>11. CASE \E p \in Payments : UploadNewPayment(d, p)
  BY <1>1, <1>9, <1>11 DEF UploadNewPayment
<1> QED BY <1>2, <1>3, <1>4, <1>5, <1>7, <1>8, <1>10, <1>11 DEF DebtCall, StatuslessCall

\* The row of d changes, its state does not.
StateStays(d) ==
  \/ UNCHANGED debts
  \/ \E s : debts' = [debts EXCEPT ![d] = s] /\ s.state = debts[d].state

LEMMA StayingHeld ==
  ASSUME TypeOK, Held, NEW d \in Debts, StateStays(d),
         \A p \in Penalties : penalties'[p].state # "none" =>
           penalties[p].state # "none" /\ penalties'[p].debt = penalties[p].debt
  PROVE  Held'
<1>1. \A e \in Debts : debts'[e].state = debts[e].state
  BY DEF StateStays, TypeOK
<1>2. \A p \in Penalties : penalties[p].debt \in Debts
  BY DEF TypeOK, PenaltyRow
<1> QED BY <1>1, <1>2 DEF Held, Exists

LEMMA PenaltyCallHeld ==
  ASSUME TypeOK, Held, NEW p \in Penalties, PenaltyCall(p)
  PROVE  Held'
<1> DEFINE d == penalties[p].debt
           was == penalties[p].amount
<1>1. d \in Debts /\ debts[d] \in DebtRow /\ was \in Nat /\ debts[d].rem \in Int
  BY DEF TypeOK, PenaltyRow, DebtRow
<1>2. ASSUME NEW a \in Int
      PROVE  /\ WithBalance(debts[d], Max0(a)).state = debts[d].state
             /\ Reset(WithBalance(debts[d], Max0(a))).state = debts[d].state
  <2>1. Max0(a) \in Int
    BY DEF Max0
  <2>2. WithBalance(debts[d], Max0(a)) \in DebtRow
    BY <1>1, <2>1, WithBalanceLemma
  <2> QED BY <1>1, <2>1, <2>2, RowStates
<1>3. CASE UpdatePenalty(p)
  <2>1. PICK amount \in PenaltyAmounts \cup {was}, date \in PenaltyDates \cup {penalties[p].date},
             auto \in BOOLEAN :
          /\ penalties' = [penalties EXCEPT ![p].amount = amount, ![p].date = date, ![p].auto = auto]
          /\ debts' = [debts EXCEPT ![d] =
               IF amount = was THEN Reset(@) ELSE Reset(WithBalance(@, Max0(@.rem - was + amount)))]
    BY <1>3 DEF UpdatePenalty
  <2>2. debts[d].rem - was + amount \in Int
    BY <1>1, Inputs
  <2> DEFINE s == IF amount = was THEN Reset(debts[d])
                  ELSE Reset(WithBalance(debts[d], Max0(debts[d].rem - was + amount)))
  <2>3. s.state = debts[d].state
    BY <1>1, <1>2, <2>2, RowStates
  <2>4. debts' = [debts EXCEPT ![d] = s]
    BY <1>1, <2>1 DEF TypeOK
  <2>5. penalties[p].state # "none" /\ penalties'[p].debt = d
        /\ \A q \in Penalties : q # p => penalties'[q] = penalties[q]
    BY <1>3, <2>1 DEF UpdatePenalty, TypeOK, PenaltyRow
  <2> HIDE DEF s
  <2>6. StateStays(d)
    BY <2>3, <2>4 DEF StateStays
  <2> QED BY <1>1, <2>5, <2>6, StayingHeld
<1>4. CASE DeletePenalty(p)
  <2> DEFINE s == Reset(WithBalance(debts[d], Max0(debts[d].rem - was)))
  <2>1. debts' = [debts EXCEPT ![d] = s] /\ s.state = debts[d].state
    BY <1>1, <1>2, <1>4 DEF DeletePenalty, TypeOK
  <2>2. penalties[p].state # "none" /\ penalties'[p].debt = d
        /\ \A q \in Penalties : q # p => penalties'[q] = penalties[q]
    BY <1>4 DEF DeletePenalty, TypeOK, PenaltyRow
  <2> HIDE DEF s
  <2>3. StateStays(d)
    BY <2>1 DEF StateStays
  <2> QED BY <1>1, <2>2, <2>3, StayingHeld
<1>5. CASE RestorePenalty(p)
  <2> DEFINE s == Charged(debts[d], was)
  <2>1. debts' = [debts EXCEPT ![d] = s] /\ s.state = debts[d].state
    BY <1>1, <1>5, RowStates DEF RestorePenalty, TypeOK
  <2>2. penalties[p].state # "none" /\ penalties'[p].debt = d
        /\ \A q \in Penalties : q # p => penalties'[q] = penalties[q]
    BY <1>5 DEF RestorePenalty, TypeOK, PenaltyRow
  <2> HIDE DEF s
  <2>3. StateStays(d)
    BY <2>1 DEF StateStays
  <2> QED BY <1>1, <2>2, <2>3, StayingHeld
<1>6. CASE PurgePenalty(p)
  <2> DEFINE s == WithBalance(debts[d], Max0(debts[d].rem - was))
  <2>1. s.state = debts[d].state
    BY <1>1, <1>2
  <2>2. UNCHANGED debts \/ debts' = [debts EXCEPT ![d] = s]
    BY <1>6 DEF PurgePenalty, TypeOK
  <2>3. penalties'[p].state = "none"
        /\ \A q \in Penalties : q # p => penalties'[q] = penalties[q]
    BY <1>6 DEF PurgePenalty, TypeOK, NoPenalty
  <2> HIDE DEF s
  <2>4. StateStays(d)
    BY <2>1, <2>2 DEF StateStays
  <2> QED BY <1>1, <2>3, <2>4, StayingHeld
<1> QED BY <1>3, <1>4, <1>5, <1>6 DEF PenaltyCall

LEMMA JobHeld ==
  ASSUME TypeOK, Held, NEW d \in Debts, Job(d)
  PROVE  Held'
<1>1. debts[d] \in DebtRow /\ today \in Int /\ (Live(d) => debts[d].state # "none")
  BY DEF TypeOK, Live
<1>2. SUFFICES \E s : RowMoves(d, s)
  BY RowHeld
<1>3. CASE AccrueDaily(d)
  <2>1. PICK r \in Accruals(debts[d], today) : debts' = [debts EXCEPT ![d] = r]
    BY <1>3 DEF AccrueDaily
  <2>2. r.state # "none"
    BY <1>1, <1>3, AccrualRows DEF AccrueDaily, SameMoney
  <2> QED BY <1>3, <2>1, <2>2 DEF RowMoves, AccrueDaily
<1>4. CASE ApplyAutoPenalties(d) \/ RunAutoPenalties(d)
  <2>1. PICK p \in FreePenalties, amount \in PenaltyAmounts :
          /\ penalties' = [penalties EXCEPT ![p] = NewPenalty(d, amount, today, TRUE)]
          /\ debts' = [debts EXCEPT ![d] = Charged(@, amount)]
    BY <1>4 DEF ApplyAutoPenalties, RunAutoPenalties, ChargeAutoPenalty
  <2>2. p \in Penalties /\ amount \in Nat /\ Live(d)
    BY <1>4, Inputs DEF FreePenalties, ApplyAutoPenalties, RunAutoPenalties, PenaltyCandidate
  <2>3. Charged(debts[d], amount).state # "none"
    BY <1>1, <2>2, RowStates
  <2>4. debts' = [debts EXCEPT ![d] = Charged(debts[d], amount)]
    BY <2>1 DEF TypeOK
  <2> QED BY <1>1, <2>1, <2>2, <2>3, <2>4 DEF RowMoves
<1>5. CASE UpdateOverdueStatuses(d)
  <2> DEFINE r == [debts[d] EXCEPT !.status = "overdue"]
  <2>1. r \in DebtRow /\ r.state # "none"
    BY <1>1, <1>5 DEF UpdateOverdueStatuses, DebtRow, Statuses
  <2> QED BY <1>5, <2>1, EnterOverdueHeld DEF UpdateOverdueStatuses
<1>6. CASE CorrectMisoverdue(d)
  <2>1. PICK status \in {"paid", "active"} : SaveDebt(d, [debts[d] EXCEPT !.status = status])
    BY <1>6 DEF CorrectMisoverdue
  <2>2. [debts[d] EXCEPT !.status = status] \in DebtRow
        /\ [debts[d] EXCEPT !.status = status].state # "none"
    BY <1>1, <1>6 DEF CorrectMisoverdue, DebtRow, Statuses
  <2> QED BY <2>1, <2>2, SaveDebtHeld
<1> QED BY <1>3, <1>4, <1>5, <1>6 DEF Job

LEMMA HeldInit == Init => Held
BY DEF Init, Held, NoPenalty

LEMMA HeldNext == Inv /\ Held /\ [Next]_vars => Held'
<1> SUFFICES ASSUME TypeOK, Held, [Next]_vars PROVE Held'
  BY DEF Inv
<1>1. CASE NextDay
  BY <1>1 DEF NextDay, Held, Exists
<1>2. CASE UNCHANGED vars
  BY <1>2 DEF vars, Held, Exists
<1>3. CASE \E p \in Payments : UploadPayment(p)
  BY <1>3 DEF UploadPayment, Held, Exists
<1> QED BY <1>1, <1>2, <1>3, DebtCallHeld, PenaltyCallHeld, JobHeld DEF Next

(***************************************************************************)
(* The refinement.                                                         *)
(***************************************************************************)
\* How a call may end.
Ends == outcome \in {"done", "raised"}

\* Nothing is announced of a step that makes no debt paid.
LEMMA Silent ==
  ASSUME sent' = <<>>, outcome' = "done",
         \A e \in Debts : debts'[e] = debts[e] \/ debts'[e].status # "paid"
  PROVE  Done
<1>1. "paid" \notin Range(sent')
  <2>1. DOMAIN sent' = {}
    OBVIOUS
  <2> QED BY <2>1 DEF Range
<1> QED BY <1>1 DEF Done, Announced

LEMMA DebtServiceStep ==
  ASSUME Inv, NEW d \in Debts, DebtServiceCall(d)
  PROVE  (Done \/ Failed) /\ (DebtCall(d) \/ UNCHANGED vars)
<1>1. TypeOK
  BY DEF Inv
<1>2. CASE DebtServicePermanentDelete(d)
  <2>1. PurgeDebt(d) /\ outcome' = "done" /\ sent' = <<>>
    BY <1>2 DEF DebtServicePermanentDelete
  <2>2. \A e \in Debts : debts'[e] = debts[e] \/ debts'[e].status # "paid"
    BY <1>1, <2>1 DEF PurgeDebt, TypeOK, NoDebt
  <2> QED BY <2>1, <2>2, Silent DEF DebtCall
<1>3. CASE \E p \in Payments : PaymentServiceCreate(d, p) \/ CreateUploadedPayment(d, p)
  BY <1>1, <1>3, PaymentSimulates, UploadSimulates DEF DebtCall, StatuslessCall
<1>4. CASE DebtServiceCreate(d) \/ DebtServiceUpdate(d)
  BY <1>1, <1>4, CreateSimulates, UpdateSimulates DEF DebtCall
<1>5. CASE DebtServiceCorrectTotal(d) \/ ForgivenessServiceApply(d)
  BY <1>1, <1>5, CorrectSimulates, ForgiveSimulates DEF DebtCall, StatuslessCall
<1>6. CASE DebtServiceDelete(d) \/ DebtServiceRestore(d)
  BY <1>1, <1>6, DeleteSimulates, RestoreSimulates DEF DebtCall, StatuslessCall
<1>7. CASE PenaltyServiceCreate(d)
  BY <1>7, CreatePenaltySimulates DEF DebtCall, StatuslessCall
<1> QED BY <1>2, <1>3, <1>4, <1>5, <1>6, <1>7 DEF DebtServiceCall

LEMMA PenaltyServiceStep ==
  ASSUME Inv, Held, NEW p \in Penalties, PenaltyServiceCall(p)
  PROVE  (Done \/ Failed) /\ PenaltyCall(p)
BY UpdatePenaltySimulates, DeletePenaltySimulates, RestorePenaltySimulates, PurgePenaltySimulates
   DEF PenaltyServiceCall, PenaltyCall

LEMMA TaskStep ==
  ASSUME Inv, NEW d \in Debts, Task(d)
  PROVE  (Done \/ Failed) /\ (Job(d) \/ UNCHANGED vars)
<1>1. TypeOK
  BY DEF Inv
<1> QED BY <1>1, AccrualSimulates, PenaltyTaskSimulates, OverdueSimulates, CorrectorSimulates
        DEF Task, Job

LEMMA SignalStep ==
  ASSUME Inv, Held, SignalNext
  PROVE  (Done \/ Failed) /\ (Next \/ UNCHANGED vars)
<1>1. CASE \E d \in Debts : DebtServiceCall(d) \/ Task(d)
  BY <1>1, DebtServiceStep, TaskStep DEF Next
<1>2. CASE \E p \in Payments : VoidPayment(p)
  BY <1>2, VoidSimulates DEF Inv
<1>3. CASE \E p \in Penalties : PenaltyServiceCall(p)
  BY <1>3, PenaltyServiceStep DEF Next
<1>4. CASE Midnight
  <2>1. NextDay /\ sent' = <<>> /\ outcome' = "done" /\ UNCHANGED debts
    BY <1>4 DEF Midnight, NextDay
  <2> QED BY <2>1, Silent DEF Next
<1>5. CASE \E p \in Payments : UpdateUploadedPayment(p)
  <2>1. \E p \in Payments : UploadPayment(p) /\ sent' = <<>> /\ outcome' = "done" /\ UNCHANGED debts
    BY <1>5 DEF UpdateUploadedPayment, UploadPayment
  <2> QED BY <2>1, Silent DEF Next
<1> QED BY <1>1, <1>2, <1>3, <1>4, <1>5 DEF SignalNext

LEMMA SignalSteps ==
  Inv /\ Held /\ Ends /\ [SignalNext]_signalVars =>
    Inv' /\ Held' /\ Ends' /\ [Next]_vars /\ [Announced]_signalVars
<1> SUFFICES ASSUME Inv, Held, Ends, [SignalNext]_signalVars
             PROVE  Inv' /\ Held' /\ Ends' /\ [Next]_vars /\ [Announced]_signalVars
  OBVIOUS
<1>1. Ends' /\ [Next]_vars /\ [Announced]_signalVars
  <2>1. CASE UNCHANGED signalVars
    BY <2>1 DEF signalVars, vars, Ends
  <2>2. CASE SignalNext
    BY <2>2, SignalStep DEF Done, Failed, Ends
  <2> QED BY <2>1, <2>2
<1> QED BY <1>1, InvNext, HeldNext

(* Handler by handler, with every receiver, nested save, stale instance    *)
(* and rollback, a call on debts or penalties does to the ledger exactly   *)
(* what DebtLedger says that call does, or nothing.                        *)
THEOREM HandlersImplementLedger == SignalSpec => ImplementsLedger
<1>1. SignalInit => Init /\ Inv /\ Held /\ Ends
  BY InvInit, HeldInit DEF SignalInit, Ends
<1> QED BY <1>1, SignalSteps, PTL DEF SignalSpec, ImplementsLedger, Spec

(* The receivers of a save save the debt again, and the flag that stops    *)
(* them is set on one instance only; still no call recurs without end.     *)
THEOREM CallsComeToAnEnd == SignalSpec => []SavesEnd
<1>1. SignalInit => Inv /\ Held /\ Ends
  BY InvInit, HeldInit DEF SignalInit, Ends
<1>2. Ends => SavesEnd
  BY DEF Ends, SavesEnd
<1> QED BY <1>1, <1>2, SignalSteps, PTL DEF SignalSpec

(* A debt that a call makes paid is announced as paid, through whichever   *)
(* receivers it has become so, and a debt that a call changes and announces *)
(* as paid is paid when the call is over: no receiver's save undoes it.    *)
THEOREM PaidDebtsAreAnnounced == SignalSpec => PaidIsAnnounced
<1>1. SignalInit => Inv /\ Held /\ Ends
  BY InvInit, HeldInit DEF SignalInit, Ends
<1> QED BY <1>1, SignalSteps, PTL DEF SignalSpec, PaidIsAnnounced, Announced

(* So whatever is proved of DebtLedger holds of the code with its handlers: *)
(* a debt with nothing to pay is marked paid, what a debt shows as paid is  *)
(* backed, its balance is justified, and only users reopen it.              *)
THEOREM HandlersKeepLedger ==
  SignalSpec => /\ [](SettledIsPaid /\ PaidIsBacked /\ NeverOvercharged)
                /\ OnlyUsersReopen /\ OneAutoPenaltyPerDay
<1>1. SignalSpec => Spec
  BY HandlersImplementLedger DEF ImplementsLedger
<1> QED BY <1>1, SettledDebtsArePaid, PaidAmountsAreBacked, BalancesAreJustified, PaidUntilEdited,
           AutoPenaltyOncePerDay, PTL
===============================================================================
