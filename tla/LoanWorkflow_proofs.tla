-------------------------- MODULE LoanWorkflow_proofs --------------------------
(***************************************************************************)
(* What overlapping calls on loan applications preserve, for any number of *)
(* applications, callers and amounts.                                      *)
(***************************************************************************)
EXTENDS LoanWorkflow, TLAPS

(***************************************************************************)
(* Types.                                                                  *)
(***************************************************************************)
\* A row that is not stored is a row.
LEMMA AbsentRows == NoRow \in Row /\ PurgedRow \in Row
  BY LoanAssumption DEF NoRow, PurgedRow, NewRow, Row, Status

\* What a call writes is a row.
LEMMA WrittenType ==
  ASSUME LoanTypeOK, NEW c \in Callers, calls[c].phase = "captured"
  PROVE  /\ calls[c] \in Call /\ calls[c].app \in Applications /\ calls[c].copy \in Row
         /\ Written(calls[c]) \in Row
  <1>1. calls[c] \in Call \cup {Idle}
    BY DEF LoanTypeOK
  <1>2. calls[c] \in Call
    BY <1>1 DEF Idle
  <1>3. calls[c].app \in Applications /\ calls[c].copy \in Row
    BY <1>2 DEF Call
  <1>4. apps[calls[c].app] \in Row
    BY <1>3 DEF LoanTypeOK
  <1>5. [apps[calls[c].app] EXCEPT !.deleted = calls[c].copy.deleted] \in Row
    BY <1>3, <1>4 DEF Row
  <1> QED BY <1>2, <1>3, <1>5 DEF Written

\* What a phone uploads for a row makes a row.
LEMMA UploadedRows ==
  ASSUME LoanTypeOK, NEW a \in Applications
  PROVE  \A status \in Uploadable, amount \in Amounts, deleted \in {apps[a].deleted, TRUE} :
           [stored |-> "yes", status |-> status, amount |-> amount, deleted |-> deleted] \in Row
  <1>1. apps[a].deleted \in BOOLEAN
    BY DEF LoanTypeOK, Row
  <1> QED BY <1>1, LoanAssumption DEF Row, Status

\* Loading a copy keeps the types.
LEMMA LoadType ==
  ASSUME LoanTypeOK, NEW c \in Callers, NEW kind \in Kind, NEW a \in Applications,
         NEW copy \in Row, Load(c, kind, a, copy)
  PROVE  LoanTypeOK'
  <1>1. [phase |-> "loaded", kind |-> kind, app |-> a, copy |-> copy] \in Call
    BY DEF Call
  <1> QED BY <1>1 DEF LoanTypeOK, Load

\* The state is well formed in every step.
LEMMA LoanTypeStep == LoanTypeOK /\ [LoanNext]_loanVars => LoanTypeOK'
  <1> SUFFICES ASSUME LoanTypeOK, [LoanNext]_loanVars PROVE LoanTypeOK'
    OBVIOUS
  <1>1. ASSUME NEW a \in Applications, Submit(a) PROVE LoanTypeOK'
    BY <1>1 DEF Submit, NewRow, Row, Status, LoanTypeOK
  <1>2. ASSUME NEW c \in Callers, NEW a \in Applications,
               \/ Approve(c, a) \/ Reject(c, a) \/ Update(c, a) \/ Delete(c, a)
               \/ Restore(c, a) \/ CleanUpStale(c, a) \/ PermanentDelete(c, a) \/ Upload(c, a)
        PROVE  LoanTypeOK'
    <2>1. apps[a] \in Row
      BY DEF LoanTypeOK
    <2>2. \E kind \in Kind, copy \in Row : Load(c, kind, a, copy)
      <3>1. /\ [apps[a] EXCEPT !.status = "approved"] \in Row
            /\ [apps[a] EXCEPT !.status = "rejected"] \in Row
        BY <2>1 DEF Row, Status
      <3>2. [apps[a] EXCEPT !.deleted = TRUE] \in Row /\ [apps[a] EXCEPT !.deleted = FALSE] \in Row
        BY <2>1 DEF Row
      <3>3. \A amount \in Amounts : [apps[a] EXCEPT !.amount = amount] \in Row
        BY <2>1 DEF Row
      <3>4. CASE Upload(c, a)
        BY <3>4, UploadedRows DEF Upload, Kind
      <3>5. CASE ~Upload(c, a)
        BY <1>2, <2>1, <3>1, <3>2, <3>3, <3>5 DEF Approve, Reject, Update, Delete, Restore,
           CleanUpStale, PermanentDelete, Kind
      <3> QED BY <3>4, <3>5
    <2> QED BY <2>2, LoadType
  <1>3. ASSUME NEW c \in Callers, Capture(c) PROVE LoanTypeOK'
    <2> DEFINE old == IF Stored(calls[c].app) THEN apps[calls[c].app].status ELSE "none"
    <2>1. calls[c] \in Call
      BY <1>3 DEF Capture, LoanTypeOK, Idle
    <2>2. calls[c].app \in Applications /\ calls[c].kind \in Kind /\ calls[c].copy \in Row
      BY <2>1 DEF Call
    <2>3. old \in Status \cup {"none"}
      BY <2>2 DEF LoanTypeOK, Row
    <2>4. [phase |-> "captured", kind |-> calls[c].kind, app |-> calls[c].app,
           copy |-> calls[c].copy, old |-> old] \in Call
      BY <2>2, <2>3 DEF Call
    <2> QED BY <1>3, <2>4 DEF Capture, LoanTypeOK
  <1>4. ASSUME NEW c \in Callers, Save(c) PROVE LoanTypeOK'
    <2>1. calls[c].app \in Applications /\ Written(calls[c]) \in Row
      BY <1>4, WrittenType DEF Save
    <2>2. Append(loans[calls[c].app], Written(calls[c]).amount) \in Seq(Amounts)
      BY <2>1 DEF LoanTypeOK, Row
    <2> QED BY <1>4, <2>1, <2>2 DEF Save, Done, LoanTypeOK
  <1>5. ASSUME NEW c \in Callers, Reinsert(c) PROVE LoanTypeOK'
    BY <1>5, WrittenType DEF Reinsert, Done, LoanTypeOK
  <1>6. ASSUME NEW c \in Callers, Remove(c) PROVE LoanTypeOK'
    BY <1>6, AbsentRows DEF Remove, Done, LoanTypeOK
  <1>7. ASSUME NEW c \in Callers, RollBack(c) PROVE LoanTypeOK'
    BY <1>7 DEF RollBack, Done, LoanTypeOK
  <1>8. CASE UNCHANGED loanVars
    BY <1>8 DEF loanVars, LoanTypeOK
  <1> QED BY <1>1, <1>2, <1>3, <1>4, <1>5, <1>6, <1>7, <1>8 DEF LoanNext

\* Rows, loans and calls keep their types (LoanTypeOK), whatever overlaps.
THEOREM LoanTypes == LoanSpec => []LoanTypeOK
  <1>1. LoanInit => LoanTypeOK
    BY AbsentRows DEF LoanInit, LoanTypeOK
  <1> QED BY <1>1, LoanTypeStep, PTL DEF LoanSpec

(***************************************************************************)
(* An approved application has a debt.                                     *)
(***************************************************************************)
Granted(a) == loans[a] # <<>> \/ a \in revived

(* A call has an application that was filed, and a copy of a stored row,   *)
(* changed as its kind wants to save it.  If what pre_save captured makes  *)
(* post_save start nothing for an approval, there is a debt already, or    *)
(* the row had been purged.                                                *)
CallInv(c) ==
  calls[c] # Idle =>
    /\ apps[calls[c].app].stored # "never" /\ calls[c].copy.stored = "yes"
    /\ calls[c].kind = "update" => calls[c].copy.status = "pending"
    /\ calls[c].kind = "reject" => calls[c].copy.status = "rejected"
    /\ calls[c].phase = "captured" /\ calls[c].old = "approved" => Granted(calls[c].app)
    /\ calls[c].phase = "captured" /\ calls[c].old = "none" =>
         ~Stored(calls[c].app) \/ calls[c].app \in revived

GrantInv ==
  /\ LoanTypeOK
  /\ \A a \in Applications : Stored(a) /\ apps[a].status = "approved" => Granted(a)
  /\ \A c \in Callers : CallInv(c)

\* What has been granted, or inserted again, stays so.
LEMMA GrantedStays ==
  ASSUME LoanTypeOK, [LoanNext]_loanVars, NEW a \in Applications, Granted(a)
  PROVE  Granted(a)'
  <1>1. ASSUME NEW c \in Callers, Save(c) PROVE Granted(a)'
    <2>1. calls[c].app \in Applications /\ Written(calls[c]) \in Row
      BY <1>1, WrittenType DEF Save
    <2>2. ASSUME NEW b \in Applications, NEW amount \in Amounts
          PROVE  Append(loans[b], amount) # <<>>
      BY DEF LoanTypeOK
    <2>3. Written(calls[c]).amount \in Amounts
      BY <2>1 DEF Row
    <2> QED BY <1>1, <2>1, <2>2, <2>3 DEF Save, Granted, LoanTypeOK
  <1>2. CASE UNCHANGED loans /\ revived \subseteq revived'
    BY <1>2 DEF Granted
  <1>3. [LoanNext]_loanVars =>
          \/ \E c \in Callers : Save(c)
          \/ UNCHANGED loans /\ revived \subseteq revived'
    BY DEF LoanNext, loanVars, Submit, Approve, Reject, Update, Delete, Restore, CleanUpStale,
           PermanentDelete, Upload, Load, Capture, Reinsert, Remove, RollBack
  <1> QED BY <1>1, <1>2, <1>3

\* A call that stays as it is keeps its invariant, if rows are purged but never come back
\* unnoticed.
LEMMA CallStays ==
  ASSUME LoanTypeOK, [LoanNext]_loanVars, NEW c \in Callers, CallInv(c), calls'[c] = calls[c],
         \A a \in Applications : apps[a].stored # "never" => apps'[a].stored # "never",
         \A a \in Applications : apps[a].stored = "purged" => ~Stored(a)' \/ a \in revived'
  PROVE  CallInv(c)'
  <1> SUFFICES ASSUME calls[c] # Idle PROVE CallInv(c)'
    BY DEF CallInv
  <1>1. calls[c].app \in Applications /\ calls[c] \in Call
    BY DEF LoanTypeOK, Call
  <1>2. Granted(calls[c].app) => Granted(calls[c].app)'
    BY <1>1, GrantedStays
  <1>3. revived \subseteq revived'
    BY DEF LoanNext, loanVars, Submit, Approve, Reject, Update, Delete, Restore, CleanUpStale,
           PermanentDelete, Upload, Load, Capture, Reinsert, Remove, RollBack, Save
  <1>4. apps[calls[c].app] \in Row
    BY <1>1 DEF LoanTypeOK
  <1>5. ~Stored(calls[c].app) => apps[calls[c].app].stored \in {"never", "purged"}
    BY <1>4 DEF Row, Stored
  <1> QED BY <1>1, <1>2, <1>3, <1>5 DEF CallInv

\* All calls keep the invariant when one of them ends and the others stay as they are.
LEMMA CallsStay ==
  ASSUME GrantInv, [LoanNext]_loanVars, NEW c \in Callers, CallInv(c)',
         \A d \in Callers \ {c} : calls'[d] = calls[d],
         \A a \in Applications : apps[a].stored # "never" => apps'[a].stored # "never",
         \A a \in Applications : apps[a].stored = "purged" => ~Stored(a)' \/ a \in revived'
  PROVE  \A d \in Callers : CallInv(d)'
  <1> SUFFICES ASSUME NEW d \in Callers \ {c} PROVE CallInv(d)'
    OBVIOUS
  <1>1. CallInv(d) /\ LoanTypeOK
    BY DEF GrantInv
  <1>2. calls'[d] = calls[d]
    OBVIOUS
  <1> QED BY <1>1, <1>2, CallStays

\* Every row that was not touched keeps its debt.
LEMMA RowStays ==
  ASSUME GrantInv, [LoanNext]_loanVars, NEW a \in Applications,
         Stored(a)' /\ apps'[a].status = "approved" => Stored(a) /\ apps[a].status = "approved"
  PROVE  Stored(a)' /\ apps'[a].status = "approved" => Granted(a)'
  BY GrantedStays DEF GrantInv

\* The calls that load a copy.
LEMMA LoadKeepsGrant ==
  ASSUME GrantInv, [LoanNext]_loanVars, NEW c \in Callers, NEW a \in Applications,
         NEW kind \in Kind, NEW copy \in Row, Load(c, kind, a, copy), Stored(a),
         copy.stored = "yes",
         kind = "update" => copy.status = "pending",
         kind = "reject" => copy.status = "rejected"
  PROVE  GrantInv'
  <1>1. LoanTypeOK'
    BY LoanTypeStep DEF GrantInv
  <1>2. \A b \in Applications : Stored(b)' /\ apps'[b].status = "approved" => Granted(b)'
    BY RowStays DEF Load, Stored
  <1>3. CallInv(c)'
    <2>1. calls'[c] = [phase |-> "loaded", kind |-> kind, app |-> a, copy |-> copy]
      BY DEF GrantInv, LoanTypeOK, Load
    <2> QED BY <2>1 DEF Load, CallInv, Stored
  <1>4. ASSUME NEW d \in Callers \ {c} PROVE CallInv(d)'
    <2>1. calls'[d] = calls[d] /\ apps' = apps
      BY DEF GrantInv, LoanTypeOK, Load
    <2> QED BY <2>1, CallStays DEF GrantInv, Stored
  <1> QED BY <1>1, <1>2, <1>3, <1>4 DEF GrantInv

\* The invariant is kept by every step.
LEMMA GrantStep == GrantInv /\ [LoanNext]_loanVars => GrantInv'
  <1> SUFFICES ASSUME GrantInv, [LoanNext]_loanVars PROVE GrantInv'
    OBVIOUS
  <1> USE DEF GrantInv
  <1>0. LoanTypeOK'
    BY LoanTypeStep
  <1>1. ASSUME NEW a \in Applications, Submit(a) PROVE GrantInv'
    <2>1. /\ \A b \in Applications \ {a} : apps'[b] = apps[b]
          /\ apps[a].stored = "never" /\ apps'[a].stored = "yes" /\ apps'[a].status = "pending"
      BY <1>1 DEF Submit, NewRow, LoanTypeOK
    <2>2. \A c \in Callers : CallInv(c)'
      BY <1>1, <2>1, CallStays DEF Submit, Stored
    <2>3. \A b \in Applications : Stored(b)' /\ apps'[b].status = "approved" => Granted(b)'
      BY <2>1, RowStays DEF Stored
    <2> QED BY <1>0, <2>2, <2>3
  <1>2. ASSUME NEW c \in Callers, NEW a \in Applications,
               \/ Approve(c, a) \/ Reject(c, a) \/ Update(c, a) \/ Delete(c, a)
               \/ Restore(c, a) \/ CleanUpStale(c, a) \/ PermanentDelete(c, a) \/ Upload(c, a)
        PROVE  GrantInv'
    <2>1. apps[a] \in Row
      BY DEF LoanTypeOK
    <2>2. \E kind \in Kind, copy \in Row :
            /\ Load(c, kind, a, copy) /\ Stored(a) /\ copy.stored = "yes"
            /\ kind = "update" => copy.status = "pending"
            /\ kind = "reject" => copy.status = "rejected"
      <3>1. /\ [apps[a] EXCEPT !.status = "approved"] \in Row
            /\ [apps[a] EXCEPT !.status = "rejected"] \in Row
            /\ [apps[a] EXCEPT !.status = "rejected"].status = "rejected"
            /\ [apps[a] EXCEPT !.status = "approved"].stored = apps[a].stored
            /\ [apps[a] EXCEPT !.status = "rejected"].stored = apps[a].stored
        BY <2>1 DEF Row, Status
      <3>2. \A deleted \in BOOLEAN : /\ [apps[a] EXCEPT !.deleted = deleted] \in Row
                                    /\ [apps[a] EXCEPT !.deleted = deleted].stored = apps[a].stored
        BY <2>1 DEF Row
      <3>3. \A amount \in Amounts : /\ [apps[a] EXCEPT !.amount = amount] \in Row
                                   /\ [apps[a] EXCEPT !.amount = amount].status = apps[a].status
                                   /\ [apps[a] EXCEPT !.amount = amount].stored = apps[a].stored
        BY <2>1 DEF Row
      <3>4. Stored(a)
        BY <1>2 DEF Approve, Reject, Update, Delete, Restore, CleanUpStale, PermanentDelete, Upload,
           Visible
      <3>5. CASE Approve(c, a)
        BY <3>1, <3>4, <3>5 DEF Approve, Kind, Stored
      <3>6. CASE Reject(c, a)
        BY <3>1, <3>4, <3>6 DEF Reject, Kind, Stored
      <3>7. CASE Update(c, a)
        BY <3>3, <3>4, <3>7 DEF Update, Kind, Stored
      <3>8. CASE Delete(c, a) \/ Restore(c, a) \/ CleanUpStale(c, a)
        BY <3>2, <3>4, <3>8 DEF Delete, Restore, CleanUpStale, Kind, Stored
      <3>9. CASE PermanentDelete(c, a)
        BY <2>1, <3>4, <3>9 DEF PermanentDelete, Kind, Stored
      <3>10. CASE Upload(c, a)
        BY <3>4, <3>10, UploadedRows DEF Upload, Kind
      <3> QED BY <1>2, <3>5, <3>6, <3>7, <3>8, <3>9, <3>10
    <2> QED BY <2>2, LoadKeepsGrant
  <1>3. ASSUME NEW c \in Callers, Capture(c) PROVE GrantInv'
    <2> DEFINE old == IF Stored(calls[c].app) THEN apps[calls[c].app].status ELSE "none"
    <2>1. calls[c] # Idle /\ calls[c].app \in Applications /\ calls[c] \in Call
      BY <1>3 DEF Capture, LoanTypeOK, Idle, Call
    <2>2. calls'[c] = [phase |-> "captured", kind |-> calls[c].kind, app |-> calls[c].app,
                       copy |-> calls[c].copy, old |-> old]
      BY <1>3 DEF Capture, LoanTypeOK
    <2>3. apps' = apps /\ loans' = loans /\ revived' = revived
      BY <1>3 DEF Capture
    <2>4. old = "approved" => Stored(calls[c].app) /\ apps[calls[c].app].status = "approved"
      OBVIOUS
    <2>5. old = "none" => ~Stored(calls[c].app)
      BY <2>1 DEF LoanTypeOK, Row, Status
    <2>6. CallInv(c)'
      BY <2>1, <2>2, <2>3, <2>4, <2>5 DEF CallInv, Granted, Stored
    <2>7. ASSUME NEW d \in Callers \ {c} PROVE CallInv(d)'
      BY <1>3, <2>3, CallStays DEF Capture, LoanTypeOK, Stored
    <2>8. \A b \in Applications : Stored(b)' /\ apps'[b].status = "approved" => Granted(b)'
      BY <2>3, RowStays DEF Stored
    <2> QED BY <1>0, <2>6, <2>7, <2>8
  <1>4. ASSUME NEW c \in Callers, Save(c) PROVE GrantInv'
    <2> DEFINE call == calls[c]
    <2>0. PICK a \in Applications : a = call.app
      BY <1>4, WrittenType DEF Save
    <2>1. call \in Call /\ a = call.app /\ Written(call) \in Row /\ call.phase = "captured"
      BY <1>4, <2>0, WrittenType DEF Save
    <2>2. /\ Stored(a) /\ apps'[a] = Written(call) /\ calls'[c] = Idle
          /\ \A b \in Applications \ {a} : apps'[b] = apps[b]
          /\ \A d \in Callers \ {c} : calls'[d] = calls[d]
      BY <1>4, <2>1 DEF Save, Done, LoanTypeOK
    <2>3. ASSUME Stored(a)', apps'[a].status = "approved" PROVE Granted(a)'
      <3>1. CASE apps[a].status = "approved"
        BY <2>1, <2>2, <3>1, GrantedStays
      <3>2. CASE apps[a].status # "approved"
        <4>1. SavesAll(call.kind) /\ Written(call) = call.copy
          <5>1. [apps[a] EXCEPT !.deleted = call.copy.deleted].status = apps[a].status
            BY <2>1 DEF LoanTypeOK, Row
          <5> QED BY <2>1, <2>2, <2>3, <3>2, <5>1 DEF Written
        <4>2. call.copy.status = "approved"
          BY <2>2, <2>3, <4>1
        <4>3. CASE call.old \in {"approved", "none"}
          <5>1. Granted(a)
            BY <2>1, <2>2, <4>3 DEF CallInv, Granted, Idle
          <5> QED BY <2>1, <5>1, GrantedStays
        <4>4. CASE call.old \notin {"approved", "none"}
          <5>1. Starts(call)
            BY <4>2, <4>4 DEF Starts
          <5>2. loans'[a] = Append(loans[a], Written(call).amount)
            BY <1>4, <2>1, <4>2, <5>1 DEF Save, LoanTypeOK
          <5>3. loans[a] \in Seq(Amounts) /\ Written(call).amount \in Amounts
            BY <2>1 DEF LoanTypeOK, Row
          <5> QED BY <5>2, <5>3 DEF Granted
        <4> QED BY <4>3, <4>4
      <3> QED BY <3>1, <3>2
    <2>4. ASSUME NEW b \in Applications \ {a}
          PROVE  Stored(b)' /\ apps'[b].status = "approved" => Granted(b)'
      BY <2>2, RowStays DEF Stored
    <2>5. CallInv(c)'
      BY <2>2 DEF CallInv
    <2>6. \A d \in Callers : CallInv(d)'
      <3>1. call.copy.stored = "yes" /\ apps[a].stored = "yes"
        BY <2>1, <2>2 DEF CallInv, Idle, Stored
      <3>2. [apps[a] EXCEPT !.deleted = call.copy.deleted].stored = "yes"
        BY <2>1, <3>1 DEF LoanTypeOK, Row
      <3>3. apps'[a].stored = "yes"
        BY <2>1, <2>2, <3>1, <3>2 DEF Written
      <3>4. \A b \in Applications : apps[b].stored # "never" => apps'[b].stored # "never"
        BY <2>2, <3>3
      <3>5. \A b \in Applications : apps[b].stored = "purged" => ~Stored(b)' \/ b \in revived'
        BY <2>2, <3>1 DEF Stored
      <3> QED BY <2>2, <2>5, <3>4, <3>5, CallsStay
    <2> QED BY <1>0, <2>3, <2>4, <2>6
  <1>5. ASSUME NEW c \in Callers, Reinsert(c) PROVE GrantInv'
    <2>1. PICK a \in Applications : a = calls[c].app
      BY <1>5, WrittenType DEF Reinsert
    <2>2. /\ apps'[a] = calls[c].copy /\ calls'[c] = Idle /\ a \in revived'
          /\ \A b \in Applications \ {a} : apps'[b] = apps[b]
          /\ \A d \in Callers \ {c} : calls'[d] = calls[d]
      BY <1>5, <2>1 DEF Reinsert, Done, LoanTypeOK
    <2>3. ASSUME NEW b \in Applications \ {a}
          PROVE  Stored(b)' /\ apps'[b].status = "approved" => Granted(b)'
      BY <2>2, RowStays DEF Stored
    <2>4. Granted(a)'
      BY <2>2 DEF Granted
    <2>5. CallInv(c)'
      BY <2>2 DEF CallInv
    <2>6. calls[c].copy.stored = "yes"
      BY <1>5 DEF Reinsert, CallInv, Idle
    <2>7. \A b \in Applications : apps[b].stored # "never" => apps'[b].stored # "never"
      BY <2>2, <2>6
    <2>8. \A b \in Applications : apps[b].stored = "purged" => ~Stored(b)' \/ b \in revived'
      BY <2>2 DEF Stored
    <2>9. \A d \in Callers : CallInv(d)'
      BY <2>2, <2>5, <2>7, <2>8, CallsStay
    <2> QED BY <1>0, <2>3, <2>4, <2>9
  <1>6. ASSUME NEW c \in Callers, Remove(c) PROVE GrantInv'
    <2>1. PurgedRow.stored = "purged"
      BY AbsentRows DEF PurgedRow, NoRow, NewRow
    <2>2. /\ calls'[c] = Idle /\ \A d \in Callers \ {c} : calls'[d] = calls[d]
          /\ \A b \in Applications : apps'[b] = apps[b] \/ apps'[b] = PurgedRow
      BY <1>6 DEF Remove, Done, LoanTypeOK
    <2>3. \A b \in Applications : Stored(b)' /\ apps'[b].status = "approved" => Granted(b)'
      BY <2>1, <2>2, RowStays DEF Stored
    <2>4. CallInv(c)'
      BY <2>2 DEF CallInv
    <2>5. \A b \in Applications : apps[b].stored # "never" => apps'[b].stored # "never"
      BY <2>1, <2>2
    <2>6. \A b \in Applications : apps[b].stored = "purged" => ~Stored(b)' \/ b \in revived'
      BY <2>1, <2>2 DEF Stored
    <2>7. \A d \in Callers : CallInv(d)'
      BY <2>2, <2>4, <2>5, <2>6, CallsStay
    <2> QED BY <1>0, <2>3, <2>7
  <1>7. ASSUME NEW c \in Callers, RollBack(c) PROVE GrantInv'
    <2>1. calls'[c] = Idle /\ \A d \in Callers \ {c} : calls'[d] = calls[d]
      BY <1>7 DEF RollBack, Done, LoanTypeOK
    <2>2. apps' = apps
      BY <1>7 DEF RollBack
    <2>3. \A b \in Applications : Stored(b)' /\ apps'[b].status = "approved" => Granted(b)'
      BY <2>2, RowStays DEF Stored
    <2>4. CallInv(c)'
      BY <2>1 DEF CallInv
    <2>5. \A d \in Callers : CallInv(d)'
      BY <2>1, <2>2, <2>4, CallsStay DEF Stored
    <2> QED BY <1>0, <2>3, <2>5
  <1>8. CASE UNCHANGED loanVars
    BY <1>0, <1>8, RowStays, CallStays DEF loanVars, Stored
  <1> QED BY <1>1, <1>2, <1>3, <1>4, <1>5, <1>6, <1>7, <1>8 DEF LoanNext

\* However calls overlap, an approved application has a debt (ApprovedHasLoan), for any
\* number of applications and callers: post_save can start too many transitions, not too few.
THEOREM ApprovedIsGranted == LoanSpec => []ApprovedHasLoan
  <1>1. ASSUME LoanInit PROVE GrantInv
    <2>1. LoanTypeOK
      BY <1>1, AbsentRows DEF LoanInit, LoanTypeOK
    <2>2. NoRow.stored = "never"
      BY AbsentRows DEF NoRow, NewRow
    <2>3. \A a \in Applications : ~Stored(a)
      BY <1>1, <2>2 DEF LoanInit, Stored
    <2>4. \A c \in Callers : CallInv(c)
      BY <1>1 DEF LoanInit, CallInv
    <2> QED BY <2>1, <2>3, <2>4 DEF GrantInv
  <1>2. GrantInv => ApprovedHasLoan
    BY DEF GrantInv, ApprovedHasLoan, Granted
  <1> QED BY <1>1, <1>2, GrantStep, PTL DEF LoanSpec

(***************************************************************************)
(* The refinement.  As long as no two calls work on an application at the  *)
(* same time, what is stored of it follows LoanLifecycle, whatever happens *)
(* to the other applications.                                              *)
(***************************************************************************)

(***************************************************************************)
(* Applications nobody contests.                                           *)
(***************************************************************************)
\* What a call has in hand is the row as it is stored, changed the way its kind changes it.
Prepared(call, row) ==
  /\ call.phase = "captured" => call.old = row.status /\ call.kind # "purge"
  /\ call.kind # "upload"
  /\ call.copy.stored = "yes"
  /\ call.copy.status = IF call.kind = "approve" THEN "approved"
                        ELSE IF call.kind = "reject" THEN "rejected" ELSE row.status
  /\ call.kind # "update" => call.copy.amount = row.amount
  /\ call.copy.deleted = IF call.kind \in {"delete", "stale"} THEN TRUE
                         ELSE IF call.kind = "restore" THEN FALSE ELSE row.deleted
  /\ call.kind \in {"approve", "reject", "update", "delete"} =>
       row.status = "pending" /\ ~row.deleted
  /\ call.kind = "restore" => row.deleted
  /\ call.kind = "stale" => ~row.deleted /\ row.status # "approved"
  /\ call.kind = "purge" => row.status = "pending"

Booked(a) ==
  /\ loans[a] = IF Stored(a) /\ apps[a].status = "approved" THEN <<apps[a].amount>> ELSE <<>>
  /\ Stored(a) /\ apps[a].status = "approved" => ~apps[a].deleted

Alone(a) == \A c, d \in Callers : WorksOn(c, a) /\ WorksOn(d, a) => c = d

Steady(a) ==
  a \notin contested =>
    /\ Booked(a)
    /\ Alone(a)
    /\ \A c \in Callers : WorksOn(c, a) => Stored(a) /\ Prepared(calls[c], apps[a])

LifeInv == LoanTypeOK /\ \A a \in Applications : Steady(a)

(***************************************************************************)
(* The mapping.                                                            *)
(***************************************************************************)
Book == [a \in Applications |-> View(a)]

\* What is on file, pending or rejected, or granted.
LEMMA CaseIs ==
  /\ \A status \in {"pending", "rejected"}, amount \in Amounts, deleted \in BOOLEAN :
       Promised!Filed(status, amount, deleted, <<>>) \in Promised!Case
  /\ \A amount \in Amounts :
       Promised!Filed("approved", amount, FALSE, <<amount>>) \in Promised!Case
<1> DEFINE ungranted == {Promised!Filed(status, amount, deleted, <<>>) :
              status \in {"pending", "rejected"}, amount \in Amounts, deleted \in BOOLEAN}
           granted == {Promised!Filed("approved", amount, FALSE, <<amount>>) : amount \in Amounts}
<1>1. Promised!Case = ungranted \cup granted
  BY DEF Promised!Case
<1>2. \A status \in {"pending", "rejected"}, amount \in Amounts, deleted \in BOOLEAN :
        Promised!Filed(status, amount, deleted, <<>>) \in ungranted
  OBVIOUS
<1>3. \A amount \in Amounts : Promised!Filed("approved", amount, FALSE, <<amount>>) \in granted
  OBVIOUS
<1> HIDE DEF ungranted, granted
<1> QED BY <1>1, <1>2, <1>3

LEMMA ViewFiled ==
  ASSUME LoanTypeOK, NEW a \in Applications, a \notin contested, Stored(a), Booked(a)
  PROVE  /\ View(a) = Promised!Filed(apps[a].status, apps[a].amount, apps[a].deleted, loans[a])
         /\ View(a) \in Promised!Case
<1> DEFINE row == apps[a]
<1>1. row \in Row /\ row.stored = "yes"
  BY DEF LoanTypeOK, Stored
<1>2. row.status \in Status /\ row.amount \in Amounts /\ row.deleted \in BOOLEAN
  BY <1>1 DEF Row
<1>3. View(a) = Promised!Filed(row.status, row.amount, row.deleted, loans[a])
  BY <1>1 DEF View, Promised!Filed
<1>4. CASE row.status = "approved"
  <2>1. View(a) = Promised!Filed("approved", row.amount, FALSE, <<row.amount>>)
    BY <1>2, <1>3, <1>4 DEF Booked
  <2> QED BY <1>2, <1>3, <2>1, CaseIs
<1>5. CASE row.status # "approved"
  <2>1. View(a) = Promised!Filed(row.status, row.amount, row.deleted, <<>>)
    BY <1>3, <1>5 DEF Booked
  <2>2. row.status \in {"pending", "rejected"}
    BY <1>2, <1>5 DEF Status
  <2> QED BY <1>2, <1>3, <2>1, <2>2, CaseIs
<1> QED BY <1>4, <1>5

\* A step that shows in the view of one application only.
LEMMA BookStep ==
  ASSUME NEW a \in Applications, \A b \in Applications \ {a} : View(b)' = View(b)
  PROVE  Book' = [Book EXCEPT ![a] = View(a)'] /\ Book[a] = View(a)
BY DEF Book

LEMMA BookStutters ==
  ASSUME \A b \in Applications : View(b)' = View(b)
  PROVE  Book' = Book
BY DEF Book

\* An application that no step of its own touches.
LEMMA SteadyStays ==
  ASSUME NEW b \in Applications, Steady(b), apps'[b] = apps[b], loans'[b] = loans[b],
         b \in contested => b \in contested',
         \A c \in Callers : WorksOn(c, b)' => WorksOn(c, b) /\ calls'[c] = calls[c]
  PROVE  Steady(b)'
<1> SUFFICES ASSUME b \notin contested' PROVE Steady(b)'
  BY DEF Steady
<1>1. Booked(b)' /\ Alone(b)' /\ (Stored(b) <=> Stored(b)')
  BY DEF Steady, Booked, Alone, Stored
<1> QED BY <1>1 DEF Steady

LEMMA ViewStays ==
  ASSUME NEW b \in Applications, apps'[b] = apps[b], loans'[b] = loans[b],
         b \in contested <=> b \in contested'
  PROVE  View(b)' = View(b)
BY DEF View

(***************************************************************************)
(* Every step is one of the lifecycle, or none.                            *)
(***************************************************************************)
Implements == (\A a \in Applications : Steady(a)') /\ (Promised!Next \/ Book' = Book)

LEMMA SubmitImplements == ASSUME LifeInv, NEW a \in Applications, Submit(a) PROVE Implements
<1>1. LoanTypeOK /\ Steady(a)
  BY DEF LifeInv
<1>2. PICK amount \in Amounts : apps' = [apps EXCEPT ![a] = NewRow(amount)]
  BY DEF Submit
<1>3. /\ apps[a].stored = "never" /\ ~Stored(a) /\ UNCHANGED <<loans, calls, contested>>
      /\ apps'[a] = NewRow(amount) /\ \A b \in Applications \ {a} : apps'[b] = apps[b]
  BY <1>1, <1>2 DEF Submit, Stored, LoanTypeOK
<1>4. \A b \in Applications \ {a} : Steady(b)' /\ View(b)' = View(b)
  BY <1>3, SteadyStays, ViewStays DEF LifeInv, WorksOn
<1>5. CASE a \in contested
  <2>1. View(a)' = View(a) /\ Steady(a)'
    BY <1>3, <1>5 DEF View, Steady
  <2> QED BY <1>4, <2>1, BookStutters DEF Implements
<1>6. CASE a \notin contested
  <2>1. loans[a] = <<>> /\ \A c \in Callers : ~WorksOn(c, a)
    BY <1>1, <1>3, <1>6 DEF Steady, Booked
  <2>2. Steady(a)'
    BY <1>3, <2>1 DEF Steady, Booked, Alone, WorksOn, Stored, NewRow
  <2>3. View(a) = Promised!Unfiled /\ View(a)' = Promised!Filed("pending", amount, FALSE, <<>>)
    BY <1>3, <1>6, <2>1 DEF View, NewRow, Promised!Unfiled, Promised!Filed
  <2>4. Book' = [Book EXCEPT ![a] = Promised!Filed("pending", amount, FALSE, <<>>)]
        /\ Book[a] = Promised!Unfiled
    BY <1>4, <2>3, BookStep
  <2>5. Promised!Submit(a)
    BY <2>4 DEF Promised!Submit, Book
  <2> QED BY <1>4, <2>2, <2>5 DEF Implements, Promised!Next
<1> QED BY <1>5, <1>6

LEMMA LoadImplements ==
  ASSUME LifeInv, NEW c \in Callers, NEW kind \in Kind, NEW a \in Applications, NEW copy \in Row,
         Load(c, kind, a, copy), Stored(a),
         a \notin contested /\ kind # "upload" =>
           Prepared([phase |-> "loaded", kind |-> kind, app |-> a, copy |-> copy], apps[a])
  PROVE  Implements
<1> DEFINE call == [phase |-> "loaded", kind |-> kind, app |-> a, copy |-> copy]
<1>1. LoanTypeOK /\ \A b \in Applications : Steady(b)
  BY DEF LifeInv
<1>2. /\ UNCHANGED <<apps, loans>> /\ calls[c] = Idle /\ calls'[c] = call
      /\ \A d \in Callers \ {c} : calls'[d] = calls[d]
  BY <1>1 DEF Load, LoanTypeOK
<1>3. \A d \in Callers, b \in Applications \ {a} :
        WorksOn(d, b)' => WorksOn(d, b) /\ calls'[d] = calls[d]
  BY <1>2 DEF WorksOn
<1>4. \A b \in Applications \ {a} : b \in contested <=> b \in contested'
  BY DEF Load
<1>5. \A b \in Applications \ {a} : Steady(b)' /\ View(b)' = View(b)
  BY <1>1, <1>2, <1>3, <1>4, SteadyStays, ViewStays
<1>6. CASE a \in contested
  <2>1. View(a)' = View(a) /\ Steady(a)'
    BY <1>6 DEF View, Steady, Load
  <2> QED BY <1>5, <2>1, BookStutters DEF Implements
<1>7. CASE a \notin contested /\ (kind = "upload" \/ \E other \in Callers : WorksOn(other, a))
  <2>1. a \in contested'
    BY <1>7 DEF Load
  <2>2. View(a)' = Promised!Contested /\ Steady(a)'
    BY <2>1 DEF View, Steady, Promised!Contested
  <2>3. View(a) \in Promised!Case
    BY <1>1, <1>7, ViewFiled DEF Steady
  <2>4. Book' = [Book EXCEPT ![a] = Promised!Contested] /\ Book[a] \in Promised!Case
    BY <1>5, <2>2, <2>3, BookStep
  <2>5. Promised!Contest(a)
    BY <2>4 DEF Promised!Contest, Promised!OnFile, Book
  <2> QED BY <1>5, <2>2, <2>5 DEF Implements, Promised!Next
<1>8. CASE a \notin contested /\ kind # "upload" /\ ~\E other \in Callers : WorksOn(other, a)
  <2>1. contested' = contested
    BY <1>8 DEF Load
  <2>2. \A d \in Callers : WorksOn(d, a)' => d = c
    BY <1>2, <1>8 DEF WorksOn
  <2>3. Steady(a)'
    BY <1>1, <1>2, <1>8, <2>1, <2>2 DEF Steady, Booked, Alone, Stored
  <2>4. View(a)' = View(a)
    BY <1>2, <2>1 DEF View
  <2> QED BY <1>5, <2>3, <2>4, BookStutters DEF Implements
<1> QED BY <1>6, <1>7, <1>8

LEMMA LoadsImplement ==
  ASSUME LifeInv, NEW c \in Callers, NEW a \in Applications,
         \/ Approve(c, a) \/ Reject(c, a) \/ Update(c, a) \/ Delete(c, a)
         \/ Restore(c, a) \/ CleanUpStale(c, a) \/ PermanentDelete(c, a) \/ Upload(c, a)
  PROVE  Implements
<1> DEFINE row == apps[a]
           call(kind, copy) == [phase |-> "loaded", kind |-> kind, app |-> a, copy |-> copy]
<1>1. row \in Row
  BY DEF LifeInv, LoanTypeOK
<1>2. CASE Approve(c, a) \/ Reject(c, a)
  <2>1. Stored(a) /\ row.stored = "yes" /\ row.status = "pending" /\ ~row.deleted
    BY <1>2 DEF Approve, Reject, Visible, Stored
  <2>2. CASE Approve(c, a)
    <3>1. [row EXCEPT !.status = "approved"] \in Row
      BY <1>1 DEF Row, Status
    <3>2. Prepared(call("approve", [row EXCEPT !.status = "approved"]), row)
      BY <1>1, <2>1 DEF Prepared, Row
    <3> QED BY <2>1, <2>2, <3>1, <3>2, LoadImplements DEF Approve, Kind
  <2>3. CASE Reject(c, a)
    <3>1. [row EXCEPT !.status = "rejected"] \in Row
      BY <1>1 DEF Row, Status
    <3>2. Prepared(call("reject", [row EXCEPT !.status = "rejected"]), row)
      BY <1>1, <2>1 DEF Prepared, Row
    <3> QED BY <2>1, <2>3, <3>1, <3>2, LoadImplements DEF Reject, Kind
  <2> QED BY <1>2, <2>2, <2>3
<1>3. CASE Update(c, a)
  <2>1. Stored(a) /\ row.stored = "yes" /\ row.status = "pending" /\ ~row.deleted
    BY <1>3 DEF Update, Visible, Stored
  <2>2. PICK amount \in Amounts : Load(c, "update", a, [row EXCEPT !.amount = amount])
    BY <1>3 DEF Update
  <2>3. [row EXCEPT !.amount = amount] \in Row
    BY <1>1 DEF Row
  <2>4. Prepared(call("update", [row EXCEPT !.amount = amount]), row)
    BY <1>1, <2>1 DEF Prepared, Row
  <2> QED BY <2>1, <2>2, <2>3, <2>4, LoadImplements DEF Kind
<1>4. CASE Delete(c, a)
  <2>1. Stored(a) /\ row.stored = "yes" /\ row.status = "pending" /\ ~row.deleted
    BY <1>4 DEF Delete, Visible, Stored
  <2>2. [row EXCEPT !.deleted = TRUE] \in Row
    BY <1>1 DEF Row
  <2>3. Prepared(call("delete", [row EXCEPT !.deleted = TRUE]), row)
    BY <1>1, <2>1 DEF Prepared, Row
  <2> QED BY <1>4, <2>1, <2>2, <2>3, LoadImplements DEF Delete, Kind
<1>5. CASE Restore(c, a)
  <2>1. Stored(a) /\ row.stored = "yes" /\ row.deleted
    BY <1>5 DEF Restore, Stored
  <2>2. [row EXCEPT !.deleted = FALSE] \in Row
    BY <1>1 DEF Row
  <2>3. Prepared(call("restore", [row EXCEPT !.deleted = FALSE]), row)
    BY <1>1, <2>1 DEF Prepared, Row
  <2> QED BY <1>5, <2>1, <2>2, <2>3, LoadImplements DEF Restore, Kind
<1>6. CASE CleanUpStale(c, a)
  <2>1. Stored(a) /\ row.stored = "yes" /\ ~row.deleted /\ row.status # "approved"
    BY <1>6 DEF CleanUpStale, Visible, Stored
  <2>2. [row EXCEPT !.deleted = TRUE] \in Row
    BY <1>1 DEF Row
  <2>3. Prepared(call("stale", [row EXCEPT !.deleted = TRUE]), row)
    BY <1>1, <2>1 DEF Prepared, Row
  <2> QED BY <1>6, <2>1, <2>2, <2>3, LoadImplements DEF CleanUpStale, Kind
<1>7. CASE PermanentDelete(c, a)
  <2>1. Stored(a) /\ row.stored = "yes" /\ row.status = "pending"
    BY <1>7 DEF PermanentDelete, Stored
  <2>2. Prepared(call("purge", row), row)
    BY <1>1, <2>1 DEF Prepared, Row
  <2> QED BY <1>1, <1>7, <2>1, <2>2, LoadImplements DEF PermanentDelete, Kind
<1>8. CASE Upload(c, a)
  <2>1. Stored(a)
    BY <1>8 DEF Upload
  <2>2. LoanTypeOK
    BY DEF LifeInv
  <2> QED BY <1>8, <2>1, <2>2, UploadedRows, LoadImplements DEF Upload, Kind
<1> QED BY <1>2, <1>3, <1>4, <1>5, <1>6, <1>7, <1>8

LEMMA CallOf ==
  ASSUME LifeInv, NEW c \in Callers, calls[c] # Idle
  PROVE  /\ calls[c] \in Call /\ calls[c].app \in Applications /\ WorksOn(c, calls[c].app)
         /\ calls[c].app \notin contested =>
              /\ Booked(calls[c].app) /\ Stored(calls[c].app)
              /\ Prepared(calls[c], apps[calls[c].app])
              /\ \A d \in Callers : WorksOn(d, calls[c].app) => d = c
<1>1. calls[c] \in Call
  BY DEF LifeInv, LoanTypeOK
<1>2. calls[c].app \in Applications
  BY <1>1 DEF Call
<1>3. WorksOn(c, calls[c].app)
  BY DEF WorksOn
<1> QED BY <1>1, <1>2, <1>3 DEF LifeInv, Steady, Alone

LEMMA CaptureImplements == ASSUME LifeInv, NEW c \in Callers, Capture(c) PROVE Implements
<1>1. calls[c] # Idle /\ UNCHANGED <<apps, loans, contested>>
  BY DEF Capture, Idle
<1>2. calls[c] \in Call
  BY <1>1, CallOf
<1>3. PICK a \in Applications : a = calls[c].app
  BY <1>1, CallOf
<1> DEFINE old == IF Stored(a) THEN apps[a].status ELSE "none"
           next == [phase |-> "captured", kind |-> calls[c].kind, app |-> a,
                    copy |-> calls[c].copy, old |-> old]
<1>4. calls'[c] = next /\ \A d \in Callers \ {c} : calls'[d] = calls[d]
  BY <1>3 DEF Capture, LifeInv, LoanTypeOK
<1>5. ASSUME NEW b \in Applications, b # a PROVE Steady(b)'
  BY <1>1, <1>4, <1>5, SteadyStays DEF WorksOn, LifeInv
<1>6. Steady(a)'
  <2> SUFFICES ASSUME a \notin contested PROVE Steady(a)'
    BY <1>1 DEF Steady
  <2>1. /\ Booked(a) /\ Stored(a) /\ Prepared(calls[c], apps[a])
        /\ \A d \in Callers : WorksOn(d, a) => d = c
    BY <1>1, <1>3, CallOf
  <2>2. Prepared(next, apps[a])
    BY <1>2, <2>1 DEF Prepared, Capture
  <2>3. \A d \in Callers : WorksOn(d, a)' => d = c
    BY <1>4, <2>1 DEF WorksOn
  <2>4. Booked(a)' /\ Stored(a)' /\ Alone(a)'
    BY <1>1, <2>1, <2>3 DEF Booked, Stored, Alone
  <2> QED BY <1>1, <1>4, <2>2, <2>3, <2>4 DEF Steady
<1>7. \A b \in Applications : View(b)' = View(b)
  BY <1>1, ViewStays
<1> QED BY <1>5, <1>6, <1>7, BookStutters DEF Implements

\* When a call ends, nobody works on its application, unless it is contested.
LEMMA DoneSteady ==
  ASSUME LifeInv, NEW c \in Callers, calls[c] # Idle, Done(c), UNCHANGED contested,
         NEW a \in Applications, a = calls[c].app,
         \A b \in Applications \ {a} : apps'[b] = apps[b] /\ loans'[b] = loans[b],
         a \notin contested => Booked(a)'
  PROVE  /\ \A b \in Applications : Steady(b)'
         /\ \A b \in Applications \ {a} : View(b)' = View(b)
<1>1. calls'[c] = Idle /\ \A d \in Callers \ {c} : calls'[d] = calls[d]
  BY DEF Done, LifeInv, LoanTypeOK
<1>2. ASSUME NEW b \in Applications, b # a PROVE Steady(b)'
  BY <1>1, <1>2, SteadyStays DEF WorksOn, LifeInv
<1>3. Steady(a)'
  <2> SUFFICES ASSUME a \notin contested PROVE Steady(a)'
    BY DEF Steady
  <2>1. \A d \in Callers : WorksOn(d, a) => d = c
    BY CallOf
  <2>2. \A d \in Callers : ~WorksOn(d, a)'
    BY <1>1, <2>1 DEF WorksOn
  <2> QED BY <2>2 DEF Steady, Alone
<1> QED BY <1>2, <1>3, ViewStays

\* And what it did to a contested one does not show.
LEMMA ContestedImplements ==
  ASSUME LifeInv, NEW c \in Callers, calls[c] # Idle, Done(c), UNCHANGED contested,
         NEW a \in Applications, a = calls[c].app, a \in contested,
         \A b \in Applications \ {a} : apps'[b] = apps[b] /\ loans'[b] = loans[b]
  PROVE  Implements
<1>1. View(a)' = View(a)
  BY DEF View
<1> QED BY <1>1, DoneSteady, BookStutters DEF Implements

LEMMA RollBackImplements == ASSUME LifeInv, NEW c \in Callers, RollBack(c) PROVE Implements
<1>1. PICK a \in Applications : a = calls[c].app
  BY CallOf DEF RollBack
<1>2. a \notin contested => Booked(a)'
  BY <1>1, CallOf DEF RollBack, Booked, Stored
<1>3. \A b \in Applications : View(b)' = View(b)
  BY ViewStays DEF RollBack
<1> QED BY <1>1, <1>2, <1>3, DoneSteady, BookStutters DEF RollBack, Implements

LEMMA ReinsertImplements == ASSUME LifeInv, NEW c \in Callers, Reinsert(c) PROVE Implements
<1>1. calls[c] # Idle
  BY DEF Reinsert, Idle
<1>2. PICK a \in Applications : a = calls[c].app
  BY <1>1, CallOf
<1>3. a \in contested
  BY <1>1, <1>2, CallOf DEF Reinsert
<1>4. \A b \in Applications \ {a} : apps'[b] = apps[b] /\ loans'[b] = loans[b]
  BY <1>2 DEF Reinsert, LifeInv, LoanTypeOK
<1> QED BY <1>1, <1>2, <1>3, <1>4, ContestedImplements DEF Reinsert

LEMMA RemoveImplements == ASSUME LifeInv, NEW c \in Callers, Remove(c) PROVE Implements
<1>1. calls[c] # Idle /\ Done(c) /\ UNCHANGED <<loans, contested>>
  BY DEF Remove, Idle
<1>2. PICK a \in Applications : a = calls[c].app
  BY <1>1, CallOf
<1>3. \A b \in Applications \ {a} : apps'[b] = apps[b] /\ loans'[b] = loans[b]
  BY <1>2 DEF Remove, LifeInv, LoanTypeOK
<1>4. CASE a \in contested
  BY <1>1, <1>2, <1>3, <1>4, ContestedImplements
<1>5. CASE a \notin contested
  <2>1. Stored(a) /\ Booked(a) /\ Prepared(calls[c], apps[a])
    BY <1>1, <1>2, <1>5, CallOf
  <2>2. apps[a].status = "pending" /\ apps'[a] = PurgedRow
    BY <1>2, <2>1 DEF Prepared, Remove, LifeInv, LoanTypeOK
  <2>3. loans[a] = <<>> /\ PurgedRow.stored = "purged"
    BY <2>1, <2>2 DEF Booked, PurgedRow, NoRow, NewRow
  <2>4. Booked(a)'
    BY <1>1, <2>2, <2>3 DEF Booked, Stored
  <2>5. View(a)' = Promised!Purged
    BY <1>1, <1>5, <2>2, <2>3 DEF View, Promised!Purged
  <2>6. View(a) \in Promised!Case /\ View(a).status = "pending"
    BY <1>5, <2>1, <2>2, ViewFiled DEF LifeInv, Promised!Filed
  <2>7. (\A b \in Applications : Steady(b)') /\ \A b \in Applications \ {a} : View(b)' = View(b)
    BY <1>1, <1>2, <1>3, <2>4, DoneSteady
  <2>8. Book' = [Book EXCEPT ![a] = Promised!Purged] /\ Book[a] = View(a)
    BY <2>5, <2>7, BookStep
  <2>9. Promised!Discard(a)
    BY <2>6, <2>8 DEF Promised!Discard, Promised!OnFile, Book
  <2> QED BY <2>7, <2>9 DEF Implements, Promised!Next
<1> QED BY <1>4, <1>5

\* A prepared call writes its copy, and starts what its kind is for.
LEMMA PreparedSaves ==
  ASSUME LifeInv, NEW c \in Callers, Save(c), NEW a \in Applications, a = calls[c].app,
         a \notin contested
  PROVE  LET call == calls[c]
         IN  /\ apps'[a] = [stored |-> "yes", status |-> call.copy.status,
                            amount |-> call.copy.amount, deleted |-> call.copy.deleted]
             /\ loans'[a] = IF call.kind = "approve" THEN <<call.copy.amount>> ELSE loans[a]
             /\ call.kind = "approve" => loans[a] = <<>>
<1>1. calls[c] # Idle /\ calls[c].phase = "captured"
  BY DEF Save, Idle
<1>2. /\ Booked(a) /\ Stored(a) /\ Prepared(calls[c], apps[a]) /\ calls[c] \in Call
  BY <1>1, CallOf
<1>3. apps[a] \in Row /\ apps[a].stored = "yes" /\ calls[c].copy \in Row /\ calls[c].kind \in Kind
  BY <1>2 DEF LifeInv, LoanTypeOK, Stored, Call
<1> DEFINE new == [stored |-> "yes", status |-> calls[c].copy.status,
                   amount |-> calls[c].copy.amount, deleted |-> calls[c].copy.deleted]
<1>4. calls[c].copy = new
  BY <1>2, <1>3 DEF Prepared, Row
<1>5. ASSUME SavesAll(calls[c].kind) PROVE Written(calls[c]) = new
  BY <1>4, <1>5 DEF Written
<1>6. ASSUME ~SavesAll(calls[c].kind) PROVE Written(calls[c]) = new
  <2>1. calls[c].copy.status = apps[a].status /\ calls[c].copy.amount = apps[a].amount
    BY <1>2, <1>6 DEF Prepared, SavesAll
  <2>2. [apps[a] EXCEPT !.deleted = calls[c].copy.deleted] = new
    BY <1>3, <2>1 DEF Row
  <2> QED BY <1>2, <1>6, <2>2 DEF Written
<1>7. Written(calls[c]) = new
  BY <1>5, <1>6
<1>8. apps'[a] = new
  BY <1>7 DEF Save, LifeInv, LoanTypeOK
<1>9. calls[c].old = apps[a].status /\ apps[a].status \in Status
  BY <1>1, <1>2, <1>3 DEF Prepared, Row
<1>10. Starts(calls[c]) /\ calls[c].copy.status = "approved" <=> calls[c].kind = "approve"
  BY <1>2, <1>9 DEF Prepared, Starts, Status
<1>11. calls[c].kind = "approve" => loans[a] = <<>>
  BY <1>2 DEF Prepared, Booked
<1>12. loans'[a] = IF calls[c].kind = "approve" THEN Append(loans[a], new.amount) ELSE loans[a]
  BY <1>7, <1>10 DEF Save, LifeInv, LoanTypeOK
<1>13. Append(<<>>, new.amount) = <<calls[c].copy.amount>>
  OBVIOUS
<1> QED BY <1>8, <1>11, <1>12, <1>13

LEMMA SaveImplements == ASSUME LifeInv, NEW c \in Callers, Save(c) PROVE Implements
<1>1. calls[c] # Idle /\ Done(c) /\ UNCHANGED contested
  BY DEF Save, Idle
<1>2. PICK a \in Applications : a = calls[c].app
  BY <1>1, CallOf
<1>3. \A b \in Applications \ {a} : apps'[b] = apps[b] /\ loans'[b] = loans[b]
  BY <1>2 DEF Save, LifeInv, LoanTypeOK
<1>4. CASE a \in contested
  BY <1>1, <1>2, <1>3, <1>4, ContestedImplements
<1>5. CASE a \notin contested
  <2> DEFINE call == calls[c]
             row == apps[a]
  <2>1. Stored(a) /\ Booked(a) /\ Prepared(call, row) /\ call \in Call
    BY <1>1, <1>2, <1>5, CallOf
  <2>2. /\ apps'[a] = [stored |-> "yes", status |-> call.copy.status,
                       amount |-> call.copy.amount, deleted |-> call.copy.deleted]
        /\ loans'[a] = IF call.kind = "approve" THEN <<call.copy.amount>> ELSE loans[a]
        /\ call.kind = "approve" => loans[a] = <<>>
    BY <1>2, <1>5, PreparedSaves
  <2>3. /\ row \in Row /\ row.amount \in Amounts /\ row.deleted \in BOOLEAN
        /\ call.kind \in Kind \ {"purge", "upload"} /\ call.copy.amount \in Amounts
    BY <2>1 DEF LifeInv, LoanTypeOK, Row, Call, Prepared, Save
  <2>4. Booked(a)'
    BY <2>1, <2>2 DEF Booked, Stored, Prepared
  <2>5. (\A b \in Applications : Steady(b)') /\ \A b \in Applications \ {a} : View(b)' = View(b)
    BY <1>1, <1>2, <1>3, <2>4, DoneSteady
  <2>6. /\ View(a) = Promised!Filed(row.status, row.amount, row.deleted, loans[a])
        /\ View(a) \in Promised!Case
    BY <1>5, <2>1, ViewFiled DEF LifeInv
  <2> DEFINE seen == Promised!Filed(call.copy.status, call.copy.amount, call.copy.deleted,
                       IF call.kind = "approve" THEN <<call.copy.amount>> ELSE loans[a])
  <2>7. View(a)' = seen
    BY <1>1, <1>5, <2>2 DEF View, Promised!Filed
  <2>8. Book' = [Book EXCEPT ![a] = seen] /\ Book[a] = View(a)
    BY <2>5, <2>7, BookStep
  <2>9. Promised!Next
    <3>1. CASE call.kind = "approve"
      <4>1. seen = Promised!Filed("approved", View(a).amount, FALSE, <<View(a).amount>>)
        <5>1. /\ call.copy.status = "approved" /\ call.copy.amount = row.amount
              /\ call.copy.deleted = FALSE
          BY <2>1, <2>3, <3>1 DEF Prepared
        <5>2. View(a).amount = row.amount
          BY <2>6 DEF Promised!Filed
        <5> QED BY <3>1, <5>1, <5>2
      <4>2. Promised!Open(a)
        BY <2>1, <2>6, <3>1 DEF Promised!Open, Promised!OnFile, Prepared, Promised!Filed
      <4>3. Promised!Grant(a)
        BY <2>8, <4>1, <4>2 DEF Promised!Grant, Book
      <4> QED BY <4>3 DEF Promised!Next
    <3>2. CASE call.kind = "reject"
      <4>1. seen = [View(a) EXCEPT !.status = "rejected"]
        BY <2>1, <2>6, <3>2 DEF Prepared, Promised!Filed
      <4>2. Promised!Open(a)
        BY <2>1, <2>6, <3>2 DEF Promised!Open, Promised!OnFile, Prepared, Promised!Filed
      <4>3. Promised!Refuse(a)
        BY <2>8, <4>1, <4>2 DEF Promised!Refuse, Book
      <4> QED BY <4>3 DEF Promised!Next
    <3>3. CASE call.kind = "update"
      <4>1. seen = [View(a) EXCEPT !.amount = call.copy.amount]
        BY <2>1, <2>6, <3>3 DEF Prepared, Promised!Filed
      <4>2. Promised!Open(a)
        BY <2>1, <2>6, <3>3 DEF Promised!Open, Promised!OnFile, Prepared, Promised!Filed
      <4>3. Promised!Edit(a)
        BY <2>3, <2>8, <4>1, <4>2 DEF Promised!Edit, Book
      <4> QED BY <4>3 DEF Promised!Next
    <3>4. CASE call.kind \in {"delete", "stale"}
      <4>1. View(a).status = row.status /\ View(a).amount = row.amount
            /\ View(a).deleted = row.deleted /\ View(a).granted = loans[a]
        BY <2>6 DEF Promised!Filed
      <4>2. /\ call.copy.status = row.status /\ call.copy.amount = row.amount
            /\ call.copy.deleted = TRUE /\ row.status # "approved" /\ ~row.deleted
        BY <2>1, <3>4 DEF Prepared
      <4>3. seen = Promised!Filed(View(a).status, View(a).amount, TRUE, View(a).granted)
        BY <3>4, <4>1, <4>2
      <4>4. Promised!PutAside(a)
        BY <2>6, <2>8, <4>1, <4>2, <4>3 DEF Promised!PutAside, Promised!OnFile, Book
      <4> QED BY <4>4 DEF Promised!Next
    <3>5. CASE call.kind = "restore"
      <4>1. View(a).status = row.status /\ View(a).amount = row.amount
            /\ View(a).deleted = row.deleted /\ View(a).granted = loans[a]
        BY <2>6 DEF Promised!Filed
      <4>2. /\ call.copy.status = row.status /\ call.copy.amount = row.amount
            /\ call.copy.deleted = FALSE /\ row.deleted
        BY <2>1, <3>5 DEF Prepared
      <4>3. seen = Promised!Filed(View(a).status, View(a).amount, FALSE, View(a).granted)
        BY <3>5, <4>1, <4>2
      <4>4. Promised!TakeBack(a)
        BY <2>6, <2>8, <4>1, <4>2, <4>3 DEF Promised!TakeBack, Promised!OnFile, Book
      <4> QED BY <4>4 DEF Promised!Next
    <3> QED BY <2>3, <3>1, <3>2, <3>3, <3>4, <3>5 DEF Kind
  <2> QED BY <2>5, <2>9 DEF Implements
<1> QED BY <1>4, <1>5

(***************************************************************************)
(* The theorem.                                                            *)
(***************************************************************************)
LEMMA LifeStep == LifeInv /\ [LoanNext]_loanVars => LifeInv' /\ [Promised!Next]_Book
<1> SUFFICES ASSUME LifeInv, [LoanNext]_loanVars PROVE LifeInv' /\ [Promised!Next]_Book
  OBVIOUS
<1>1. LoanTypeOK'
  BY LoanTypeStep DEF LifeInv
<1>2. CASE UNCHANGED loanVars
  <2>1. \A b \in Applications : View(b)' = View(b)
    BY <1>2, ViewStays DEF loanVars
  <2>2. \A b \in Applications : Steady(b)'
    BY <1>2, SteadyStays DEF loanVars, WorksOn, LifeInv
  <2> QED BY <1>1, <2>1, <2>2, BookStutters DEF LifeInv
<1>3. CASE LoanNext
  <2>1. Implements
    BY <1>3, SubmitImplements, LoadsImplement, CaptureImplements, SaveImplements,
       ReinsertImplements, RemoveImplements, RollBackImplements DEF LoanNext
  <2> QED BY <1>1, <2>1 DEF Implements, LifeInv
<1> QED BY <1>2, <1>3

LEMMA LifeInit == LoanInit => LifeInv /\ Promised!Init
<1> SUFFICES ASSUME LoanInit PROVE LifeInv /\ Promised!Init
  OBVIOUS
<1>1. LoanTypeOK
  BY AbsentRows DEF LoanInit, LoanTypeOK
<1>2. \A a \in Applications : apps[a].stored = "never" /\ loans[a] = <<>> /\ a \notin contested
  BY DEF LoanInit, NoRow, NewRow
<1>3. \A c \in Callers, a \in Applications : ~WorksOn(c, a)
  BY DEF LoanInit, WorksOn
<1>4. \A a \in Applications : Steady(a)
  BY <1>2, <1>3 DEF Steady, Booked, Alone, Stored
<1>5. \A a \in Applications : View(a) = Promised!Unfiled
  BY <1>2 DEF View, Promised!Unfiled
<1> QED BY <1>1, <1>4, <1>5 DEF LifeInv, Promised!Init

(* The workflow implements the lifecycle: of an application that no two    *)
(* calls have worked on at a time and no phone has uploaded, the office    *)
(* sees what it was promised, approval or rejection once, and one loan for *)
(* the amount filed, whatever calls and uploads do to the others.          *)
THEOREM WorkflowImplementsLifecycle == LoanSpec => FollowsLifecycle
<1>1. LoanInit => LifeInv /\ Promised!Init
  BY LifeInit
<1>2. LifeInv /\ [LoanNext]_loanVars => LifeInv' /\ [Promised!Next]_Book
  BY LifeStep
<1> QED BY <1>1, <1>2, PTL DEF LoanSpec, FollowsLifecycle, Promised!Spec, Book

(***************************************************************************)
(* Debts are created as approved.                                          *)
(***************************************************************************)
\* A call that is no approval has an approved copy only of a row that was granted a debt.
CopiesGranted ==
  \A c \in Callers : calls[c] # Idle /\ calls[c].kind \notin {"approve", "upload"}
                     /\ calls[c].copy.status = "approved" => Granted(calls[c].app)

DebtInv == LifeInv /\ GrantInv /\ CopiesGranted

LEMMA CopiesStep ==
  ASSUME LifeInv, GrantInv, CopiesGranted, LoanNext
  PROVE  CopiesGranted'
<1> LoanTypeOK
  BY DEF LifeInv
<1>1. ASSUME NEW c \in Callers, calls'[c] # Idle, calls'[c].kind \notin {"approve", "upload"},
             calls'[c].copy.status = "approved", calls[c] # Idle,
             calls'[c].app = calls[c].app, calls'[c].kind = calls[c].kind,
             calls'[c].copy = calls[c].copy, NEW a \in Applications, a = calls[c].app
      PROVE  Granted(a)'
  BY <1>1, GrantedStays DEF CopiesGranted
<1>2. ASSUME NEW c \in Callers, NEW kind, NEW a \in Applications, NEW copy \in Row,
             Load(c, kind, a, copy),
             kind \notin {"approve", "upload"} /\ copy.status = "approved" => Granted(a)
      PROVE  CopiesGranted'
  <2>1. /\ calls'[c] = [phase |-> "loaded", kind |-> kind, app |-> a, copy |-> copy]
        /\ \A d \in Callers \ {c} : calls'[d] = calls[d]
    BY <1>2 DEF Load, LoanTypeOK
  <2>2. UNCHANGED <<loans, revived>>
    BY <1>2 DEF Load
  <2> QED BY <1>2, <2>1, <2>2 DEF CopiesGranted, Granted
<1>3. ASSUME NEW c \in Callers, NEW a \in Applications,
             \/ Approve(c, a) \/ Reject(c, a) \/ Update(c, a) \/ Delete(c, a)
             \/ Restore(c, a) \/ CleanUpStale(c, a) \/ PermanentDelete(c, a) \/ Upload(c, a)
      PROVE  CopiesGranted'
  <2>1. apps[a] \in Row /\ (Stored(a) /\ apps[a].status = "approved" => Granted(a))
    BY DEF LoanTypeOK, GrantInv
  <2>2. /\ [apps[a] EXCEPT !.status = "approved"] \in Row
        /\ [apps[a] EXCEPT !.status = "rejected"] \in Row
        /\ [apps[a] EXCEPT !.status = "rejected"].status = "rejected"
    BY <2>1 DEF Row, Status
  <2>3. /\ [apps[a] EXCEPT !.deleted = TRUE] \in Row /\ [apps[a] EXCEPT !.deleted = FALSE] \in Row
        /\ [apps[a] EXCEPT !.deleted = TRUE].status = apps[a].status
        /\ [apps[a] EXCEPT !.deleted = FALSE].status = apps[a].status
    BY <2>1 DEF Row
  <2>4. \A amount \in Amounts : /\ [apps[a] EXCEPT !.amount = amount] \in Row
                                /\ [apps[a] EXCEPT !.amount = amount].status = apps[a].status
    BY <2>1 DEF Row
  <2>5. CASE Approve(c, a) \/ Reject(c, a)
    BY <1>2, <2>2, <2>5 DEF Approve, Reject
  <2>6. CASE Update(c, a)
    BY <1>2, <2>1, <2>4, <2>6 DEF Update, Visible
  <2>7. CASE Delete(c, a) \/ CleanUpStale(c, a)
    BY <1>2, <2>1, <2>3, <2>7 DEF Delete, CleanUpStale, Visible
  <2>8. CASE Restore(c, a) \/ PermanentDelete(c, a)
    BY <1>2, <2>1, <2>3, <2>8 DEF Restore, PermanentDelete
  <2>9. CASE Upload(c, a)
    BY <1>2, <2>9, UploadedRows DEF Upload
  <2> QED BY <1>3, <2>5, <2>6, <2>7, <2>8, <2>9
<1>4. ASSUME \A d \in Callers : calls'[d] = Idle \/
               /\ calls[d] # Idle /\ calls'[d].app = calls[d].app
               /\ calls'[d].kind = calls[d].kind /\ calls'[d].copy = calls[d].copy
      PROVE  CopiesGranted'
  <2>1. ASSUME NEW d \in Callers, calls'[d] # Idle, calls'[d].kind \notin {"approve", "upload"},
               calls'[d].copy.status = "approved"
        PROVE  loans'[calls'[d].app] # <<>> \/ calls'[d].app \in revived'
    <3>1. PICK a \in Applications : a = calls[d].app
      BY <1>4, <2>1, CallOf
    <3> QED BY <1>1, <1>4, <2>1, <3>1 DEF Granted
  <2> QED BY <2>1 DEF CopiesGranted, Granted
<1>5. ASSUME NEW c \in Callers, Capture(c) PROVE CopiesGranted'
  BY <1>4, <1>5 DEF Capture, LoanTypeOK, Idle
<1>6. ASSUME NEW c \in Callers, Save(c) \/ Reinsert(c) \/ Remove(c) \/ RollBack(c)
      PROVE  CopiesGranted'
  BY <1>4, <1>6 DEF Save, Reinsert, Remove, RollBack, Done, LoanTypeOK
<1>7. ASSUME NEW a \in Applications, Submit(a) PROVE CopiesGranted'
  BY <1>4, <1>7 DEF Submit
<1> QED BY <1>3, <1>5, <1>6, <1>7 DEF LoanNext

\* What the creation of a debt may look like.
AsApproved(a) ==
  loans'[a] # loans[a] =>
    /\ loans'[a] = Append(loans[a], apps'[a].amount)
    /\ \E c \in Callers :
         /\ WorksOn(c, a) /\ calls[c].copy.status = "approved"
         /\ calls[c].kind \in {"approve", "upload"} => calls[c].copy.amount = apps'[a].amount
         /\ calls[c].kind = "restore" =>
              a \in contested /\ (loans[a] # <<>> \/ a \in revived)

LEMMA SaveAsApproved ==
  ASSUME DebtInv, NEW c \in Callers, Save(c), NEW a \in Applications
  PROVE  AsApproved(a)
<1> SUFFICES ASSUME loans'[a] # loans[a]
             PROVE  /\ loans'[a] = Append(loans[a], apps'[a].amount)
                    /\ WorksOn(c, a) /\ calls[c].copy.status = "approved"
                    /\ calls[c].kind \in {"approve", "upload"} =>
                         calls[c].copy.amount = apps'[a].amount
                    /\ calls[c].kind = "restore" => a \in contested /\ Granted(a)
  BY DEF AsApproved, Granted
<1>1. LoanTypeOK /\ LifeInv /\ CopiesGranted
  BY DEF DebtInv, LifeInv
<1>2. calls[c] # Idle /\ calls[c].phase = "captured"
  BY DEF Save, Idle
<1>3. /\ a = calls[c].app /\ Starts(calls[c]) /\ calls[c].copy.status = "approved"
      /\ loans'[a] = Append(loans[a], Written(calls[c]).amount)
      /\ apps'[a] = Written(calls[c])
  BY <1>1 DEF Save, LoanTypeOK
<1>4. calls[c].kind \in {"approve", "upload"} => Written(calls[c]) = calls[c].copy
  BY DEF Written, SavesAll
<1>5. ASSUME calls[c].kind = "restore" PROVE a \in contested /\ Granted(a)
  <2>1. Granted(a)
    BY <1>1, <1>2, <1>3, <1>5 DEF CopiesGranted
  <2>2. ASSUME a \notin contested PROVE FALSE
    <3>1. Prepared(calls[c], apps[a])
      BY <1>1, <1>2, <1>3, <2>2, CallOf
    <3> QED BY <1>2, <1>3, <1>5, <3>1 DEF Prepared, Starts
  <2> QED BY <2>1, <2>2
<1> QED BY <1>2, <1>3, <1>4, <1>5 DEF WorksOn

LEMMA DebtStep ==
  DebtInv /\ [LoanNext]_loanVars
    => DebtInv' /\ [\A a \in Applications : AsApproved(a)]_loanVars
<1> SUFFICES ASSUME DebtInv, [LoanNext]_loanVars
             PROVE  DebtInv' /\ [\A a \in Applications : AsApproved(a)]_loanVars
  OBVIOUS
<1>1. LifeInv' /\ GrantInv'
  BY LifeStep, GrantStep DEF DebtInv
<1>2. CASE UNCHANGED loanVars
  <2>1. CopiesGranted'
    BY <1>2 DEF loanVars, DebtInv, CopiesGranted, Granted
  <2>2. DebtInv'
    BY <1>1, <2>1 DEF DebtInv
  <2> QED BY <1>2, <2>2
<1>3. CASE LoanNext
  <2>1. CopiesGranted'
    BY <1>3, CopiesStep DEF DebtInv
  <2>2. ASSUME NEW c \in Callers, Save(c) PROVE \A a \in Applications : AsApproved(a)
    BY <2>2, SaveAsApproved
  <2>3. ASSUME UNCHANGED loans PROVE \A a \in Applications : AsApproved(a)
    BY <2>3 DEF AsApproved
  <2>4. UNCHANGED loans \/ \E c \in Callers : Save(c)
    BY <1>3 DEF LoanNext, Submit, Approve, Reject, Update, Delete, Restore, CleanUpStale,
       PermanentDelete, Upload, Load, Capture, Reinsert, Remove, RollBack
  <2> QED BY <1>1, <2>1, <2>2, <2>3, <2>4 DEF DebtInv
<1> QED BY <1>2, <1>3

LEMMA DebtInit == LoanInit => DebtInv
<1> SUFFICES ASSUME LoanInit PROVE DebtInv
  OBVIOUS
<1>1. LifeInv /\ LoanTypeOK
  BY LifeInit DEF LifeInv
<1>2. GrantInv /\ CopiesGranted
  BY <1>1 DEF LoanInit, GrantInv, CallInv, CopiesGranted, NoRow, NewRow, Stored
<1> QED BY <1>1, <1>2 DEF DebtInv

(* A debt is created by the save of an approval for the amount the         *)
(* approver saw, by an upload for the amount it carries, or, of an         *)
(* application several calls worked on, by a restoration after an edit.    *)
THEOREM DebtsAreAsApproved == LoanSpec => LoanAsApproved
<1>1. LoanInit => DebtInv
  BY DebtInit
<1>2. DebtInv /\ [LoanNext]_loanVars
        => DebtInv' /\ [\A a \in Applications : AsApproved(a)]_loanVars
  BY DebtStep
<1> QED BY <1>1, <1>2, PTL DEF LoanSpec, LoanAsApproved, AsApproved
================================================================================
