------------------------------ MODULE LoanWorkflow ------------------------------
(***************************************************************************)
(* Loan applications, from submission to the debt an approval creates.     *)
(*                                                                         *)
(* Every call is a transaction at READ COMMITTED that loads the row        *)
(* without locking it, checks its status, and saves it.  The save is three *)
(* steps of Django: pre_save reads the stored status again, the UPDATE     *)
(* writes (all fields of the copy, unless told which), and post_save       *)
(* compares the two statuses and starts the transition.  The UPDATE takes  *)
(* the row's lock until the commit, so from there on the call is one step. *)
(***************************************************************************)
EXTENDS Naturals, Sequences, FiniteSets

CONSTANTS
  Applications,  \* identifiers of loan applications
  Amounts,       \* requested amounts
  Callers,       \* requests and workers at work at the same time
  Uploadable,    \* statuses that an application uploaded by a phone may carry
  MaxLoans       \* bound: loans of an application after which it is not approved again

ASSUME LoanAssumption ==
  /\ Amounts # {} /\ MaxLoans \in Nat \ {0}
  /\ Uploadable \subseteq {"pending", "approved", "rejected"}

VARIABLES
  apps,       \* [Applications -> row of LoanApplication]
  loans,      \* [Applications -> amounts of the debts created for it, in order]
  calls,      \* [Callers -> the call a caller is in]
  revived,    \* history: rows that were purged and inserted again by a save
  contested   \* history: rows two calls worked on at the same time, or a phone uploaded

loanVars == <<apps, loans, calls, revived, contested>>

(***************************************************************************)
(* Rows and calls.                                                         *)
(***************************************************************************)
Status == {"pending", "approved", "rejected"}
Row == [stored: {"never", "yes", "purged"}, status: Status, amount: Amounts, deleted: BOOLEAN]
NewRow(amount) == [stored |-> "yes", status |-> "pending", amount |-> amount, deleted |-> FALSE]
NoRow == [NewRow(CHOOSE amount \in Amounts : TRUE) EXCEPT !.stored = "never"]
PurgedRow == [NoRow EXCEPT !.stored = "purged"]

Kind == {"approve", "reject", "update", "delete", "restore", "stale", "purge", "upload"}

(* A call has a copy of the row, changed the way it wants to save it.      *)
Idle == [phase |-> "idle"]
Call == [phase: {"loaded"}, kind: Kind, app: Applications, copy: Row]
        \cup [phase: {"captured"}, kind: Kind, app: Applications, copy: Row,
              old: Status \cup {"none"}]

WorksOn(c, a) == calls[c] # Idle /\ calls[c].app = a
Stored(a) == apps[a].stored = "yes"
Visible(a) == Stored(a) /\ ~apps[a].deleted

LoanInit ==
  /\ apps = [a \in Applications |-> NoRow]
  /\ loans = [a \in Applications |-> <<>>]
  /\ calls = [c \in Callers |-> Idle]
  /\ revived = {}
  /\ contested = {}

(***************************************************************************)
(* Calls load and check.                                                   *)
(***************************************************************************)
Submit(a) ==
  /\ apps[a].stored = "never"
  /\ \E amount \in Amounts : apps' = [apps EXCEPT ![a] = NewRow(amount)]
  /\ UNCHANGED <<loans, calls, revived, contested>>

Load(c, kind, a, copy) ==
  /\ calls[c] = Idle
  /\ calls' = [calls EXCEPT ![c] = [phase |-> "loaded", kind |-> kind, app |-> a, copy |-> copy]]
  /\ contested' = IF kind = "upload" \/ \E other \in Callers : WorksOn(other, a)
                  THEN contested \cup {a} ELSE contested
  /\ UNCHANGED <<apps, loans, revived>>

Approve(c, a) ==
  /\ Visible(a) /\ apps[a].status = "pending" /\ Len(loans[a]) < MaxLoans
  /\ Load(c, "approve", a, [apps[a] EXCEPT !.status = "approved"])

\* Wrong variant: only deleted applications are refused.
RejectAny(c, a) ==
  /\ Visible(a)
  /\ Load(c, "reject", a, [apps[a] EXCEPT !.status = "rejected"])

Reject(c, a) ==
  /\ Visible(a) /\ apps[a].status = "pending"
  /\ Load(c, "reject", a, [apps[a] EXCEPT !.status = "rejected"])

Update(c, a) ==
  /\ Visible(a) /\ apps[a].status = "pending"
  /\ \E amount \in Amounts : Load(c, "update", a, [apps[a] EXCEPT !.amount = amount])

Delete(c, a) ==
  /\ Visible(a) /\ apps[a].status = "pending"
  /\ Load(c, "delete", a, [apps[a] EXCEPT !.deleted = TRUE])

Restore(c, a) ==
  /\ Stored(a) /\ apps[a].deleted
  /\ Load(c, "restore", a, [apps[a] EXCEPT !.deleted = FALSE])

\* The clean-up lists its rows first, and then takes them one by one.
CleanUpStale(c, a) ==
  /\ Visible(a) /\ apps[a].status # "approved"
  /\ Load(c, "stale", a, [apps[a] EXCEPT !.deleted = TRUE])

PermanentDelete(c, a) ==
  /\ Stored(a) /\ apps[a].status = "pending"
  /\ Load(c, "purge", a, apps[a])

(* The sync worker updates an application with a record a phone uploaded,  *)
(* whatever its status, its decision or its deletion.  A record that       *)
(* creates an application raises in on_submit, which wants a date and      *)
(* finds a text.                                                           *)
Upload(c, a) ==
  /\ Stored(a)
  /\ \E status \in Uploadable, amount \in Amounts, deleted \in {apps[a].deleted, TRUE} :
       /\ status = "approved" => Len(loans[a]) < MaxLoans
       /\ Load(c, "upload", a,
               [stored |-> "yes", status |-> status, amount |-> amount, deleted |-> deleted])

(***************************************************************************)
(* Calls save.                                                             *)
(***************************************************************************)
Capture(c) ==
  /\ calls[c].phase = "loaded" /\ calls[c].kind # "purge"
  /\ LET call == calls[c]
         old == IF Stored(call.app) THEN apps[call.app].status ELSE "none"
     IN  calls' = [calls EXCEPT ![c] = [phase |-> "captured", kind |-> call.kind,
                     app |-> call.app, copy |-> call.copy, old |-> old]]
  /\ UNCHANGED <<apps, loans, revived, contested>>

\* Wrong variant: an approval saves its own fields only.
SavesAllOfEdits(kind) == kind = "update"

(* Deletions, restorations and the clean-up save deleted_at only.          *)
SavesAll(kind) == kind \in {"approve", "reject", "update", "upload"}

Written(call) ==
  IF SavesAll(call.kind) THEN call.copy
  ELSE [apps[call.app] EXCEPT !.deleted = call.copy.deleted]

\* Wrong variant: as on_reopen, on_approve wants to see where the row comes from.
StartsFromPending(call) ==
  /\ call.old \notin {"none", call.copy.status}
  /\ IF call.copy.status = "pending" THEN call.old = "rejected" ELSE call.old = "pending"

(* post_save starts on_approve, on_reject or on_reopen by comparing the    *)
(* status captured with the copy's; a row without old status starts none.  *)
Starts(call) ==
  /\ call.old \notin {"none", call.copy.status}
  /\ call.copy.status = "pending" => call.old = "rejected"

(* The transition loads the row again and raises if it is deleted.  The    *)
(* clean-up is not in a transaction: what it has written stays.            *)
Raises(call) == Starts(call) /\ Written(call).deleted /\ call.kind # "stale"

Done(c) == calls' = [calls EXCEPT ![c] = Idle]

Save(c) ==
  LET call == calls[c]
  IN  /\ call.phase = "captured" /\ Stored(call.app) /\ ~Raises(call)
      /\ apps' = [apps EXCEPT ![call.app] = Written(call)]
      /\ loans' = IF Starts(call) /\ call.copy.status = "approved"
                  THEN [loans EXCEPT ![call.app] = Append(@, Written(call).amount)]
                  ELSE loans
      /\ Done(c)
      /\ UNCHANGED <<revived, contested>>

\* Wrong variant: the row comes back with the status captured for it.
ReinsertOld(c) ==
  LET call == calls[c]
  IN  /\ call.phase = "captured" /\ ~Stored(call.app) /\ SavesAll(call.kind)
      /\ apps' = [apps EXCEPT ![call.app] = [call.copy EXCEPT !.status = call.old]]
      /\ revived' = revived \cup {call.app}
      /\ Done(c)
      /\ UNCHANGED <<loans, contested>>

\* A save of all fields that finds no row inserts one, which is a submission.
Reinsert(c) ==
  LET call == calls[c]
  IN  /\ call.phase = "captured" /\ ~Stored(call.app) /\ SavesAll(call.kind)
      /\ apps' = [apps EXCEPT ![call.app] = call.copy]
      /\ revived' = revived \cup {call.app}
      /\ Done(c)
      /\ UNCHANGED <<loans, contested>>

Remove(c) ==
  LET call == calls[c]
  IN  /\ call.phase = "loaded" /\ call.kind = "purge"
      /\ apps' = IF Stored(call.app) THEN [apps EXCEPT ![call.app] = PurgedRow] ELSE apps
      /\ Done(c)
      /\ UNCHANGED <<loans, revived, contested>>

\* An exception, or the end of the process, rolls back what was not committed.
RollBack(c) ==
  /\ calls[c] # Idle
  /\ Done(c)
  /\ UNCHANGED <<apps, loans, revived, contested>>

LoanNext ==
  \/ \E a \in Applications : Submit(a)
  \/ \E c \in Callers, a \in Applications :
       \/ Approve(c, a) \/ Reject(c, a) \/ Update(c, a) \/ Delete(c, a)
       \/ Restore(c, a) \/ CleanUpStale(c, a) \/ PermanentDelete(c, a) \/ Upload(c, a)
  \/ \E c \in Callers : Capture(c) \/ Save(c) \/ Reinsert(c) \/ Remove(c) \/ RollBack(c)

LoanSpec == LoanInit /\ [][LoanNext]_loanVars

(***************************************************************************)
(* Properties.                                                             *)
(***************************************************************************)
\* Rows, loans and calls are of their types.
LoanTypeOK ==
  /\ apps \in [Applications -> Row]
  /\ loans \in [Applications -> Seq(Amounts)]
  /\ calls \in [Callers -> Call \cup {Idle}]
  /\ revived \subseteq Applications
  /\ contested \subseteq Applications

\* However calls overlap, an approved application has a debt: post_save's
\* comparison with a status that others may change in between creates too
\* many debts, never too few.  The exception is a row that a save inserted
\* again after it was purged, which post_save takes for a new application.
ApprovedHasLoan ==
  \A a \in Applications :
    Stored(a) /\ apps[a].status = "approved" /\ a \notin revived => loans[a] # <<>>

\* A debt is created by the save of an approval or of an upload, for the amount
\* the approver's copy or the phone's record showed, whatever edits were saved
\* in between; or, when an edit or an upload has taken the approval off a row
\* that was granted a debt, by the restoration of the row.
LoanAsApproved ==
  [][\A a \in Applications :
       loans'[a] # loans[a] =>
         /\ loans'[a] = Append(loans[a], apps'[a].amount)
         /\ \E c \in Callers :
              /\ WorksOn(c, a) /\ calls[c].copy.status = "approved"
              /\ calls[c].kind \in {"approve", "upload"} => calls[c].copy.amount = apps'[a].amount
              /\ calls[c].kind = "restore" =>
                   a \in contested /\ (loans[a] # <<>> \/ a \in revived)]_loanVars

(* The view of an application that LoanLifecycle has.                      *)
View(a) ==
  IF a \in contested THEN [status |-> "contested"]
  ELSE IF apps[a].stored = "never" THEN [status |-> "unfiled"]
  ELSE IF apps[a].stored = "purged" THEN [status |-> "purged"]
  ELSE [status |-> apps[a].status, amount |-> apps[a].amount,
        deleted |-> apps[a].deleted, granted |-> loans[a]]

Promised == INSTANCE LoanLifecycle WITH book <- [a \in Applications |-> View(a)]

\* As long as no two calls work on an application at the same time, and no
\* phone uploads it, it follows the lifecycle the office is promised, whatever
\* happens to the others.
FollowsLifecycle == Promised!Spec

\* Approval creates one debt ("This is where the active debt is created"), and
\* only a pending application can be approved.
OneLoan == \A a \in Applications : Len(loans[a]) <= 1
================================================================================
