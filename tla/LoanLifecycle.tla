----------------------------- MODULE LoanLifecycle -----------------------------
(***************************************************************************)
(* What the loan office is promised.  An application is pending until it   *)
(* is approved or rejected, once; only a pending one is edited, deleted or *)
(* purged; and approval grants one loan, for the amount applied for.       *)
(* An application several people work on at the same time, or that is      *)
(* uploaded from a phone, leaves the promise: it is contested for good.    *)
(***************************************************************************)
EXTENDS Naturals

CONSTANTS
  Applications,  \* identifiers of loan applications
  Amounts        \* amounts a borrower may ask for

VARIABLE book    \* [Applications -> what the office sees of an application]

Unfiled == [status |-> "unfiled"]
Purged == [status |-> "purged"]
Contested == [status |-> "contested"]

Filed(status, amount, deleted, granted) ==
  [status |-> status, amount |-> amount, deleted |-> deleted, granted |-> granted]

(* An application on file, perhaps put aside (deleted), and the loans it   *)
(* was granted: at most one, for the amount asked.                         *)
Case ==
  {Filed(status, amount, deleted, <<>>) :
     status \in {"pending", "rejected"}, amount \in Amounts, deleted \in BOOLEAN}
  \cup {Filed("approved", amount, FALSE, <<amount>>) : amount \in Amounts}

BookOK == book \in [Applications -> Case \cup {Unfiled, Purged, Contested}]

OnFile(a) == book[a] \in Case
Open(a) == OnFile(a) /\ book[a].status = "pending" /\ ~book[a].deleted

Submit(a) ==
  /\ book[a] = Unfiled
  /\ \E amount \in Amounts : book' = [book EXCEPT ![a] = Filed("pending", amount, FALSE, <<>>)]

Edit(a) ==
  /\ Open(a)
  /\ \E amount \in Amounts : book' = [book EXCEPT ![a].amount = amount]

Grant(a) ==
  /\ Open(a)
  /\ LET amount == book[a].amount
     IN  book' = [book EXCEPT ![a] = Filed("approved", amount, FALSE, <<amount>>)]

Refuse(a) ==
  /\ Open(a)
  /\ book' = [book EXCEPT ![a].status = "rejected"]

PutAside(a) ==
  /\ OnFile(a) /\ book[a].status # "approved" /\ ~book[a].deleted
  /\ book' = [book EXCEPT ![a] = Filed(@.status, @.amount, TRUE, @.granted)]

TakeBack(a) ==
  /\ OnFile(a) /\ book[a].deleted
  /\ book' = [book EXCEPT ![a] = Filed(@.status, @.amount, FALSE, @.granted)]

Discard(a) ==
  /\ OnFile(a) /\ book[a].status = "pending"
  /\ book' = [book EXCEPT ![a] = Purged]

Contest(a) ==
  /\ OnFile(a)
  /\ book' = [book EXCEPT ![a] = Contested]

Init == book = [a \in Applications |-> Unfiled]

Next ==
  \E a \in Applications :
    \/ Submit(a) \/ Edit(a) \/ Grant(a) \/ Refuse(a)
    \/ PutAside(a) \/ TakeBack(a) \/ Discard(a) \/ Contest(a)

Spec == Init /\ [][Next]_book
================================================================================
