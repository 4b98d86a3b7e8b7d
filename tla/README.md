# Collectly: a TLA+ development

Collectly is the backend of a debt-collection application: a Django REST API, a
PostgreSQL database, and Celery workers that a beat scheduler drives. This
directory holds TLA+ modules of its money core, of the jobs and messages around it, of loan
approval and of the synchronisation of phones, the TLC configurations that check
them on small instances, and theorems that TLAPS proves for every instance.

## 1. The system

| Component | State | Operations | Talks to |
|---|---|---|---|
| Debts (`debts/models`, `debts/services/debt.py`, `forgiveness.py`) | `Debt` rows: total, paid, remaining, status, due date, accrual date, `deleted_at` | create, update, correct total, forgive, soft-delete, restore, purge, bulk and CSV forms | every save runs the receivers of `debts/signals/base.py`, which call `debts/state_transitions/debt.py`, which saves again |
| Penalties (`payments/*/penalty_transaction.py`) | `PenaltyTransaction` rows | create, update, delete, restore, purge, `run_auto_penalties` | the overridden `save` resets and saves the debt; the first save also runs `on_collect`, which charges the debt |
| Payments (`payments/*/payment_transaction.py`) | `PaymentTransaction` rows, method statistics | create (confirmed by its first save), void | accrues interest, applies the amount to the debt |
| Interest (`debts/services/interest_accrual.py`) | `last_interest_accrual_date`, remaining | daily run, accrual before a payment | saves the debt |
| Jobs (`debts/tasks`, `payments/tasks`, `notifications/tasks`) | a ran-today flag per job in the cache of each worker process | accrual, overdue statuses, overdue corrector, penalties, zero-balance fixer, reminders | call the services and transitions, one debt after another |
| Notifications (`notifications`) | in-app notices; a log row per e-mail or SMS: queued, sent, failed, retry count | create, send, retry hourly, "scheduled" resend every 15 min, acknowledge | transitions create logs; a log's signals queue Celery tasks |
| Loan applications and agreements | application and agreement rows | submit, approve, reject, cancel; draft, sign | approval creates a debt and an agreement |
| Sync (`sync`) | a queue of offline edits; a progress row per upload; one lock file | enqueue, process the queue, upload in the background, clean up, download | creates and updates rows of every other component |
| Borrowers, groups, payment methods, settings, audit, analytics, users, HTTP | plain rows | CRUD, reports, permissions | see section 8 |

The components interact by shared rows and nested synchronous calls. No code takes
a row lock on reading (`select_for_update` appears nowhere) and the database
runs at READ COMMITTED, so web requests and Celery workers interleave between a
read and the write that depends on it. What makes the core hard:

* **Nested saves.** A save of a debt runs two `pre_save` and two `post_save`
  receivers. They save the same instance again (under a `_skip_recalc` flag) and
  call transitions that fetch and save *another* instance of the row, whose
  receivers run in turn. One payment that settles a debt saves it five times.
* **Stale instances.** A penalty keeps the debt instance it was created with and
  saves all its fields after another instance has been charged.
* **Balance by two rules.** Penalties and interest adjust the balance
  incrementally; an edit, a payment and a penalty's save recompute it from total and paid.
* **Overlap.** Payments, edits and jobs on one debt read before each other's commits.
* **Jobs** may fail half way, run twice, in several processes, or overlap; the zero-balance fixer
  repairs what is left.
* **Tasks** are queued before the transaction commits, acknowledged when taken, retried by
  themselves, by signals and by other jobs, and lost with their worker.
* **Phones** send edits made hours ago, in any order and several times.

What makes each component correct: for debts, that a settled debt is marked paid
and only a user reopens it; that what is shown as paid is backed by payments; for
penalties, that nobody is asked for more than principal, interest and the penalties
in force, and no debt is charged twice for a day; for the receivers, that the
nested saves come to the net effect the service intends and that notices match it;
for overlapping calls, that payments are not lost or counted twice and that the
repairs catch up. For notifications: one marked sent has reached somebody, and each is sent or given
up in the end. For loan approval: an approved application has one debt, of the amount approved. For
jobs: nothing twice a day, nothing left out for good. For sync: what is reported as applied
was applied, nothing waits for ever, no upload undoes another. `PROJECT.json` lists the
hazards by line.

## 2. The modules

    DebtBalance              rules on one row: recompute, settle, reset, charge
    RowTotals                sums over the rows of a table
      DebtLedger             committed calls and job steps with their net effect
        DebtLedger_proofs    TLAPS
        DebtSignals          the same calls handler by handler; implements DebtLedger
          DebtSignals_proofs TLAPS, with DebtLedger_proofs: the refinement
          ConcurrentLedger   overlapping calls: reads apart from writes
            ConcurrentLedger_proofs TLAPS, with DebtSignals_proofs
    DailyJobs                who runs the penalty and reminder jobs, and how often
      DailyJobs_proofs       TLAPS
    NotificationDelivery     log rows, send tasks, workers, retries
      NotificationDelivery_proofs TLAPS
    LoanLifecycle            what the loan office is promised
      LoanWorkflow           overlapping calls on applications; implements LoanLifecycle
        LoanWorkflow_proofs  TLAPS, the refinement included
    SyncQueue                the queue of offline edits and overlapping passes over it
      SyncQueue_proofs       TLAPS
    SyncUpload               background uploads: progress, lock, retries
      SyncUpload_proofs      TLAPS

The groups do not share variables: they meet in the rows of the database, and each
has what the others do to them as steps of its own (`Pay` in DailyJobs, `WebSave` in
SyncUpload, `Create` in NotificationDelivery, `UploadNewPayment` and `UploadPayment` in DebtLedger, `Upload` in
LoanWorkflow). The exceptions, that is what another group may do to a row and no action here does: an upload may
type any balance, paid amount and status into a *debt*, or enter, edit and delete a *penalty* without its charge being added or
taken back (DebtLedger and the modules on it); a user may delete or re-date a penalty or move a due date under
`DailyJobs`, whose job then charges again; agreements are not modelled at all. Section 5 says what this takes from
the properties.

**DebtBalance** has no state. `Recalculated` is the first `pre_save` receiver,
`Settles`/`Settled` the settlement receiver, `Reset` `PenaltyTransaction.save`,
`Charged` the net balance after a penalty is created, `Restored` the transition to active.

**DebtLedger** is the abstract specification. `debts`, `penalties` and `payments` are the
tables, `today` the date; `interest` and `entered` are history variables that no
action reads for a decision. An action is a *committed* service call or a job's
step on a debt: a call that raises rolls back and is no step. The actions carry the
services' names (`UpdateDebt` is `DebtService.update`, `RecordPayment` is
`PaymentTransactionService.create`, whose first save is `Confirm`: `on_confirm` and `apply_payment`). Uploads do not go
through the services: `UploadNewPayment` confirms a payment with no look at the balance, and `UploadPayment` changes the amount or
the debt of one on record, which no receiver reacts to (`payments/signals/base.py:58`), so the debt goes on showing the old amount
as paid. `entered` keeps count of the difference. Users may enter, or mark, a penalty as automatic (`is_auto`).

**DebtSignals** runs each call as the code does. `Saved` is `Model.save`: the
receivers in their order of registration around the UPDATE of `update_fields`. They save again: each
handler takes the function that does the saves nested in it, `Nested` adds one level, and `Saves` has
five. A sixth ends the call with the outcome "endless", so what the model takes for granted of the depth is the
invariant `SavesEnd`. A *world* is what the call has written, sent and raised; an *instance* is a Python
object: `data`, the `_skip_recalc` flag, the captured old row. `OnPaid`, `OnOverdue`,
`OnDefaulted`, `OnRestoreToActive`, `SavePenalty`, `InsertPenalty` are the transitions
and the penalty's save; `OnConfirm` is the payment's, from the service or from an upload. A world that raised leaves the tables alone (`Store`).
Its variables are DebtLedger's, so `ImplementsLedger == Spec` is the refinement, with
the identity as mapping and `sent`, `outcome` hidden.

**ConcurrentLedger** runs calls of `Txns` on the same tables. A call (`BeginCall`) reads the
debt's row; later reads (`ReadAgain`) are steps of their own: the fresh instance of
`apply_payment`, `on_collect` or `on_overdue`, and the row the `pre_save` receivers
compare with. The first UPDATE locks the row until commit, so from there on the call is
one step, in which DebtSignals' handlers run on the instances read before. `EditPayment` is an upload's edit of a payment.

**DailyJobs** has a cache (`ran`) and at most one run (`runs`) per worker process, and the bag of
messages that start jobs. `Take` is the flag check and the query, `CheckPenalty` the look for a penalty since
the due date, `Charge` the service's transaction, `Remind` the queued e-mail with the status
save, `Finish` the note in the cache, `Raise` the exception that leaves the loop and `self.retry`, `Die` a lost
process. The `force_*` tasks call the job as a function, so they meet the same flag and are not
retried. The other daily jobs (accrual, overdue statuses, corrector, fixer) have the same
skeleton, but find nothing to do when repeated, by DebtLedger's guards.

**NotificationDelivery**: `logs` are the `NotificationLog` rows, a `draft` one being inserted and not
committed. A worker takes a send task, sends (`SendEmail`, `SendSms`), fetches the log (`Fetch`), saves all
its fields (`Save`), and if the save signal says so runs `on_retry`; these are separate steps, others'
come between. `on_retry` is a transaction: `Requeue` saves the log, which nobody sees, and queues the task, `CommitRetry`
commits. In between the log is `Locked`: whoever reads it finds the failed row, so the retry's own task may find nothing to
do and end (then the log is `mislaid`), and whoever writes it waits. The hourly job is `BeginRescue` and `Rescue`, the quarter-hourly one
`SendScheduled`. `reached` and `mislaid` are history.

**LoanWorkflow**: a call is `Load` (with the service's or the serializer's check), `Capture` (the
`pre_save` receiver's read) and `Save` (UPDATE, `post_save`, `on_approve` and commit, the row being
locked), on a copy of the row; `loans` are the debts created. `Upload` is such a call by the sync worker, with no
check: a phone's record may carry any of the statuses `Uploadable`. **LoanLifecycle** is the promise: pending,
then approved or rejected for good, one loan for the amount filed. `FollowsLifecycle` is the refinement, under the
mapping `View`: an application that two calls worked on at the same time, or that a phone uploaded, is *contested*,
and promised nothing any more.

**SyncQueue**: a pass (`SyncQueueService.process_all`) is one transaction. It lists the waiting items
with their data, then per item marks it (`MarkProcessing`, which waits for row locks), loads the record
and applies the edit as listed, or fails. Uncommitted writes are `ownItems` and `ownRows`. `Abort` is
the exception that `mark_failed` raises on an item that is not in processing. `Create` and `Replace` are the
two halves of `enqueue`, after the look of `Find`.

**SyncUpload**: `Post` queues the task and inserts the progress row as a draft, `Commit` makes it visible. A worker waits
for the lock file (`Acquire`, `TimeOut`), reports that it runs (`Start`), then per record `Load`, `Skip`, `Save` or
`Refuse`, `Report`, and `Finish`. `Save` writes the record's own row or, if the records are payment methods (`ByName`) and another row has
the name, that one (`Targets`). `DatabaseFails` and `ReportFails` are the exceptions with their
retry; `written` and `lost` are history.

## 3. The runs

| Run | States | Shows |
|---|---|---|
| `ledger` | 342,614 | type correctness, `SettledIsPaid`, `PaidIsBacked`, `NeverOvercharged`, `OneAutoPenaltyPerDay`, `OnlyUsersReopen` over all orders of calls and jobs |
| `signals` | 74,466 | `SavesEnd`: saves nest at most five deep; `ImplementsLedger`, and `PaidIsAnnounced`: borrowers are told a debt is paid exactly when it has become so |
| `concurrent` | 1,253,543 | `NeverOvercredited`: overlap may hide a payment, never count it twice; `IsolatedIsSerial`: a call nobody overtakes is a ledger step; `PaidOffIsMarked` (liveness): overlap can leave a paid-off debt open, the fixer ends it |
| `daily_jobs` | 480,045 | `PenalisedOnce`: only two racing runs charge a debt twice; `RemindedOnceByProcess`; `PenaltiesCatchUp` (liveness): no failure, retry, loss or flag leaves a late debt uncharged for good |
| `notifications` | 484,726 | `SentIsReached`: a log marked sent reached somebody, for logs with an address and a recipient; `NothingForgotten`: a queued log has a task, but for the listed ways to lose it; `NoticesSettle` (liveness): sent, or given up with its retries used up |
| `loans` | 834,386 | `ApprovedHasLoan`, `LoanAsApproved` (a debt is created for the amount the approver's copy or the phone's record showed), `FollowsLifecycle` (refinement) |
| `sync_queue` | 865,184 | `NoneStranded`, `SettledIsEarned`, `UncontestedIsApplied`: what passes that overlap, abort and retry do to items |
| `sync_upload` | 3,543,508 | `CompletedIsWhole`: the report is true of every record; `NoUploadUndoesAnother`; `NoneDropped`; `LockEndsWithUpload` |
| `ledger_charges`, `signals_void`, `concurrent_double`, `loans_double` | | the four disagreements of section 6 |

**Bounds.** One debt: no call touches two, and the tables of different debts
share nothing but the free identifiers. Two penalties, the least that can be
doubled, deleted and restored against each other; two payments, so that one can
be partial, lost or overtaken. Total 4, payments 1 and 3, penalty 2, interest 1 and
`Eps` 1 let balances reach 0, exactly the centavo that counts as nothing, and more than the
total. Due dates 0 and 1 with days 0 and 1 and no grace put a debt before, on and after its
due date. `signals` has one payment and a partial-payment ban and leaves "defaulted"
out of the allowed statuses, so that calls raise after nested saves; the ledger allows
more, and its run is the other. `concurrent` has two transactions and starts on the last day
from a debt as created, or put off by a user while overdue (`ConcurrentInit`); with one debt and one amount
`EditPayment` changes nothing there: edited payments are explored by `ledger`, with their amounts, and their overlap with calls,
like payments moved from debt to debt, is left to the theorem `PaymentsCountOnce`. `MaxDay`,
`MaxInterest` and the sets of identifiers are the only bounds on counters there.

In the other runs: `daily_jobs` has one debt (runs treat debts one by one and nothing they decide
about one looks at another), two processes, the least that can race or repeat each other, one retry and two
troubles (failed debts, failed runs, lost processes). `notifications` has one log (tasks of different
logs meet only in workers that are busy), two workers, one automatic retry, one retry of a task by
itself and three troubles, so that tasks of one log multiply, overtake each other and die. `loans` has one application, two amounts, two
callers, at most two debts, and uploads with any status (none in `loans_double`, whose disagreement is about approvals alone). `sync_queue`
has one record, two phones, two passes at a time and three in all over two items, the least in which racing enqueues
double an item and passes list the same ones. `sync_upload` has two uploads, two workers, two payment methods, one of which phones
edit and the other may have its name, and new records, batches of two records older and newer than each other and without a time,
one retry and two troubles. `MaxQueue` bounds the broker, not what is retried.
`CHECK_DEADLOCK FALSE` everywhere: days end, rows and bounds run out, and then nothing has to happen.

**Fairness.** `FairSpec` (ConcurrentLedger): a call that has begun ends; requests and tasks wait for
nothing but the row lock, whose holder ends. That somebody starts the fixer again and again is an
*assumption of the property* (`FixerIsStarted => ...`), not of the specification: the beat entry sends
it under a name no worker knows (section 6), so it is people who start it, by endpoint or command.
`FairJobs` (DailyJobs): days pass and workers work; again that the penalty job is started is an
assumption (`IsStarted`). `FairDelivery`: workers work, and beat starts the hourly and the
quarter-hourly job, whose entries do name registered tasks; strongly fair for the hourly
one, because a log may leave and re-enter "failed" while all workers are busy. The other
specifications have no fairness and no liveness properties.

## 4. What is proved

`DebtLedger_proofs` proves, for any constants that satisfy `ParameterAssumption`, any
`Debts`, `Penalties`, `Payments` (of any size) and any `Eps` that satisfies `EpsAssumption`:

* `TypeCorrect`: `Spec => []TypeOK`;
* `SettledDebtsArePaid`: `Spec => []SettledIsPaid`;
* `PaidUntilEdited`: `Spec => OnlyUsersReopen`;
* `AutoPenaltyOncePerDay`: `Spec => OneAutoPenaltyPerDay`;
* `PaidAmountsAreBacked`: `Spec => []PaidIsBacked`;
* `BalancesAreJustified`: `Spec => []NeverOvercharged`.

`TypeOK /\ SettledIsPaid` is inductive; `SettledIsPaid` alone is not, since the status of a
row of no known type says nothing, and neither is `OnlyUsersReopen` a
consequence of types alone: that the corrector and the overdue job do not reopen a paid debt needs their
guards, that forgiveness and payments do not needs that a save keeps the status unless it settles.
The argument is by lemmas on rows (what `Recalculated`, `Settled`, `WithBalance`,
`Reset` and `Charged` return is a row, and a settled one is paid), then on `SaveDebt` and
`EnterOverdue`, then one step per action. For the penalties, every step but those in which a user enters, restores
or edits one either drops penalties (`DropsPenalties`) or adds one of a date no other automatic one of its debt has
(`AddsPenalty`); and the property excepts the users' steps only where they are no job's (`Charges`).

The two results about money rest on `Books`: per debt, what it shows as paid, and an `Excess` (what it asks beyond the unpaid
principal) that interest and penalties in force cover. Neither property is inductive. A purged
debt must leave no payment behind, or the next debt in its row starts with somebody else's payments; the interest noted must be natural, or an
accrual could lower what is allowed; and the rows in use must be finitely many, or a total means nothing. That the payments
and penalties *in use* are finite is part of the invariant, not assumed of the constants. Each action
replaces one row of one table, so `ReplacedRow` says once how a total shifts; `MovesKeepBooks` says what an action may then do
to a debt's books, and each action is shown to be such a move: a recomputed balance has no excess
(`RecalculatedExcess`), a charge has the penalty's, an accrual the interest. An upload that edits a payment moves the totals of
one debt or two, and no debt; `entered` moves the other way by as much.

`DebtSignals_proofs` proves that the ledger is what the code with all its handlers does, for any number of debts, penalties
and payments and any parameters:

* `HandlersImplementLedger`: `SignalSpec => ImplementsLedger`, the refinement (the variables are shared, so the mapping is the identity);
* `CallsComeToAnEnd`: `SignalSpec => []SavesEnd`;
* `PaidDebtsAreAnnounced`: `SignalSpec => PaidIsAnnounced`, the notices that go with a debt becoming paid;
* `HandlersKeepLedger`: so the properties proved of DebtLedger hold of `SignalSpec`.

The argument is about functions `save`, the saves nested in a handler, and goes from the inside out. Whatever is nested in it, a
save that changes nothing the receivers look at just writes its fields (`Quiets`; `NestedQuiets`). If the saves in it are quiet, marking a
debt paid on an instance with the flag set sends notices and does nothing else (`Marks`). If they are quiet and mark, a save that leaves status and
total alone writes the recalculated row, settled (`Steady`). And if they are all that (`Proper`), a full save *lands* (`Landed`): the
row is as `SaveDebt` says, or the call raised because the status is not among the allowed ones. `Saves` is `Proper` since it
nests deep enough (`SavesProper`); a call that needed more would show here, and none does. Raising is a kind of world
in the sense below, which no handler leaves.

`InsertEffect` is the instances' lemma: a penalty's first save charges the balance on one instance, then resets it from another, and the second,
stale in its balance only (`Fits`), ends up with the row all the same. It needs the row to be sound (settled means
paid), which is why the refinement rests on `DebtLedger`'s invariant, and on `Held`: a penalty's debt exists. Each call then has one
lemma, from `CreateSimulates` to `CorrectorSimulates`.

Notices are carried along: what a save leaves of a world (`Becomes`) includes that the borrower has been told if the debt has become
paid on the way, and has not been told otherwise (`Tells`). That composes only because nothing nested in a save reopens a paid debt, which
is a part of `Tells` too; where the row has been marked and the notice is still to come, only the row and the rest of the world are claimed (`Carries`, `TellPaid`).

`ConcurrentLedger_proofs` proves, for any number of debts, calls and transactions, and any parameters:

* `PaymentsCountOnce`: `ConcurrentSpec => []NeverOvercredited`.

What is stored does not suffice, because a call saves whole rows it has read earlier: the invariant `CreditInv` says of each
row a call has read that it shows no more as paid than the debt's payments *now*; no call takes payments back, so others' commits keep
this; an upload that lowers or moves one leaves the sum of `entered` and payments, per debt, as it was (`UploadKeepsCredit`). That a write keeps it is about the handlers (in `DebtSignals_proofs`): a `Kind` of world bounds what may be shown as paid and for which debt, and no handler
leads out of a kind if the saves nested in it do not (`SavedKeeps`, one lemma per handler); so no level of nesting does (`SavesKeep`).
A payment's write is of the kind whose bound is its amount higher.

`LoanWorkflow_proofs` proves, for any number of applications, callers and amounts:

* `LoanTypes`: `LoanSpec => []LoanTypeOK`;
* `ApprovedIsGranted`: `LoanSpec => []ApprovedHasLoan`;
* `WorkflowImplementsLifecycle`: `LoanSpec => FollowsLifecycle`, the refinement;
* `DebtsAreAsApproved`: `LoanSpec => LoanAsApproved`.

`ApprovedHasLoan` is not inductive: a call may have captured the status "approved" and be about to save an approved copy, which
starts nothing. The invariant `GrantInv` adds what calls know: a call that carries an approved copy, or
has captured "approved", is on an application that has been granted a debt (or was
revived). Debts are never taken away, which is what makes this stable against all others' steps; `GrantedStays` and
`CallsStay` say so once for all actions, and each action then accounts for its own call and row.

The refinement mapping shows of a row its status, deletion, amount and debts, and of a contested row that
nothing is promised. What makes it work is `Steady`, for an uncontested application only: at most one call works on it
(`Alone`), no phone has uploaded it, its debts are the one of its approval or none (`Booked`), and that call's copy is the row as it is
stored with the call's own change applied (`Prepared`), so what it saves is a step of the
lifecycle. A step of a call then changes one application (its lifecycle step), may contest
it (given up), and leaves the others as they were. `LoanAsApproved` is also about contested applications, where none of this holds; there
`GrantInv`, and that a call that is no approval has an approved copy only of a row already granted (`CopiesGranted`), carry the argument.

`SyncUpload_proofs` proves all five properties of SyncUpload, for any uploads, batches, records, workers, retries and troubles
(`UploadAssumption`: "free" is no worker, "none" and "web" no uploads):

* `LockIsFreed`: `UploadSpec => []LockEndsWithUpload`. With the types (a run is at a
  place of the batch it was posted with) it is inductive: one step per way into and out of the task.
* `NoUploadForgotten`: `UploadSpec => []NoneDropped`, from `Accounted`.
* `CompleteMeansComplete`: `UploadSpec => []CompletedIsWhole`. What a run reports must be honest before it is
  reported (`HonestRuns`: each result so far says what was written); it must be the upload's only run or message
  (`Solo`), or an older one could overwrite the report; and nothing of an upload is left once it is complete (`Rests`).
* `UploadTypes`: `UploadSpec => []UploadTypeOK`.
* `UploadsUndoNothing`: `UploadSpec => NoUploadUndoesAnother`. The worker compares times on a row it read
  without a lock on the row. `Fresh`: that row is still what is stored, or has since been saved from the web, because the
  other uploads' workers wait for the lock file; so this one rests on `LockIsFreed`. It is about a record's own row: a
  payment method merged into another row by name is written with no comparison of that row's time (section 6).

`NotificationDelivery_proofs` proves all safety properties of NotificationDelivery, for any logs, workers, settings and troubles:

* `DeliveryTypes`: `DeliverySpec => []DeliveryTypeOK`;
* `QueuedIsOnItsWay`: `DeliverySpec => []NothingForgotten`. A log that becomes queued has its task queued in the same
  step or by the worker that saved it, or earlier, by an `on_retry` that commits now; the invariant (`Tracked`) says so of logs and
  retries not yet committed too (`Awaited`), and that what a worker is about to save says sent or failed.
* `MarkedSentIsSent`: `DeliverySpec => []SentIsReached`. A log is marked sent by a worker's copy, so the invariant
  relates copies to rows (they differ in status and count alone), tasks to logs (each task of an addressed
  log was given somebody, which is what an SMS retried as an e-mail breaks, hence the property's condition), and what
  a worker thinks it sent to what was delivered.

`SyncQueue_proofs` proves all properties of SyncQueue, for any records, edits, phones, passes and `MaxRetries` (`QueueAssumption`: phones
are finitely many, for the count of items under way):

* `QueueTypes`: `QueueSpec => []QueueTypeOK`;
* `NothingStranded`: `QueueSpec => []NoneStranded`;
* `SettledIsTrue`: `QueueSpec => []SettledIsEarned`;
* `AcceptedIsApplied`: `QueueSpec => []UncontestedIsApplied`.

Nothing a pass does shows before its commit, so the invariant is mostly about what is not committed (`PassOK`): the
pass's copy of an item is the committed item with what the handler did to it (`Held`), what it lists and
what it did is the accepted change or contested (`Lists`, `Did`), a row it found stays (`Found`), and no two passes hold an
item (`Exclusive`, from the row locks). The commit then turns `Held` into `Settled` of the row. A step that
commits nothing has to show only `PassOK` of its own pass (`PassStep`); one that changes items, that passes still hold what they held (`PassKept`).

`DailyJobs_proofs` proves the safety properties of DailyJobs, for any number of processes, debts, retries and troubles:

* `JobsTypes`: `JobsSpec => []JobsTypeOK`;
* `PenalisedOnceOrRaced`: `JobsSpec => []PenalisedOnce`;
* `RemindedOnce`: `JobsSpec => RemindedOnceByProcess`.

Of penalties nothing is assumed of caches and broker: the flag plays no part in it. The
invariant adds `ChargesFirst`: a run about to charge a debt nobody races for is alone in that, and the debt has not been
charged yet. Steps that neither charge nor decide to (`Quiet`) keep it by one lemma. Reminders do rest on the flag:
a process that has reminded of debts today is still in the run that did, with other debts to go, or its cache says so (`NotAgain`).

Totals are sums over the rows a set of identifiers names: such a sum is a number (`TotalType`), changes by the amount of the
row added or left out (`TotalAdds`, `TotalWithout`), and is the same for rows of the same amounts (`TotalSame`). These facts come down to
an induction over finite sets, which `SubsetInduction` states of a set of subsets instead of a predicate: the library's induction theorems,
whose parameter is an operator, cannot be used. That a fold is a function of its set at all is `TotalExists`.

Not proved and only model-checked: `IsolatedIsSerial` (the refinement's lemmas take a row that is sound and not stale, while overlapping calls
may store one that is neither), and liveness, which is out of the prover's reach.

## 5. Abstractions

* Amounts are centavos, natural numbers; the code's `Decimal(…, 2)` has the same grain.
  Payments, penalties and totals are positive and edits keep paid at most total, as the
  serializers and services require; the bulk endpoints and the uploads, which skip the serializers, are
  taken to be given such values.
* Of what uploads do past the services (`SyncService._create_record`, `_update_record`: `setattr` and `save`, with the receivers
  and nothing else), payments are in the ledger group, applications in `LoanWorkflow`. Not modelled: uploads of debts and of penalties, so
  `NeverOvercharged` says nothing of debts that a phone has given a balance, nor of uploaded penalties (entering one resets the
  balance and charges nothing, moving one leaves its charge on the old debt); payments uploaded as already deleted, which are applied
  and then on no record (`PaidIsBacked`); agreements. A status that an upload types into a debt counts as a user's edit.
  Deleting a payment by upload raises in `on_void` and rolls back.
* Rates are abstracted: interest, penalties and payments (with or without the early-payment
  discount) are any member of a small set, interest that rounds to nothing included.
* `last_interest_accrual_date` NULL counts from creation, so it is modelled as that day.
* `"paid"` is in the allowed statuses: without it no settlement commits.
* Operations that come to no change leave no step (`recalculate_remaining`, `fix_precision`).
  Bulk and CSV operations and `mark_period_paid` are series of the single ones.
* The per-debt tasks (`update_specific_debt_status`, `correct_specific_debt`,
  `apply_penalty_to_specific_debt` and the like) and the management commands do to one debt what
  the jobs do, under the same guards but for the ran-today flags, which they do not look at; `apply_penalty_to_specific_debt` does so even where
  `enableAutoPenalty` is off. `send_reminder_for_specific_debt`, which nothing calls, would remind again on the same day. `accrue_interest_for_debt` with a date of the caller's choice is left out.
* Saving a debt's interest rate (`update_loan_rate`) shows only as an edit in `ConcurrentLedger`.
* Payments are never voided, restored or purged in the ledger: `void_payment` always raises
  (section 6) and the other two need a voided payment.
* The fixer and the corrector's "fully paid" branch have no work in the serial ledger, by
  `SettledIsPaid`; the fixer is part of `ConcurrentLedger`.
* Two reads that follow one another are one step in some places: in `ConcurrentLedger` those of the debt's two `pre_save`
  receivers (`debts/signals/base.py:43` and `:146`), in `NotificationDelivery` the `pre_save` read of the old status and the UPDATE
  (`notifications/signals/base.py:60`), in `SyncUpload` the look for a row of the same name and its UPDATE. A commit of another call just between them is left out.
* Notices of a call that raised are no notices in `DebtSignals` (`PaidIsAnnounced` is about what the call leaves); tasks it had queued
  for them run all the same, which is `NotificationDelivery`'s business (`RollBack`).
* In `ConcurrentLedger` the accrual job's UPDATE and its receivers are one step
  though the job has no transaction, the look for a penalty of the day and the
  fetch of the penalty service are one read, and payments that first accrue interest, deletions and
  changes of day are left out. `RollBack` is a bound: a call that finds no free row.
* `DailyJobs`: jobs are enabled and rates positive; "late" stands for past due and past grace; any set of late debts may have
  its reminder day; `charged` counts penalties only, not amounts; e-mails are counted when queued. Users deleting or re-dating
  penalties and due dates that move are left out: the job charges a debt again whose penalty has been deleted.
* `NotificationDelivery`: deliveries are told apart by whether somebody was reached; settings that a process has
  cached are any of `MailSeen` at each look; a clean-up after 90 days meets nothing under way. Manual status
  edits, `mark_as_sent`, deletion and restoration of logs, which no view uses, are left out.
* `LoanWorkflow`: of a row only what checks and transitions look at; credit check and limits are never reached
  (section 6). The debt's own save is DebtLedger's business. Uploads that create an application raise in `on_submit`
  (the due date is text) and leave no step; the savepoint of a record and the chunk's commit are one.
* `SyncQueue`: one record of one entity; creation and deletion of the row by the handler, its refusals, and the
  deadlocks PostgreSQL breaks (`Crash`, with lost requests).
* `SyncUpload`: a chunk is one record (25 in the code); the phones' and the server's clocks agree; a record's own savepoint is its step.
  What the receivers of a record's save do to other rows, and a payment method saved as the default clearing the flag of the others, is left out.
* With no free penalty row a transition that must bill raises (`BillPenalty`): also a bound.

## 6. Where the code disagrees with what it says

1. `ledger_charges`: a payment wipes the penalties and interest on the balance, because
   the save recomputes it from total and paid.
2. `signals_void`: no payment can be voided; `on_void` refuses what the service has just deleted.
3. `concurrent_double`: two overlapping runs charge a debt twice in a day.
4. `loans_double`: two overlapping approvals create two debts.

Met on the way, with no run of their own:

* *Ledger.* Each settlement runs `on_paid` three times, so its notices are sent three times, and `on_paid` does save
  the debt though `debts/signals/base.py:106` says it should not; a reduction that settles the debt sends no
  forgiveness notice, because the nested save overwrites the captured total; an edit loaded before a payment and saved after
  it takes the payment off the debt; two payments validated against one balance may overpay it;
  `recalculate_remaining` changes nothing; an overdue notice may be sent for a debt that the automatic penalty's reset has
  just settled; a penalty on a paid debt leaves it owing and still paid. An upload that edits a payment leaves its debt as it was.
  `POST /penalties/` always answers "Debt not found." (the serializer has already replaced `debt_id`, which `penalty_transaction.py:266` of the services looks
  for), so penalties are entered by the bulk and CSV endpoints, which take `is_auto` from the request; the views that edit payments call
  `PaymentTransactionService.update`, which does not exist.
* *Jobs.* Of the beat entries (`core/settings/components/celery.py`) only those of `notifications.tasks.reminder`
  name tasks as workers register them; those of the debts', payments' and audit jobs lack the module's last part, so nothing
  starts these jobs but people. The ran-today flags are in each process's own memory, and docker-compose starts
  four processes; the status endpoints read the web server's memory. `--force` ("Force run even if already ran
  today") calls the job that checks the flag. The flag has the date of the run's end, in UTC.
* *Notifications.* A log whose creator gave an address and no recipient is marked sent and nobody is mailed; a failed
  SMS is retried as an e-mail to nobody and marked sent; retry and resend endpoints queue no task and rely on the
  quarter-hourly job; a rolled-back call's e-mail is sent all the same; retry counts are set back
  by overtaken saves; a retry's task that runs before `on_retry` commits finds the log still failed and ends, and the log is then
  queued with no task until the quarter-hourly job; `NotificationLogService.update`, which a view calls, does not exist.
* *Loans.* The approve endpoint does not use `LoanApplicationService.approve`, so its credit check and limits are never
  applied; automatic approval passes a name where a user is needed and approves nothing; an approval, a rejection
  and an update that overlap overwrite each other; a new borrower without a debtor is created twice. Every save of an
  existing agreement except the one that signs it raises (`loan_agreements/signals/base.py:61`), creating one through the
  API raises too (`debt_id`, `loan_agreements/services/loan_agreement.py:77`), and two signings can overlap.
* *Sync.* An edit enqueued while a pass has its item is marked completed and not applied; two racing enqueues make two
  items; a second pass may apply a stale edit again; an exception in `mark_failed` rolls the whole pass back; the job that
  looks for items stuck in processing can find none. Records without an id are created again by each retry of
  an upload; if a worker dies the phone sees "running" for ever; skipping compares the phone's time of the edit with the server's time
  of the save; a payment method whose new name another has is written over that other one, however new it is (`sync/services/sync.py:1167`); an upload sets
  amount and status of a decided loan application; after the test of `sync/services/sync.py:222` the conflict test of line 230 has nothing to find.

## 7. Plan

1. **Done.** The ledger group; NotificationDelivery; LoanLifecycle and LoanWorkflow; SyncQueue; SyncUpload; DailyJobs.
2. **Proofs.** Done: all safety properties of SyncUpload, SyncQueue, NotificationDelivery, DailyJobs and LoanWorkflow, with the
   refinement of LoanLifecycle; those of DebtLedger, sums included; the refinement of DebtLedger by DebtSignals, handler by handler; `NeverOvercredited` of
   ConcurrentLedger. Next: `IsolatedIsSerial`, from the lemmas of the refinement.
3. **Modelling next**: uploads of debts and penalties; the reminders' status save as an action of DebtLedger; agreements, should their
   signals be repaired; downloads of phones against uploads.

## 8. Not modelled

Most of the repository is request parsing, serializers, permissions, listings, reports and CSV forms. Users, sessions and
permissions decide who may call, not what a call does. Borrowers, groups and payment methods are plain
rows; credit scores and method statistics are derived from others. Settings are constants of the models. Audit
and analytics only record or read. Views are modelled where they are the transaction or the check (loan approval,
the queue's and upload's requests, the triggers of jobs), else they pass on what the services do. Interest rate changes save a
rate alone. Agreements: section 6. Of sync, downloads and metadata only read or count, conflicts are
never created, and the reset wipes tables. In-app notices are rows nobody acts on.
