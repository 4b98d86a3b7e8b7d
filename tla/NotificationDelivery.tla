------------------------- MODULE NotificationDelivery -------------------------
(***************************************************************************)
(* E-mails and text messages to borrowers.  A call that wants one sent     *)
(* inserts a NotificationLog row; the row's save signal queues a send      *)
(* task, at once, before the call commits.  Celery workers take tasks off  *)
(* the broker, try to send, and then fetch and save the log.  A failure is *)
(* retried three ways: by the task itself, by the save signal of the       *)
(* failed log, and by an hourly job; a job that runs every quarter of an   *)
(* hour queues again whatever is still queued.                             *)
(*                                                                         *)
(* Tasks run in autocommit mode: between a worker's fetch of a log and its *)
(* save of all the log's fields others may save it.  Tasks are             *)
(* acknowledged when taken, so a worker that dies takes its task along.    *)
(***************************************************************************)
EXTENDS Integers, FiniteSets, Bags

CONSTANTS
  Logs,         \* identifiers of notification logs
  Workers,      \* worker processes
  MaxRetries,   \* NotificationLogStateTransitionService.MAX_RETRIES
  MaxAttempts,  \* max_retries of the send tasks
  MailSeen,     \* what a look at the e-mail settings may find
  MaxQueue,     \* bound: tasks in the broker before a job or a user adds one
  MaxTroubles   \* bound: failed sends, worker deaths and manual retries taken together

ASSUME DeliveryAssumption ==
  /\ MaxRetries \in Nat /\ MaxAttempts \in Nat /\ MaxQueue \in Nat /\ MaxTroubles \in Nat
  /\ MailSeen \subseteq {"on", "off", "unconfigured"}

VARIABLES
  logs,      \* [Logs -> row of NotificationLog]
  broker,    \* the bag of send tasks queued
  workers,   \* [Workers -> what the process is doing]
  reached,   \* history: the logs whose text has reached a recipient
  mislaid,   \* history: the logs left queued without a task (see NothingForgotten)
  troubles   \* failed sends, worker deaths and manual retries so far

deliveryVars == <<logs, broker, workers, reached, mislaid, troubles>>

(* A row has a channel, perhaps an e-mail address (recipient_email) and    *)
(* perhaps a recipient.  A draft is inserted but not committed.            *)
Channel == {"email", "sms"}
Status == {"queued", "sent", "failed"}
Row == [state: {"none", "draft", "live", "gone"}, channel: Channel, address: BOOLEAN,
        recipient: BOOLEAN, status: Status, retries: Nat]

NoRow == [state |-> "none", channel |-> "email", address |-> FALSE, recipient |-> FALSE,
          status |-> "queued", retries |-> 0]

Draft(channel, address, recipient) ==
  [state |-> "draft", channel |-> channel, address |-> address, recipient |-> recipient,
   status |-> "queued", retries |-> 0]

(* A send task: whom it was given to send to, if anyone, and how often it  *)
(* has retried itself.                                                     *)
Task == [log: Logs, channel: Channel, to: BOOLEAN, attempt: Nat]
SendTask(l, channel, to) == [log |-> l, channel |-> channel, to |-> to, attempt |-> 0]

(* A worker is idle, about to send (send), about to fetch the log and to   *)
(* save the outcome (fetch, save), about to run the failed log's on_retry  *)
(* (requeue), about to commit it (commit), or in the hourly job with a     *)
(* failed log (rescue).                                                    *)
Idle == [phase |-> "idle"]
Busy(l) == \E w \in Workers : workers[w].phase # "idle" /\ workers[w].log = l
Live(l) == logs[l].state = "live"

\* An on_retry has saved the log: others read its old row, and wait before they write it.
Locked(l) == \E w \in Workers : workers[w].phase = "commit" /\ workers[w].log = l

Add(task) == broker' = broker (+) SetToBag({task})
Trouble == troubles < MaxTroubles /\ troubles' = troubles + 1
HasRoom == BagCardinality(broker) < MaxQueue

(***************************************************************************)
(* Creating a log, within the transaction of a larger call.                *)
(***************************************************************************)
(* The transitions create e-mails and text messages with a recipient, which *)
(* create copies into recipient_email for e-mails.  The endpoint requires   *)
(* recipient_email only.                                                    *)
Creatable(row) ==
  \/ row.recipient /\ row.address = (row.channel = "email")
  \/ row.address

Create(l) ==
  /\ logs[l].state = "none"
  /\ \E channel \in Channel, address, recipient \in BOOLEAN :
       /\ Creatable(Draft(channel, address, recipient))
       /\ logs' = [logs EXCEPT ![l] = Draft(channel, address, recipient)]
       /\ Add(SendTask(l, channel, recipient))
  /\ UNCHANGED <<workers, reached, mislaid, troubles>>

Commit(l) ==
  /\ logs[l].state = "draft"
  /\ logs' = [logs EXCEPT ![l].state = "live"]
  /\ UNCHANGED <<broker, workers, reached, mislaid, troubles>>

RollBack(l) ==
  /\ logs[l].state = "draft"
  /\ logs' = [logs EXCEPT ![l].state = "gone"]
  /\ UNCHANGED <<broker, workers, reached, mislaid, troubles>>

(***************************************************************************)
(* The send tasks.                                                         *)
(***************************************************************************)
Take(w) ==
  /\ workers[w].phase = "idle"
  /\ \E task \in BagToSet(broker) :
       /\ broker' = broker (-) SetToBag({task})
       /\ workers' = [workers EXCEPT ![w] = [phase |-> "send", log |-> task.log, task |-> task]]
  /\ UNCHANGED <<logs, reached, mislaid, troubles>>

Report(w, status, again) ==
  workers' = [workers EXCEPT ![w] = [phase |-> "fetch", log |-> workers[w].log,
                task |-> workers[w].task, status |-> status, again |-> again]]

(* Django drops an empty recipient and sends nothing, which is no error.   *)
SendEmail(w) ==
  LET task == workers[w].task
  IN  /\ workers[w].phase = "send" /\ task.channel = "email"
      /\ \E mail \in MailSeen :
           \/ /\ mail # "on"
              /\ Trouble
              /\ Report(w, "failed", FALSE)
              /\ UNCHANGED reached
           \/ /\ mail = "on"
              /\ Report(w, "sent", FALSE)
              /\ reached' = IF task.to THEN reached \cup {task.log} ELSE reached
              /\ UNCHANGED troubles
           \/ /\ mail = "on" /\ task.to
              /\ Trouble
              /\ Report(w, "failed", task.attempt < MaxAttempts)
              /\ UNCHANGED reached
      /\ UNCHANGED <<logs, broker, mislaid>>

\* Formatting a missing number raises, like a refusal by the provider.
SendSms(w) ==
  LET task == workers[w].task
  IN  /\ workers[w].phase = "send" /\ task.channel = "sms"
      /\ \/ /\ task.to
            /\ Report(w, "sent", FALSE)
            /\ reached' = reached \cup {task.log}
            /\ UNCHANGED troubles
         \/ /\ task.to => Trouble
            /\ ~task.to => UNCHANGED troubles
            /\ Report(w, "failed", task.attempt < MaxAttempts)
            /\ UNCHANGED reached
         \/ /\ Trouble                           \* disabled, or no credentials
            /\ Report(w, "failed", FALSE)
            /\ UNCHANGED reached
      /\ UNCHANGED <<logs, broker, mislaid>>

(* The end of a task, which queues itself again after an exception.        *)
Finish(w) ==
  /\ workers' = [workers EXCEPT ![w] = Idle]
  /\ IF workers[w].again
     THEN Add([workers[w].task EXCEPT !.attempt = @ + 1])
     ELSE UNCHANGED broker

(* _update_log_status fetches the log; one not committed yet is not found, *)
(* and one that has the status already is left alone, so that the task of  *)
(* a retry that is not committed yet may end without a trace.              *)
Fetch(w) ==
  LET l == workers[w].log
  IN  /\ workers[w].phase = "fetch"
      /\ IF Live(l) /\ logs[l].status # workers[w].status
         THEN /\ workers' = [workers EXCEPT ![w] =
                   [phase |-> "save", log |-> l, task |-> @.task, again |-> @.again,
                    row |-> [logs[l] EXCEPT !.status = workers[w].status]]]
              /\ UNCHANGED <<broker, mislaid>>
         ELSE /\ Finish(w)
              /\ mislaid' = IF logs[l].state = "draft" \/ Locked(l) THEN mislaid \cup {l} ELSE mislaid
      /\ UNCHANGED <<logs, reached, troubles>>

(* notification_log_post_save compares with the status its pre_save found; *)
(* that read and the UPDATE are one step here.                             *)
RetriesOnSave(stored, row) ==
  stored # row.status /\ row.status = "failed" /\ row.retries < MaxRetries

Save(w) ==
  LET l == workers[w].log  row == workers[w].row
  IN  /\ workers[w].phase = "save" /\ ~Locked(l)
      /\ logs' = [logs EXCEPT ![l] = row]
      /\ IF RetriesOnSave(logs[l].status, row)
         THEN /\ workers' = [workers EXCEPT ![w].phase = "requeue"]
              /\ UNCHANGED broker
         ELSE Finish(w)
      /\ UNCHANGED <<reached, mislaid, troubles>>

\* Wrong variant: the status users' resends once had.
RetriedAsResend(row) == [row EXCEPT !.retries = @ + 1, !.status = "resend"]

Retried(row) == [row EXCEPT !.retries = @ + 1, !.status = "queued"]

\* Wrong variant: the address is kept for e-mail logs only.
RetryTaskOfEmails(l, row) == SendTask(l, "email", row.address /\ row.channel = "email")

\* A retry is an e-mail, whatever the channel of the log.
RetryTask(l, row) == SendTask(l, "email", row.address)

(* on_retry, a transaction of its own, saves its instance and queues a     *)
(* task, or none if e-mail is off; then it commits.                        *)
Requeue(w) ==
  LET l == workers[w].log
  IN  /\ workers[w].phase = "requeue" /\ ~Locked(l)
      /\ workers' = [workers EXCEPT ![w].phase = "commit"]
      /\ \E mail \in MailSeen :
           \/ /\ mail # "off"
              /\ Add(RetryTask(l, Retried(workers[w].row)))
              /\ UNCHANGED mislaid
           \/ /\ mail = "off"
              /\ mislaid' = mislaid \cup {l}
              /\ UNCHANGED broker
      /\ UNCHANGED <<logs, reached, troubles>>

CommitRetry(w) ==
  /\ workers[w].phase = "commit"
  /\ logs' = [logs EXCEPT ![workers[w].log] = Retried(workers[w].row)]
  /\ Finish(w)
  /\ UNCHANGED <<reached, mislaid, troubles>>

(***************************************************************************)
(* The jobs.                                                               *)
(***************************************************************************)
\* Wrong variant: the query stops one retry short.
BeginRescueEarly(w, l) ==
  /\ workers[w].phase = "idle"
  /\ Live(l) /\ logs[l].status = "failed" /\ logs[l].retries + 1 < MaxRetries
  /\ MailSeen # {"off"}
  /\ workers' = [workers EXCEPT ![w] = [phase |-> "rescue", log |-> l, row |-> logs[l]]]
  /\ UNCHANGED <<logs, broker, reached, mislaid, troubles>>

(* retry_failed_notifications, for one log its query has loaded.           *)
BeginRescue(w, l) ==
  /\ workers[w].phase = "idle"
  /\ Live(l) /\ logs[l].status = "failed" /\ logs[l].retries < MaxRetries
  /\ MailSeen # {"off"}
  /\ workers' = [workers EXCEPT ![w] = [phase |-> "rescue", log |-> l, row |-> logs[l]]]
  /\ UNCHANGED <<logs, broker, reached, mislaid, troubles>>

\* Wrong variant: the job leaves the sending to the quarter-hourly job.
RescueUnsent(w) ==
  LET l == workers[w].log
  IN  /\ workers[w].phase = "rescue" /\ ~Locked(l)
      /\ logs' = [logs EXCEPT ![l] = Retried(workers[w].row)]
      /\ workers' = [workers EXCEPT ![w] = Idle]
      /\ UNCHANGED <<broker, reached, mislaid, troubles>>

Rescue(w) ==
  LET l == workers[w].log
  IN  /\ workers[w].phase = "rescue" /\ ~Locked(l)
      /\ logs' = [logs EXCEPT ![l] = Retried(workers[w].row)]
      /\ Add(RetryTask(l, workers[w].row))
      /\ workers' = [workers EXCEPT ![w] = Idle]
      /\ UNCHANGED <<reached, mislaid, troubles>>

(* send_scheduled_notifications queues every queued log with an address.   *)
SendScheduled(l) ==
  /\ Live(l) /\ logs[l].status = "queued" /\ logs[l].address
  /\ HasRoom
  /\ Add(SendTask(l, "email", TRUE))
  /\ UNCHANGED <<logs, workers, reached, mislaid, troubles>>

(* cleanup_old_notification_logs; a log of that age has nothing under way. *)
CleanUp(l) ==
  /\ Live(l)
  /\ ~Busy(l) /\ ~\E task \in BagToSet(broker) : task.log = l
  /\ logs' = [logs EXCEPT ![l].state = "gone"]
  /\ UNCHANGED <<broker, workers, reached, mislaid, troubles>>

(***************************************************************************)
(* Users, and deaths of workers.                                           *)
(***************************************************************************)
(* retry_failed and retry_all_failed mark a log and queue no task.         *)
RetryFailed(l) ==
  /\ Live(l) /\ ~Locked(l) /\ logs[l].status \in {"failed", "queued"}
  /\ Trouble
  /\ logs' = [logs EXCEPT ![l] = Retried(@)]
  /\ mislaid' = mislaid \cup {l}
  /\ UNCHANGED <<broker, workers, reached>>

Resend(l) ==
  /\ Live(l) /\ ~Locked(l)
  /\ Trouble
  /\ logs' = [logs EXCEPT ![l].status = "queued"]
  /\ mislaid' = mislaid \cup {l}
  /\ UNCHANGED <<broker, workers, reached>>

(* A worker dies.  An on_retry not committed leaves its task and no row;   *)
(* the hourly job saves the log before it queues the task.                 *)
Die(w) ==
  LET l == workers[w].log
  IN  /\ workers[w].phase # "idle"
      /\ Trouble
      /\ workers' = [workers EXCEPT ![w] = Idle]
      /\ mislaid' = mislaid \cup {l}
      /\ \/ UNCHANGED logs
         \/ /\ workers[w].phase = "rescue" /\ ~Locked(l)
            /\ logs' = [logs EXCEPT ![l] = Retried(workers[w].row)]
      /\ UNCHANGED <<broker, reached>>

DeliveryInit ==
  /\ logs = [l \in Logs |-> NoRow]
  /\ broker = EmptyBag
  /\ workers = [w \in Workers |-> Idle]
  /\ reached = {} /\ mislaid = {} /\ troubles = 0

Work(w) ==
  \/ Take(w) \/ SendEmail(w) \/ SendSms(w) \/ Fetch(w) \/ Save(w)
  \/ Requeue(w) \/ CommitRetry(w) \/ Rescue(w)

DeliveryNext ==
  \/ \E l \in Logs : Create(l) \/ Commit(l) \/ RollBack(l)
  \/ \E w \in Workers : Work(w) \/ Die(w)
  \/ \E w \in Workers, l \in Logs : BeginRescue(w, l)
  \/ \E l \in Logs : SendScheduled(l) \/ CleanUp(l) \/ RetryFailed(l) \/ Resend(l)

DeliverySpec == DeliveryInit /\ [][DeliveryNext]_deliveryVars

(* Workers work, a dead one being replaced, and beat starts both jobs over *)
(* and over: their entries in the schedule name them as they are           *)
(* registered.                                                             *)
FairDelivery ==
  /\ DeliverySpec
  /\ \A w \in Workers : WF_deliveryVars(Work(w))
  /\ \A l \in Logs : WF_deliveryVars(SendScheduled(l))
  /\ \A l \in Logs : SF_deliveryVars(\E w \in Workers : BeginRescue(w, l))

(***************************************************************************)
(* Properties.                                                             *)
(***************************************************************************)
DeliveryTypeOK ==
  /\ logs \in [Logs -> Row]
  /\ IsABag(broker) /\ BagToSet(broker) \subseteq Task
  /\ \A w \in Workers :
       /\ workers[w].phase \in {"idle", "send", "fetch", "save", "requeue", "commit", "rescue"}
       /\ workers[w].phase # "idle" => workers[w].log \in Logs
  /\ reached \subseteq Logs /\ mislaid \subseteq Logs
  /\ troubles \in 0..MaxTroubles

(* A log marked sent has reached somebody, whichever of its tasks, retries *)
(* and overtaken saves has marked it, if its creator gave it both an       *)
(* address and a recipient.  (For the others see the README.)              *)
SentIsReached ==
  \A l \in Logs :
    logs[l].state = "live" /\ logs[l].address /\ logs[l].recipient /\ logs[l].status = "sent"
    => l \in reached

(* A committed log that is still queued is on its way: a task for it is in *)
(* the broker or a worker has one, unless a worker has died with it, a     *)
(* user has asked for a retry, e-mail was off when it was queued, or a     *)
(* task for it ran before the call or the retry that queued it committed.  *)
NothingForgotten ==
  \A l \in Logs :
    Live(l) /\ logs[l].status = "queued" /\ l \notin mislaid
    => Busy(l) \/ \E task \in BagToSet(broker) : task.log = l

(* However its saves overlap and whatever is lost on the way, a log with   *)
(* an address ends up sent, or failed with its automatic retries used up.  *)
GivenUp(l) == logs[l].status = "failed" /\ logs[l].retries >= MaxRetries

NoticesSettle ==
  \A l \in Logs : (Live(l) /\ logs[l].address) ~> (logs[l].status = "sent" \/ GivenUp(l) \/ ~Live(l))
===============================================================================
