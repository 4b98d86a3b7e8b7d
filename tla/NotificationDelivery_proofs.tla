---------------------- MODULE NotificationDelivery_proofs ----------------------
(***************************************************************************)
(* However many logs, workers, retries and failures there are, and however *)
(* saves overtake each other, a log marked sent has reached somebody, and  *)
(* one still queued is on its way or was lost in a way the code has.       *)
(***************************************************************************)
EXTENDS NotificationDelivery, TLAPS

(***************************************************************************)
(* The broker is a bag of messages.                                        *)
(***************************************************************************)
\* A message put on a broker is there, and nothing else is new.
LEMMA PutIn ==
  ASSUME NEW B, IsABag(B), NEW S
  PROVE  IsABag(B (+) SetToBag(S)) /\ BagToSet(B (+) SetToBag(S)) = BagToSet(B) \cup S
<1> DEFINE C == B (+) SetToBag(S)
<1>1. C = [e \in DOMAIN B \cup S |-> (IF e \in DOMAIN B THEN B[e] ELSE 0) + (IF e \in S THEN 1 ELSE 0)]
  BY DEF (+), SetToBag
<1>2. \A e \in DOMAIN B : B[e] \in Nat /\ B[e] > 0
  BY DEF IsABag
<1>3. DOMAIN C = DOMAIN B \cup S
  BY <1>1
<1>4. \A e \in DOMAIN C : C[e] \in {n \in Nat : n > 0}
  BY <1>1, <1>2
<1> QED BY <1>1, <1>3, <1>4 DEF IsABag, BagToSet

\* Taking a message off a broker leaves all others.
LEMMA TakeOut ==
  ASSUME NEW B, IsABag(B), NEW task
  PROVE  /\ IsABag(B (-) SetToBag({task}))
         /\ BagToSet(B (-) SetToBag({task})) \subseteq BagToSet(B)
         /\ BagToSet(B) \ {task} \subseteq BagToSet(B (-) SetToBag({task}))
<1> DEFINE L == [e \in DOMAIN B |-> IF e = task THEN B[e] - 1 ELSE B[e]]
           C == B (-) SetToBag({task})
<1>1. C = [e \in {d \in DOMAIN L : L[d] > 0} |-> L[e]]
  BY DEF (-), SetToBag
<1>2. \A e \in DOMAIN B : B[e] \in Nat /\ B[e] > 0
  BY DEF IsABag
<1>3. DOMAIN C = {e \in DOMAIN B : L[e] > 0}
  BY <1>1
<1>4. \A e \in DOMAIN B : L[e] \in Int
  BY <1>2
<1>5. \A e \in DOMAIN C : C[e] = L[e] /\ L[e] > 0 /\ e \in DOMAIN B
  BY <1>1, <1>3
<1>6. \A e \in DOMAIN C : C[e] \in {n \in Nat : n > 0}
  <2> HIDE DEF L, C
  <2> QED BY <1>4, <1>5
<1> QED BY <1>1, <1>2, <1>3, <1>6 DEF IsABag, BagToSet

\* An empty broker.
LEMMA Nothing == IsABag(EmptyBag) /\ BagToSet(EmptyBag) = {}
BY DEF IsABag, BagToSet, EmptyBag, SetToBag

(***************************************************************************)
(* Types.                                                                  *)
(***************************************************************************)
Sending == [phase: {"send"}, log: Logs, task: Task]
Reporting == [phase: {"fetch"}, log: Logs, task: Task, status: {"sent", "failed"}, again: BOOLEAN]
\* What a worker saves says sent or failed.
Outcome == {row \in Row : row.status # "queued"}
Saving == [phase: {"save", "requeue", "commit"}, log: Logs, task: Task, again: BOOLEAN, row: Outcome]
Rescuing == [phase: {"rescue"}, log: Logs, row: Row]

BrokerTypes == IsABag(broker) /\ BagToSet(broker) \subseteq Task
WorkerTypes == workers \in [Workers -> {Idle} \cup Sending \cup Reporting \cup Saving \cup Rescuing]

Types ==
  /\ logs \in [Logs -> Row]
  /\ BrokerTypes
  /\ WorkerTypes
  /\ reached \subseteq Logs /\ mislaid \subseteq Logs
  /\ troubles \in 0..MaxTroubles

LEMMA AddTypes ==
  ASSUME BrokerTypes, NEW task \in Task, Add(task)
  PROVE  BrokerTypes' /\ BagToSet(broker') = BagToSet(broker) \cup {task}
BY PutIn DEF BrokerTypes, Add

LEMMA TroubleTypes ==
  ASSUME troubles \in 0..MaxTroubles, Trouble
  PROVE  troubles' \in 0..MaxTroubles
BY DeliveryAssumption DEF Trouble

\* The two task makers and the task a task queues again.
LEMMA NewTasks ==
  ASSUME NEW l \in Logs
  PROVE  /\ \A channel \in Channel, to \in BOOLEAN : SendTask(l, channel, to) \in Task
         /\ \A row \in Row : RetryTask(l, row) \in Task
         /\ \A task \in Task : [task EXCEPT !.attempt = @ + 1] \in Task
BY DEF SendTask, RetryTask, Task, Channel, Row

LEMMA NewRows ==
  ASSUME NEW row \in Row
  PROVE  /\ \A status \in Status : [row EXCEPT !.status = status] \in Row
         /\ \A state \in {"none", "draft", "live", "gone"} : [row EXCEPT !.state = state] \in Row
         /\ Retried(row) \in Row
<1>1. \A r \in Row, status \in Status : [r EXCEPT !.status = status] \in Row
  BY DEF Row, Status
<1>2. \A state \in {"none", "draft", "live", "gone"} : [row EXCEPT !.state = state] \in Row
  BY DEF Row
<1>3. Retried(row) \in Row
  <2> DEFINE r == [row EXCEPT !.retries = @ + 1]
  <2>1. r \in Row
    BY DEF Row
  <2>2. Retried(row) = [r EXCEPT !.status = "queued"]
    BY DEF Retried, Row
  <2> HIDE DEF r
  <2> QED BY <1>1, <2>1, <2>2 DEF Status
<1> QED BY <1>1, <1>2, <1>3

LEMMA WorkerIs ==
  ASSUME WorkerTypes, NEW w \in Workers
  PROVE  /\ workers[w].phase = "idle" => workers[w] = Idle
         /\ workers[w].phase = "send" => workers[w] \in Sending
         /\ workers[w].phase = "fetch" => workers[w] \in Reporting
         /\ workers[w].phase \in {"save", "requeue", "commit"} => workers[w] \in Saving
         /\ workers[w].phase = "rescue" => workers[w] \in Rescuing
         /\ workers[w].phase # "idle" => workers[w].log \in Logs
<1>1. workers[w] \in {Idle} \cup Sending \cup Reporting \cup Saving \cup Rescuing
  BY DEF WorkerTypes
<1> QED BY <1>1 DEF Idle, Sending, Reporting, Saving, Rescuing

LEMMA FinishTypes ==
  ASSUME Types, NEW w \in Workers, workers[w].task \in Task, Finish(w)
  PROVE  /\ BrokerTypes' /\ WorkerTypes'
         /\ \/ broker' = broker
            \/ BagToSet(broker') = BagToSet(broker) \cup {[workers[w].task EXCEPT !.attempt = @ + 1]}
         /\ workers' = [workers EXCEPT ![w] = Idle]
<1>1. WorkerTypes' /\ workers' = [workers EXCEPT ![w] = Idle]
  BY DEF Finish, Types, WorkerTypes
<1>2. CASE UNCHANGED broker
  BY <1>1, <1>2 DEF Types, BrokerTypes
<1>3. CASE Add([workers[w].task EXCEPT !.attempt = @ + 1])
  <2>1. [workers[w].task EXCEPT !.attempt = @ + 1] \in Task
    BY DEF Task
  <2> QED BY <1>1, <1>3, <2>1, AddTypes DEF Types
<1> QED BY <1>2, <1>3 DEF Finish

LEMMA TypesInit == DeliveryInit => Types
<1>1. NoRow \in Row
  BY DEF NoRow, Row, Channel, Status
<1>2. DeliveryInit => BrokerTypes
  BY Nothing DEF DeliveryInit, BrokerTypes
<1> QED BY <1>1, <1>2, DeliveryAssumption DEF DeliveryInit, Types, WorkerTypes

LEMMA CallTypes ==
  ASSUME Types, NEW l \in Logs, Create(l) \/ Commit(l) \/ RollBack(l)
  PROVE  Types'
<1>1. CASE Create(l)
  <2>1. PICK channel \in Channel, address \in BOOLEAN, recipient \in BOOLEAN :
          /\ logs' = [logs EXCEPT ![l] = Draft(channel, address, recipient)]
          /\ Add(SendTask(l, channel, recipient))
    BY <1>1 DEF Create
  <2>2. Draft(channel, address, recipient) \in Row
    BY DEF Draft, Row, Status
  <2>3. BrokerTypes'
    BY <2>1, NewTasks, AddTypes DEF Types
  <2>4. logs' \in [Logs -> Row]
    BY <2>1, <2>2 DEF Types
  <2> QED BY <1>1, <2>3, <2>4 DEF Create, Types, WorkerTypes
<1>2. CASE Commit(l) \/ RollBack(l)
  <2>1. PICK state \in {"live", "gone"} : logs' = [logs EXCEPT ![l].state = state]
    BY <1>2 DEF Commit, RollBack
  <2>2. [logs[l] EXCEPT !.state = state] \in Row
    BY NewRows DEF Types
  <2>3. logs' \in [Logs -> Row]
    BY <2>1, <2>2 DEF Types
  <2> QED BY <1>2, <2>3 DEF Commit, RollBack, Types, WorkerTypes, BrokerTypes
<1> QED BY <1>1, <1>2

LEMMA WorkTypes ==
  ASSUME Types, NEW w \in Workers, Work(w)
  PROVE  Types'
<1>0. BrokerTypes /\ WorkerTypes
  BY DEF Types
<1>1. CASE Take(w)
  <2>1. PICK task \in BagToSet(broker) :
          /\ broker' = broker (-) SetToBag({task})
          /\ workers' = [workers EXCEPT ![w] = [phase |-> "send", log |-> task.log, task |-> task]]
    BY <1>1 DEF Take
  <2>2. BrokerTypes' /\ task \in Task
    BY <1>0, <2>1, TakeOut DEF BrokerTypes
  <2>3. [phase |-> "send", log |-> task.log, task |-> task] \in Sending
    BY <2>2 DEF Sending, Task
  <2>4. WorkerTypes'
    BY <1>0, <2>1, <2>3 DEF WorkerTypes
  <2> QED BY <1>1, <2>2, <2>4 DEF Take, Types
<1>2. CASE SendEmail(w) \/ SendSms(w)
  <2>1. workers[w].log \in Logs /\ workers[w].task \in Task /\ workers[w].task.attempt \in Nat
    BY <1>0, <1>2, WorkerIs DEF SendEmail, SendSms, Sending, Task
  <2>2. PICK status \in {"sent", "failed"}, again \in BOOLEAN : Report(w, status, again)
    <3>1. (workers[w].task.attempt < MaxAttempts) \in BOOLEAN
      OBVIOUS
    <3>2. CASE SendEmail(w)
      BY <3>1, <3>2 DEF SendEmail
    <3>3. CASE SendSms(w)
      BY <3>1, <3>3 DEF SendSms
    <3> QED BY <1>2, <3>2, <3>3
  <2>3. WorkerTypes'
    BY <1>0, <2>1, <2>2 DEF Report, WorkerTypes, Reporting
  <2>4. reached' \subseteq Logs /\ troubles' \in 0..MaxTroubles
    BY <1>2, <2>1, TroubleTypes DEF SendEmail, SendSms, Types, Sending, Task
  <2> QED BY <1>2, <2>3, <2>4 DEF SendEmail, SendSms, Types, BrokerTypes
<1>3. CASE Fetch(w)
  <2> DEFINE l == workers[w].log
  <2>1. workers[w] \in Reporting
    BY <1>0, <1>3, WorkerIs DEF Fetch
  <2>2. l \in Logs /\ workers[w].task \in Task
    BY <2>1 DEF Reporting
  <2>3. mislaid' \subseteq Logs
    BY <1>3, <2>2 DEF Fetch, Types
  <2>4. CASE Finish(w)
    BY <1>3, <2>2, <2>3, <2>4, FinishTypes DEF Fetch, Types
  <2>5. CASE ~Finish(w)
    <3>1. workers' = [workers EXCEPT ![w] =
                   [phase |-> "save", log |-> l, task |-> workers[w].task, again |-> workers[w].again,
                    row |-> [logs[l] EXCEPT !.status = workers[w].status]]]
      BY <1>3, <2>5 DEF Fetch
    <3>2. [logs[l] EXCEPT !.status = workers[w].status] \in Outcome
      <4>1. [logs[l] EXCEPT !.status = workers[w].status] \in Row
        BY <2>1, <2>2, NewRows DEF Types, Reporting, Status
      <4>2. [logs[l] EXCEPT !.status = workers[w].status].status = workers[w].status
        BY <2>2 DEF Types, Row
      <4> QED BY <2>1, <4>1, <4>2 DEF Outcome, Reporting
    <3>3. [phase |-> "save", log |-> l, task |-> workers[w].task, again |-> workers[w].again,
           row |-> [logs[l] EXCEPT !.status = workers[w].status]] \in Saving
      BY <2>1, <3>2 DEF Reporting, Saving
    <3>4. WorkerTypes'
      BY <1>0, <3>1, <3>3 DEF WorkerTypes
    <3> QED BY <1>3, <2>3, <2>5, <3>4 DEF Fetch, Types, BrokerTypes
  <2> QED BY <2>4, <2>5
<1>4. CASE Save(w)
  <2>1. workers[w] \in Saving
    BY <1>0, <1>4, WorkerIs DEF Save
  <2>2. workers[w].log \in Logs /\ workers[w].row \in Row /\ workers[w].task \in Task
    BY <2>1 DEF Saving, Outcome
  <2>3. logs' \in [Logs -> Row]
    BY <1>4, <2>2 DEF Save, Types
  <2>4. CASE Finish(w)
    BY <1>4, <2>2, <2>3, <2>4, FinishTypes DEF Save, Types
  <2>5. CASE ~Finish(w)
    <3>1. workers' = [workers EXCEPT ![w].phase = "requeue"]
      BY <1>4, <2>5 DEF Save
    <3>2. [workers[w] EXCEPT !.phase = "requeue"] \in Saving
      BY <2>1 DEF Saving
    <3>3. WorkerTypes'
      BY <1>0, <3>1, <3>2 DEF WorkerTypes
    <3> QED BY <1>4, <2>3, <2>5, <3>3 DEF Save, Types, BrokerTypes
  <2> QED BY <2>4, <2>5
<1>5. CASE Requeue(w) \/ CommitRetry(w)
  <2>1. workers[w] \in Saving
    BY <1>0, <1>5, WorkerIs DEF Requeue, CommitRetry
  <2>2. /\ workers[w].log \in Logs /\ Retried(workers[w].row) \in Row /\ workers[w].task \in Task
        /\ RetryTask(workers[w].log, Retried(workers[w].row)) \in Task
    <3>1. workers[w].log \in Logs /\ workers[w].row \in Row /\ workers[w].task \in Task
      BY <2>1 DEF Saving, Outcome
    <3>2. Retried(workers[w].row) \in Row
      BY <3>1, NewRows
    <3> QED BY <3>1, <3>2, NewTasks
  <2>3. CASE Requeue(w)
    <3>1. mislaid' \subseteq Logs
      BY <2>2, <2>3 DEF Requeue, Types
    <3>2. [workers[w] EXCEPT !.phase = "commit"] \in Saving
      BY <2>1 DEF Saving
    <3>3. WorkerTypes'
      BY <1>0, <2>3, <3>2 DEF Requeue, WorkerTypes
    <3>4. BrokerTypes'
      <4>1. CASE UNCHANGED broker
        BY <1>0, <4>1 DEF BrokerTypes
      <4>2. CASE Add(RetryTask(workers[w].log, Retried(workers[w].row)))
        BY <1>0, <2>2, <4>2, AddTypes
      <4> QED BY <2>3, <4>1, <4>2 DEF Requeue
    <3> QED BY <2>3, <3>1, <3>3, <3>4 DEF Requeue, Types
  <2>4. CASE CommitRetry(w)
    <3>1. logs' \in [Logs -> Row]
      BY <2>2, <2>4 DEF CommitRetry, Types
    <3> QED BY <2>2, <2>4, <3>1, FinishTypes DEF CommitRetry, Types
  <2> QED BY <1>5, <2>3, <2>4
<1>6. CASE Rescue(w)
  <2>1. workers[w] \in Rescuing
    BY <1>0, <1>6, WorkerIs DEF Rescue
  <2>2. /\ workers[w].log \in Logs /\ Retried(workers[w].row) \in Row
        /\ RetryTask(workers[w].log, workers[w].row) \in Task
    BY <2>1, NewRows, NewTasks DEF Rescuing
  <2>3. logs' \in [Logs -> Row]
    BY <1>6, <2>2 DEF Rescue, Types
  <2>4. BrokerTypes'
    BY <1>0, <1>6, <2>2, AddTypes DEF Rescue
  <2>5. WorkerTypes'
    BY <1>0, <1>6 DEF Rescue, WorkerTypes
  <2> QED BY <1>6, <2>3, <2>4, <2>5 DEF Rescue, Types
<1> QED BY <1>1, <1>2, <1>3, <1>4, <1>5, <1>6 DEF Work

LEMMA JobTypes ==
  ASSUME Types, NEW l \in Logs,
         (\E w \in Workers : BeginRescue(w, l)) \/ SendScheduled(l) \/ CleanUp(l)
           \/ RetryFailed(l) \/ Resend(l)
  PROVE  Types'
<1>0. BrokerTypes /\ WorkerTypes /\ logs[l] \in Row
  BY DEF Types
<1>1. ASSUME NEW w \in Workers, BeginRescue(w, l) PROVE Types'
  <2>1. [phase |-> "rescue", log |-> l, row |-> logs[l]] \in Rescuing
    BY <1>0 DEF Rescuing
  <2>2. WorkerTypes'
    BY <1>0, <1>1, <2>1 DEF BeginRescue, WorkerTypes
  <2> QED BY <1>1, <2>2 DEF BeginRescue, Types, BrokerTypes
<1>2. CASE SendScheduled(l)
  <2>1. BrokerTypes'
    BY <1>0, <1>2, NewTasks, AddTypes DEF SendScheduled, Channel
  <2> QED BY <1>2, <2>1 DEF SendScheduled, Types, WorkerTypes
<1>3. CASE CleanUp(l)
  <2>1. logs' \in [Logs -> Row]
    BY <1>0, <1>3, NewRows DEF CleanUp, Types
  <2> QED BY <1>3, <2>1 DEF CleanUp, Types, WorkerTypes, BrokerTypes
<1>4. CASE RetryFailed(l)
  <2>1. logs' \in [Logs -> Row]
    BY <1>0, <1>4, NewRows DEF RetryFailed, Types
  <2> QED BY <1>4, <2>1, TroubleTypes DEF RetryFailed, Types, WorkerTypes, BrokerTypes
<1>5. CASE Resend(l)
  <2>1. logs' \in [Logs -> Row]
    BY <1>0, <1>5, NewRows DEF Resend, Types, Status
  <2> QED BY <1>5, <2>1, TroubleTypes DEF Resend, Types, WorkerTypes, BrokerTypes
<1> QED BY <1>1, <1>2, <1>3, <1>4, <1>5

LEMMA DieTypes ==
  ASSUME Types, NEW w \in Workers, Die(w)
  PROVE  Types'
<1>0. BrokerTypes /\ WorkerTypes /\ workers[w].log \in Logs
  BY WorkerIs DEF Types, Die
<1>1. troubles' \in 0..MaxTroubles /\ mislaid' \subseteq Logs /\ WorkerTypes' /\ reached' = reached
  BY <1>0, TroubleTypes DEF Die, Types, WorkerTypes
<1>2. CASE UNCHANGED <<logs, broker>>
  BY <1>1, <1>2 DEF Types, BrokerTypes
<1>3. CASE /\ workers[w].phase = "rescue" /\ ~Locked(workers[w].log)
           /\ logs' = [logs EXCEPT ![workers[w].log] = Retried(workers[w].row)]
           /\ UNCHANGED broker
  <2>1. logs' \in [Logs -> Row]
    BY <1>0, <1>3, WorkerIs, NewRows DEF Rescuing, Types
  <2> QED BY <1>1, <1>3, <2>1 DEF Types, BrokerTypes
<1> QED BY <1>2, <1>3 DEF Die

LEMMA TypesStep == Types /\ [DeliveryNext]_deliveryVars => Types'
<1> SUFFICES ASSUME Types, [DeliveryNext]_deliveryVars PROVE Types'
  OBVIOUS
<1>1. CASE UNCHANGED deliveryVars
  BY <1>1 DEF deliveryVars, Types, BrokerTypes, WorkerTypes
<1> QED BY <1>1, CallTypes, WorkTypes, DieTypes, JobTypes DEF DeliveryNext

LEMMA TypesAlways == DeliverySpec => []Types
BY TypesInit, TypesStep, PTL DEF DeliverySpec

\* Rows, tasks and workers stay well formed, with any number of logs, workers and tasks.
THEOREM DeliveryTypes == DeliverySpec => []DeliveryTypeOK
<1>1. Types => DeliveryTypeOK
  BY WorkerIs DEF Types, BrokerTypes, WorkerTypes, DeliveryTypeOK, Idle, Sending, Reporting,
                  Saving, Rescuing
<1> QED BY <1>1, TypesAlways, PTL

(***************************************************************************)
(* Nothing is forgotten.                                                   *)
(***************************************************************************)
HasTask(l) == \E task \in BagToSet(broker) : task.log = l

\* A worker that still has a task for log l, or is about to queue one.
At(l) == \E w \in Workers : workers[w].phase \notin {"idle", "commit"} /\ workers[w].log = l

\* As NothingForgotten, of calls and of retries that are not committed too.
Awaited(l) ==
  /\ l \notin mislaid
  /\ Locked(l) \/ (logs[l].state \in {"draft", "live"} /\ logs[l].status = "queued")
Tracked == \A l \in Logs : Awaited(l) => At(l) \/ HasTask(l)

\* A step of a worker in a task of log k, which takes nothing off the broker: only k matters.
LEMMA OthersTracked ==
  ASSUME WorkerTypes, Tracked, NEW w \in Workers, NEW k \in Logs,
         workers[w].phase = "idle" \/ workers[w].log = k,
         workers'[w].phase = "idle" \/ workers'[w].log = k,
         \A l \in Logs \ {k} : logs'[l] = logs[l],
         \A v \in Workers \ {w} : workers'[v] = workers[v],
         mislaid \subseteq mislaid', BagToSet(broker) \subseteq BagToSet(broker'),
         (Awaited(k) => At(k) \/ HasTask(k))'
  PROVE  Tracked'
<1>1. ASSUME NEW l \in Logs \ {k}, Awaited(l)' PROVE (At(l) \/ HasTask(l))'
  <2>1. Locked(l)' => Locked(l)
    BY DEF Locked
  <2>2. At(l) \/ HasTask(l)
    BY <1>1, <2>1 DEF Tracked, Awaited
  <2>3. At(l) => At(l)'
    BY DEF At
  <2>4. HasTask(l) => HasTask(l)'
    BY DEF HasTask
  <2> QED BY <2>2, <2>3, <2>4
<1> QED BY <1>1 DEF Tracked

LEMMA CallTracked ==
  ASSUME Types, Tracked, NEW k \in Logs,
         Create(k) \/ Commit(k) \/ RollBack(k) \/ SendScheduled(k) \/ CleanUp(k)
           \/ RetryFailed(k) \/ Resend(k)
  PROVE  Tracked'
<1>1. /\ workers' = workers /\ mislaid \subseteq mislaid'
      /\ \A l \in Logs \ {k} : logs'[l] = logs[l]
  BY DEF Types, Create, Commit, RollBack, SendScheduled, CleanUp, RetryFailed, Resend
<1>2. BagToSet(broker) \subseteq BagToSet(broker')
  BY PutIn DEF Types, BrokerTypes, Create, Commit, RollBack, SendScheduled, CleanUp,
               RetryFailed, Resend, Add
<1>3. ASSUME NEW l \in Logs, Awaited(l), l \notin mislaid' PROVE (At(l) \/ HasTask(l))'
  BY <1>1, <1>2, <1>3 DEF Tracked, At, HasTask
<1>4. \A l \in Logs : Locked(l)' => Locked(l)
  BY <1>1 DEF Locked
<1>5. ASSUME Awaited(k)', ~Awaited(k) PROVE (At(k) \/ HasTask(k))'
  <2>1. k \notin mislaid /\ ~Locked(k) /\ ~Locked(k)'
    <3>1. k \notin mislaid
      BY <1>1, <1>5 DEF Awaited
    <3>2. ~Locked(k)
      BY <1>5, <3>1 DEF Awaited
    <3> QED BY <1>4, <3>1, <3>2
  <2>2. CASE Create(k)
    <3>1. PICK task : task.log = k /\ Add(task)
      BY <2>2 DEF Create, SendTask
    <3>2. task \in BagToSet(broker')
      BY <3>1, PutIn DEF Add, Types, BrokerTypes
    <3> QED BY <3>1, <3>2 DEF HasTask
  <2>3. CASE RollBack(k) \/ CleanUp(k) \/ RetryFailed(k) \/ Resend(k)
    BY <1>5, <2>1, <2>3 DEF RollBack, CleanUp, RetryFailed, Resend, Awaited, Types, Row
  <2>4. CASE Commit(k) \/ SendScheduled(k)
    BY <1>5, <2>1, <2>4 DEF Commit, SendScheduled, Awaited, Types, Row
  <2> QED BY <2>2, <2>3, <2>4
<1>6. ASSUME NEW l \in Logs \ {k}, Awaited(l)' PROVE Awaited(l)
  BY <1>1, <1>4, <1>6 DEF Awaited
<1>7. Awaited(k)' => k \notin mislaid'
  BY DEF Awaited
<1>8. \A l \in Logs : Awaited(l)' => l \notin mislaid'
  BY DEF Awaited
<1> QED BY <1>3, <1>5, <1>6, <1>7, <1>8 DEF Tracked

LEMMA TakeTracked ==
  ASSUME Types, Tracked, NEW w \in Workers, Take(w)
  PROVE  Tracked'
<1>1. PICK task \in BagToSet(broker) :
        /\ broker' = broker (-) SetToBag({task})
        /\ workers' = [workers EXCEPT ![w] = [phase |-> "send", log |-> task.log, task |-> task]]
  BY DEF Take
<1>2. /\ workers'[w].phase = "send" /\ workers'[w].log = task.log
      /\ \A v \in Workers \ {w} : workers'[v] = workers[v]
  BY <1>1 DEF Types, WorkerTypes
<1>3. ASSUME NEW l \in Logs, Awaited(l)' PROVE (At(l) \/ HasTask(l))'
  <2>0. Locked(l)' => Locked(l)
    BY <1>2 DEF Locked
  <2>1. At(l) \/ HasTask(l)
    BY <1>3, <2>0 DEF Take, Tracked, Awaited
  <2>2. CASE task.log = l
    BY <1>2, <2>2 DEF At
  <2>3. CASE At(l)
    BY <1>2, <2>3 DEF At, Take
  <2>4. CASE HasTask(l) /\ task.log # l
    BY <1>1, <2>4, TakeOut DEF HasTask, Types, BrokerTypes
  <2> QED BY <2>1, <2>2, <2>3, <2>4
<1> QED BY <1>3 DEF Tracked

LEMMA WorkTracked ==
  ASSUME Types, Tracked, NEW w \in Workers, NEW k \in Logs, workers[w].log = k,
         workers[w].phase # "idle", Work(w) \/ Die(w), ~Take(w)
  PROVE  Tracked'
<1>0. WorkerTypes /\ BrokerTypes
  BY DEF Types
<1>1. CASE SendEmail(w) \/ SendSms(w)
  <2>1. PICK status, again : Report(w, status, again)
    BY <1>1 DEF SendEmail, SendSms
  <2>2. /\ workers'[w].phase = "fetch" /\ workers'[w].log = k
        /\ \A v \in Workers \ {w} : workers'[v] = workers[v]
    BY <1>0, <2>1 DEF Report, WorkerTypes
  <2>3. At(k)'
    BY <2>2 DEF At
  <2>4. UNCHANGED <<logs, broker, mislaid>>
    BY <1>1 DEF SendEmail, SendSms
  <2> QED BY <1>0, <2>2, <2>3, <2>4, OthersTracked
<1>2. workers[w].phase # "rescue" => workers[w].task \in Task
  BY <1>0, WorkerIs DEF WorkerTypes, Idle, Sending, Reporting, Saving, Rescuing
<1>3. ASSUME Finish(w), workers[w].phase # "rescue",
             \A l \in Logs \ {k} : logs'[l] = logs[l], mislaid \subseteq mislaid',
             (Awaited(k) => At(k) \/ HasTask(k))'
      PROVE  Tracked'
  <2>1. BagToSet(broker) \subseteq BagToSet(broker')
    BY <1>2, <1>3, FinishTypes
  <2>2. /\ \A v \in Workers \ {w} : workers'[v] = workers[v]
        /\ workers'[w].phase = "idle"
    BY <1>2, <1>3, FinishTypes DEF Types, WorkerTypes, Idle
  <2> QED BY <1>0, <1>3, <2>1, <2>2, OthersTracked
<1>4. CASE Fetch(w)
  <2>1. CASE Live(k) /\ logs[k].status # workers[w].status
    <3>1. PICK x : workers' = [workers EXCEPT ![w] = x] /\ x.phase = "save" /\ x.log = k
      BY <1>4, <2>1 DEF Fetch
    <3>2. workers'[w].phase = "save" /\ workers'[w].log = k
          /\ \A v \in Workers \ {w} : workers'[v] = workers[v]
      BY <1>0, <3>1 DEF WorkerTypes
    <3>3. At(k)'
      BY <3>2 DEF At
    <3> QED BY <1>0, <1>4, <2>1, <3>2, <3>3, OthersTracked DEF Fetch
  <2>2. CASE ~(Live(k) /\ logs[k].status # workers[w].status)
    <3>1. Finish(w) /\ logs' = logs /\ mislaid \subseteq mislaid'
      BY <1>4, <2>2 DEF Fetch
    <3>2. logs[k].state = "draft" \/ Locked(k) => k \in mislaid'
      BY <1>4, <2>2 DEF Fetch
    <3>3. workers[w].status \in {"sent", "failed"}
      BY <1>0, <1>4, WorkerIs DEF Fetch, Reporting
    <3>4. Locked(k)' => Locked(k)
      BY <1>0, <3>1 DEF Finish, Locked, WorkerTypes, Idle
    <3>5. ~Awaited(k)'
      BY <2>2, <3>1, <3>2, <3>3, <3>4 DEF Awaited, Live
    <3> QED BY <1>3, <1>4, <3>1, <3>5 DEF Fetch
  <2> QED BY <2>1, <2>2
<1>5. CASE Save(w)
  <2>1. workers[w].row \in Row /\ workers[w].row.status # "queued"
    BY <1>0, <1>5, WorkerIs DEF Save, Saving, Outcome
  <2>2. logs' = [logs EXCEPT ![k] = workers[w].row] /\ mislaid' = mislaid /\ ~Locked(k)
    BY <1>5 DEF Save
  <2>3. logs'[k].status # "queued" /\ \A l \in Logs \ {k} : logs'[l] = logs[l]
    BY <2>1, <2>2 DEF Types
  <2>4. CASE Finish(w)
    <3>1. ~Locked(k)'
      BY <1>0, <2>2, <2>4 DEF Finish, Locked, WorkerTypes, Idle
    <3>2. ~Awaited(k)'
      BY <2>3, <3>1 DEF Awaited
    <3> QED BY <1>3, <1>5, <2>2, <2>3, <2>4, <3>2 DEF Save
  <2>5. CASE ~Finish(w)
    <3>1. workers' = [workers EXCEPT ![w].phase = "requeue"] /\ broker' = broker
      BY <1>5, <2>5 DEF Save
    <3>2. /\ \A v \in Workers \ {w} : workers'[v] = workers[v]
          /\ workers'[w] = [workers[w] EXCEPT !.phase = "requeue"]
      BY <1>0, <3>1 DEF WorkerTypes
    <3>3. workers'[w].phase = "requeue" /\ workers'[w].log = k
      BY <1>0, <1>5, <3>2, WorkerIs DEF Save, Saving
    <3>4. At(k)'
      BY <3>3 DEF At
    <3> QED BY <1>0, <2>2, <2>3, <3>1, <3>2, <3>3, <3>4, OthersTracked
  <2> QED BY <2>4, <2>5
<1>6. CASE Requeue(w)
  <2> DEFINE retry == RetryTask(k, Retried(workers[w].row))
  <2>1. /\ workers'[w] = [workers[w] EXCEPT !.phase = "commit"]
        /\ \A v \in Workers \ {w} : workers'[v] = workers[v]
        /\ mislaid \subseteq mislaid' /\ logs' = logs
    BY <1>0, <1>6 DEF Requeue, WorkerTypes
  <2>2. workers'[w].log = k
    BY <1>0, <1>6, <2>1, WorkerIs DEF Requeue, Saving
  <2>3. Add(retry) \/ (UNCHANGED broker /\ k \in mislaid')
    BY <1>6 DEF Requeue
  <2>4. BagToSet(broker) \subseteq BagToSet(broker') /\ (retry \in BagToSet(broker') \/ k \in mislaid')
    <3>1. CASE Add(retry)
      BY <1>0, <3>1, PutIn DEF Add, BrokerTypes
    <3> HIDE DEF retry
    <3> QED BY <2>3, <3>1
  <2>5. retry.log = k
    BY DEF RetryTask, SendTask
  <2>6. (Awaited(k) => At(k) \/ HasTask(k))'
    BY <2>4, <2>5 DEF Awaited, HasTask
  <2> QED BY <1>0, <2>1, <2>2, <2>4, <2>6, OthersTracked
<1>7. CASE CommitRetry(w)
  <2>1. workers[w] \in Saving /\ Finish(w) /\ mislaid' = mislaid
    BY <1>0, <1>7, WorkerIs DEF CommitRetry
  <2>2. \A l \in Logs \ {k} : logs'[l] = logs[l]
    BY <1>7 DEF CommitRetry, Types
  <2>3. ASSUME k \notin mislaid PROVE (At(k) \/ HasTask(k))'
    <3>1. At(k) \/ HasTask(k)
      BY <1>7, <2>3 DEF CommitRetry, Tracked, Awaited, Locked
    <3>2. At(k) => At(k)'
      BY <1>0, <1>7, <2>1 DEF CommitRetry, Finish, At, WorkerTypes
    <3>3. HasTask(k) => HasTask(k)'
      BY <1>2, <1>7, <2>1, FinishTypes DEF CommitRetry, HasTask
    <3> QED BY <3>1, <3>2, <3>3
  <2>4. (Awaited(k) => At(k) \/ HasTask(k))'
    BY <2>1, <2>3 DEF Awaited
  <2> QED BY <1>3, <1>7, <2>1, <2>2, <2>4 DEF CommitRetry
<1>8. CASE Rescue(w)
  <2>1. /\ \A l \in Logs \ {k} : logs'[l] = logs[l]
        /\ \A v \in Workers \ {w} : workers'[v] = workers[v]
        /\ workers'[w].phase = "idle"
        /\ mislaid' = mislaid
    BY <1>0, <1>8 DEF Rescue, Types, WorkerTypes, Idle
  <2>2. BagToSet(broker') = BagToSet(broker) \cup {RetryTask(k, workers[w].row)}
    BY <1>0, <1>8, PutIn DEF Rescue, Add, BrokerTypes
  <2>3. RetryTask(k, workers[w].row).log = k
    BY DEF RetryTask, SendTask
  <2>4. HasTask(k)'
    BY <2>2, <2>3 DEF HasTask
  <2> QED BY <1>0, <2>1, <2>2, <2>4, OthersTracked
<1>9. CASE Die(w)
  <2>1. /\ \A l \in Logs \ {k} : logs'[l] = logs[l]
        /\ \A v \in Workers \ {w} : workers'[v] = workers[v]
        /\ workers'[w].phase = "idle"
        /\ mislaid' = mislaid \cup {k} /\ broker' = broker
    BY <1>0, <1>9 DEF Die, Types, WorkerTypes, Idle
  <2>2. ~Awaited(k)'
    BY <2>1 DEF Awaited
  <2> QED BY <1>0, <2>1, <2>2, OthersTracked
<1> QED BY <1>1, <1>4, <1>5, <1>6, <1>7, <1>8, <1>9 DEF Work

LEMMA RescueTracked ==
  ASSUME Types, Tracked, NEW w \in Workers, NEW k \in Logs, BeginRescue(w, k)
  PROVE  Tracked'
<1>1. /\ workers'[w].phase = "rescue" /\ workers'[w].log = k
      /\ \A v \in Workers \ {w} : workers'[v] = workers[v]
  BY DEF BeginRescue, Types, WorkerTypes
<1>2. At(k)'
  BY <1>1 DEF At
<1> QED BY <1>1, <1>2, OthersTracked DEF BeginRescue, Types

LEMMA TrackedStep == Types /\ Tracked /\ [DeliveryNext]_deliveryVars => Tracked'
<1> SUFFICES ASSUME Types, Tracked, [DeliveryNext]_deliveryVars PROVE Tracked'
  OBVIOUS
<1>1. CASE UNCHANGED deliveryVars
  BY <1>1 DEF deliveryVars, Tracked, Awaited, At, Locked, HasTask
<1>2. ASSUME NEW w \in Workers, Work(w) \/ Die(w) PROVE Tracked'
  <2>1. CASE Take(w)
    BY <2>1, TakeTracked
  <2>2. CASE ~Take(w)
    <3>1. workers[w].phase # "idle"
      BY <1>2, <2>2 DEF Work, Die, SendEmail, SendSms, Fetch, Save, Requeue, CommitRetry, Rescue
    <3>2. workers[w].log \in Logs
      BY <3>1, WorkerIs DEF Types
    <3> QED BY <1>2, <2>2, <3>1, <3>2, WorkTracked
  <2> QED BY <2>1, <2>2
<1> QED BY <1>1, <1>2, CallTracked, RescueTracked DEF DeliveryNext

\* A committed log that is still queued has a task or a worker, unless it was mislaid in one of
\* the ways the code has of losing it, whatever retries, jobs and overtaken saves there are.
THEOREM QueuedIsOnItsWay == DeliverySpec => []NothingForgotten
<1>1. DeliveryInit => Tracked
  BY DEF DeliveryInit, Tracked, Awaited, Locked, Idle, NoRow
<1>2. Tracked => NothingForgotten
  BY DEF Tracked, Awaited, NothingForgotten, Live, HasTask, At, Busy
<1> QED BY <1>1, <1>2, TypesAlways, TrackedStep, PTL DEF DeliverySpec

(***************************************************************************)
(* What is marked sent has reached somebody.                               *)
(***************************************************************************)
Known(l) == logs[l].state # "none"
Addressed(l) == logs[l].address /\ logs[l].recipient

\* A task for a log that has an address and a recipient was given somebody to send to.
Honours(task) == Known(task.log) /\ (Addressed(task.log) => task.to)

\* A worker's copy of a row differs from it in nothing but the status and the count, and says
\* sent only if that is true.
Resembles(row, l) ==
  /\ row.state # "none"
  /\ row.address = logs[l].address /\ row.recipient = logs[l].recipient
  /\ row.status = "sent" /\ Addressed(l) => l \in reached

Honest(w) ==
  workers[w].phase # "idle" =>
    /\ Known(workers[w].log)
    /\ workers[w].phase # "rescue" =>
         workers[w].task.log = workers[w].log /\ Honours(workers[w].task)
    /\ workers[w].phase = "fetch" /\ workers[w].status = "sent" /\ Addressed(workers[w].log)
         => workers[w].log \in reached
    /\ workers[w].phase \in {"save", "requeue", "commit", "rescue"} => Resembles(workers[w].row, workers[w].log)

Marked == \A l \in Logs : logs[l].status = "sent" /\ Addressed(l) => l \in reached

SentInv ==
  /\ \A task \in BagToSet(broker) : Honours(task)
  /\ \A w \in Workers : Honest(w)
  /\ Marked

\* Rows stay, and keep their addresses and recipients.
RowsStay ==
  /\ \A l \in Logs : Known(l) =>
       /\ logs'[l].state # "none"
       /\ logs'[l].address = logs[l].address /\ logs'[l].recipient = logs[l].recipient
  /\ reached \subseteq reached'

LEMMA HonoursStays ==
  ASSUME RowsStay, NEW task, task.log \in Logs, Honours(task)
  PROVE  Honours(task)'
BY DEF RowsStay, Honours, Known, Addressed

LEMMA HonestStays ==
  ASSUME Types, RowsStay, NEW w \in Workers, workers'[w] = workers[w], Honest(w)
  PROVE  Honest(w)'
<1>1. CASE workers[w].phase = "idle"
  BY <1>1 DEF Honest
<1>2. CASE workers[w].phase # "idle"
  <2>1. workers[w].log \in Logs
    BY <1>2, WorkerIs DEF Types
  <2>2. PICK x : x = workers[w]
    OBVIOUS
  <2> QED BY <1>2, <2>1, <2>2 DEF Honest, Honours, Resembles, RowsStay, Known, Addressed
<1> QED BY <1>1, <1>2

\* What a step must show: the tasks it adds, the worker it moves, the rows it marks.
LEMMA SentStep ==
  ASSUME Types, SentInv, RowsStay, Marked', NEW w \in Workers,
         \A v \in Workers \ {w} : workers'[v] = workers[v], Honest(w)',
         \A task \in BagToSet(broker') : task \in BagToSet(broker) \/ Honours(task)'
  PROVE  SentInv'
<1>1. \A v \in Workers : Honest(v)'
  BY HonestStays DEF SentInv
<1>2. \A task \in BagToSet(broker) : task.log \in Logs /\ Honours(task)
  BY DEF SentInv, Types, BrokerTypes, Task
<1>3. \A task \in BagToSet(broker) : Honours(task)'
  BY <1>2, HonoursStays
<1> QED BY <1>1, <1>3 DEF SentInv

\* A row whose status is no longer sent, or has not changed.
LEMMA RowVariants ==
  ASSUME NEW row \in Row
  PROVE  /\ \A status \in Status : LET r == [row EXCEPT !.status = status] IN
              /\ r.state = row.state /\ r.address = row.address /\ r.recipient = row.recipient
              /\ r.status = status
         /\ \A state \in {"live", "gone"} : LET r == [row EXCEPT !.state = state] IN
              /\ r.state = state /\ r.address = row.address /\ r.recipient = row.recipient
              /\ r.status = row.status
         /\ LET r == Retried(row) IN
              /\ r.state = row.state /\ r.address = row.address /\ r.recipient = row.recipient
              /\ r.status = "queued"
BY DEF Row, Retried

LEMMA RowMoves ==
  ASSUME Types, SentInv, NEW k \in Logs, \A l \in Logs \ {k} : logs'[l] = logs[l],
         logs'[k].state # "none",
         logs'[k].address = logs[k].address, logs'[k].recipient = logs[k].recipient,
         logs'[k].status = "sent" /\ Addressed(k) => k \in reached', reached \subseteq reached'
  PROVE  RowsStay /\ Marked'
<1>1. RowsStay
  BY DEF RowsStay, Known
<1>2. ASSUME NEW l \in Logs, logs'[l].status = "sent" /\ logs'[l].address /\ logs'[l].recipient
      PROVE  l \in reached'
  BY <1>2 DEF SentInv, Marked, Addressed
<1> QED BY <1>1, <1>2 DEF Marked, Addressed

LEMMA CallSent ==
  ASSUME Types, SentInv, NEW k \in Logs,
         Create(k) \/ Commit(k) \/ RollBack(k) \/ SendScheduled(k) \/ CleanUp(k)
           \/ RetryFailed(k) \/ Resend(k)
  PROVE  SentInv'
<1>0. workers' = workers /\ reached' = reached /\ logs[k] \in Row
  BY DEF Types, Create, Commit, RollBack, SendScheduled, CleanUp, RetryFailed, Resend
<1>1. ASSUME RowsStay, Marked',
             \A task \in BagToSet(broker') : task \in BagToSet(broker) \/ Honours(task)'
      PROVE  SentInv'
  <2>1. \A v \in Workers : Honest(v)'
    BY <1>0, <1>1, HonestStays DEF SentInv
  <2>2. \A task \in BagToSet(broker) : task.log \in Logs /\ Honours(task)
    BY DEF SentInv, Types, BrokerTypes, Task
  <2>3. \A task \in BagToSet(broker) : Honours(task)'
    BY <1>1, <2>2, HonoursStays
  <2> QED BY <1>1, <2>1, <2>3 DEF SentInv
<1>2. CASE Create(k)
  <2>1. PICK channel \in Channel, address \in BOOLEAN, recipient \in BOOLEAN :
          /\ logs' = [logs EXCEPT ![k] = Draft(channel, address, recipient)]
          /\ Add(SendTask(k, channel, recipient))
    BY <1>2 DEF Create
  <2>2. /\ logs'[k] = Draft(channel, address, recipient)
        /\ \A l \in Logs \ {k} : logs'[l] = logs[l]
    BY <2>1 DEF Types
  <2>3. RowsStay
    BY <1>0, <1>2, <2>2 DEF RowsStay, Known, Create
  <2>4. Marked'
    BY <1>0, <2>2 DEF Marked, SentInv, Addressed, Draft
  <2>5. BagToSet(broker') = BagToSet(broker) \cup {SendTask(k, channel, recipient)}
    BY <2>1, PutIn DEF Add, Types, BrokerTypes
  <2>6. Honours(SendTask(k, channel, recipient))'
    BY <2>2 DEF Honours, SendTask, Known, Addressed, Draft
  <2>7. \A task \in BagToSet(broker') : task \in BagToSet(broker) \/ Honours(task)'
    BY <2>5, <2>6
  <2> QED BY <1>1, <2>3, <2>4, <2>7
<1>3. CASE SendScheduled(k)
  <2>1. RowsStay /\ Marked'
    BY <1>0, <1>3 DEF SendScheduled, RowsStay, Known, Marked, SentInv, Addressed
  <2>2. BagToSet(broker') = BagToSet(broker) \cup {SendTask(k, "email", TRUE)}
    BY <1>3, PutIn DEF SendScheduled, Add, Types, BrokerTypes
  <2>3. Honours(SendTask(k, "email", TRUE))'
    BY <1>3 DEF SendScheduled, Honours, SendTask, Known, Live
  <2>4. \A task \in BagToSet(broker') : task \in BagToSet(broker) \/ Honours(task)'
    BY <2>2, <2>3
  <2> QED BY <1>1, <2>1, <2>4
<1>4. CASE Commit(k) \/ RollBack(k) \/ CleanUp(k) \/ RetryFailed(k) \/ Resend(k)
  <2>1. /\ \A l \in Logs \ {k} : logs'[l] = logs[l]
        /\ logs'[k].state # "none"
        /\ logs'[k].address = logs[k].address /\ logs'[k].recipient = logs[k].recipient
        /\ logs'[k].status = logs[k].status \/ logs'[k].status = "queued"
    <3>1. CASE Commit(k)
      <4>1. logs'[k] = [logs[k] EXCEPT !.state = "live"] /\ \A l \in Logs \ {k} : logs'[l] = logs[l]
        BY <3>1 DEF Commit, Types
      <4> QED BY <1>0, <4>1, RowVariants
    <3>2. CASE RollBack(k) \/ CleanUp(k)
      <4>1. logs'[k] = [logs[k] EXCEPT !.state = "gone"] /\ \A l \in Logs \ {k} : logs'[l] = logs[l]
        BY <3>2 DEF RollBack, CleanUp, Types
      <4> QED BY <1>0, <4>1, RowVariants
    <3>3. CASE RetryFailed(k)
      <4>1. logs'[k] = Retried(logs[k]) /\ \A l \in Logs \ {k} : logs'[l] = logs[l]
        BY <3>3 DEF RetryFailed, Types
      <4> QED BY <1>0, <3>3, <4>1, RowVariants DEF RetryFailed, Live
    <3>4. CASE Resend(k)
      <4>1. logs'[k] = [logs[k] EXCEPT !.status = "queued"] /\ \A l \in Logs \ {k} : logs'[l] = logs[l]
        BY <3>4 DEF Resend, Types
      <4> QED BY <1>0, <3>4, <4>1, RowVariants DEF Resend, Live, Status
    <3> QED BY <1>4, <3>1, <3>2, <3>3, <3>4
  <2>2. logs'[k].status = "sent" /\ Addressed(k) => k \in reached'
    BY <1>0, <2>1 DEF SentInv, Marked
  <2>3. RowsStay /\ Marked'
    BY <1>0, <2>1, <2>2, RowMoves
  <2>4. broker' = broker
    BY <1>4 DEF Commit, RollBack, CleanUp, RetryFailed, Resend
  <2> QED BY <1>1, <2>3, <2>4
<1> QED BY <1>2, <1>3, <1>4

LEMMA TakeSent ==
  ASSUME Types, SentInv, NEW w \in Workers, Take(w)
  PROVE  SentInv'
<1>1. PICK task \in BagToSet(broker) :
        /\ broker' = broker (-) SetToBag({task})
        /\ workers' = [workers EXCEPT ![w] = [phase |-> "send", log |-> task.log, task |-> task]]
  BY DEF Take
<1>2. /\ workers'[w] = [phase |-> "send", log |-> task.log, task |-> task]
      /\ \A v \in Workers \ {w} : workers'[v] = workers[v]
  BY <1>1 DEF Types, WorkerTypes
<1>3. RowsStay /\ Marked'
  BY DEF Take, RowsStay, Known, Marked, SentInv, Addressed
<1>4. Honours(task) /\ logs' = logs
  BY <1>1 DEF SentInv, Take
<1>5. Honest(w)'
  BY <1>2, <1>4 DEF Honest, Honours, Known, Addressed
<1>6. \A t \in BagToSet(broker') : t \in BagToSet(broker) \/ Honours(t)'
  BY <1>1, TakeOut DEF Types, BrokerTypes
<1> QED BY <1>2, <1>3, <1>5, <1>6, SentStep

\* What is known of a worker in a task.
LEMMA InTask ==
  ASSUME SentInv, NEW w \in Workers, workers[w].phase \notin {"idle", "rescue"}
  PROVE  /\ Known(workers[w].log) /\ workers[w].task.log = workers[w].log
         /\ Addressed(workers[w].log) => workers[w].task.to
         /\ workers[w].phase = "fetch" /\ workers[w].status = "sent" /\ Addressed(workers[w].log)
              => workers[w].log \in reached
         /\ workers[w].phase \in {"save", "requeue", "commit"} => Resembles(workers[w].row, workers[w].log)
<1>1. Honest(w)
  BY DEF SentInv
<1> QED BY <1>1 DEF Honest, Honours

LEMMA AgainHonours ==
  ASSUME RowsStay, NEW task \in Task, Honours(task)
  PROVE  Honours([task EXCEPT !.attempt = @ + 1])'
<1> DEFINE again == [task EXCEPT !.attempt = @ + 1]
<1>1. again.log = task.log /\ again.to = task.to /\ task.log \in Logs
  BY DEF Task
<1> HIDE DEF again
<1>2. Honours(task)'
  BY <1>1, HonoursStays
<1>3. Honours(again)'
  BY <1>1, <1>2 DEF Honours
<1> QED BY <1>3 DEF again

LEMMA FinishSent ==
  ASSUME Types, SentInv, RowsStay, Marked', NEW w \in Workers,
         workers[w].phase \in {"fetch", "save", "commit"}, Finish(w)
  PROVE  SentInv'
<1> DEFINE again == [workers[w].task EXCEPT !.attempt = @ + 1]
<1>1. workers[w].task \in Task
  BY WorkerIs DEF Types, Reporting, Saving
<1>2. Honours(workers[w].task)
  BY InTask DEF Honours
<1>3. PICK task : task = workers[w].task
  OBVIOUS
<1>4. Honours([task EXCEPT !.attempt = @ + 1])'
  BY <1>1, <1>2, <1>3, AgainHonours
<1>5. \A t \in BagToSet(broker') : t \in BagToSet(broker) \/ Honours(t)'
  BY <1>1, <1>3, <1>4, FinishTypes
<1>6. workers'[w] = Idle /\ \A v \in Workers \ {w} : workers'[v] = workers[v]
  BY <1>1, FinishTypes DEF Types, WorkerTypes
<1>7. Honest(w)'
  BY <1>6 DEF Honest, Idle
<1> QED BY <1>5, <1>6, <1>7, SentStep

LEMMA SendSent ==
  ASSUME Types, SentInv, NEW w \in Workers, SendEmail(w) \/ SendSms(w)
  PROVE  SentInv'
<1> DEFINE k == workers[w].log
<1>1. workers[w].phase = "send"
  BY DEF SendEmail, SendSms
<1>2. workers[w].log \in Logs /\ workers[w].task.log = k /\ Known(k) /\ (Addressed(k) => workers[w].task.to)
  BY <1>1, WorkerIs, InTask DEF Types
<1>3. PICK status \in {"sent", "failed"}, again \in BOOLEAN :
        /\ Report(w, status, again)
        /\ status = "sent" /\ workers[w].task.to => k \in reached'
  <2>1. (workers[w].task.attempt < MaxAttempts) \in BOOLEAN
    OBVIOUS
  <2>2. CASE SendEmail(w)
    BY <1>2, <2>1, <2>2 DEF SendEmail
  <2>3. CASE SendSms(w)
    BY <1>2, <2>1, <2>3 DEF SendSms
  <2> QED BY <2>2, <2>3
<1>4. /\ workers'[w] = [phase |-> "fetch", log |-> k, task |-> workers[w].task,
                        status |-> status, again |-> again]
      /\ \A v \in Workers \ {w} : workers'[v] = workers[v]
  BY <1>3 DEF Report, Types, WorkerTypes
<1>5. logs' = logs /\ broker' = broker /\ reached \subseteq reached'
  BY DEF SendEmail, SendSms
<1>6. RowsStay /\ Marked'
  BY <1>5 DEF RowsStay, Known, Marked, SentInv, Addressed
<1>7. Honest(w)'
  BY <1>2, <1>3, <1>4, <1>5 DEF Honest, Honours, Known, Addressed
<1> QED BY <1>4, <1>5, <1>6, <1>7, SentStep

LEMMA FetchSent ==
  ASSUME Types, SentInv, NEW w \in Workers, Fetch(w)
  PROVE  SentInv'
<1> DEFINE k == workers[w].log
<1>1. workers[w].phase = "fetch" /\ logs' = logs /\ reached' = reached
  BY DEF Fetch
<1>2. RowsStay /\ Marked'
  BY <1>1 DEF RowsStay, Known, Marked, SentInv, Addressed
<1>3. k \in Logs /\ logs[k] \in Row /\ workers[w].status \in {"sent", "failed"}
  BY <1>1, WorkerIs DEF Types, Reporting
<1>4. CASE Live(k) /\ logs[k].status # workers[w].status
  <2> DEFINE row == [logs[k] EXCEPT !.status = workers[w].status]
  <2>1. /\ workers'[w] = [phase |-> "save", log |-> k, task |-> workers[w].task,
                          again |-> workers[w].again, row |-> row]
        /\ \A v \in Workers \ {w} : workers'[v] = workers[v]
        /\ broker' = broker
    BY <1>4 DEF Fetch, Types, WorkerTypes
  <2>2. /\ row.state = logs[k].state /\ row.address = logs[k].address
        /\ row.recipient = logs[k].recipient /\ row.status = workers[w].status
    BY <1>3, RowVariants DEF Status
  <2>3. /\ workers'[w].phase = "save" /\ workers'[w].log = k
        /\ workers'[w].task = workers[w].task /\ workers'[w].row = row
    BY <2>1
  <2> HIDE DEF row
  <2>4. Resembles(row, k)
    BY <1>1, <1>4, <2>2, InTask DEF Resembles, Live
  <2>5. Honest(w)'
    BY <1>1, <2>3, <2>4, InTask DEF Honest, Honours, Known, Addressed, Resembles
  <2> QED BY <1>2, <2>1, <2>5, SentStep
<1>5. CASE ~(Live(k) /\ logs[k].status # workers[w].status)
  BY <1>1, <1>2, <1>5, FinishSent DEF Fetch
<1> QED BY <1>4, <1>5

LEMMA SaveSent ==
  ASSUME Types, SentInv, NEW w \in Workers, Save(w)
  PROVE  SentInv'
<1> DEFINE k == workers[w].log
           row == workers[w].row
<1>1. workers[w].phase = "save" /\ logs' = [logs EXCEPT ![k] = row] /\ reached' = reached
  BY DEF Save
<1>2. k \in Logs /\ workers[w] \in Saving
  BY <1>1, WorkerIs DEF Types
<1>3. logs'[k] = row /\ \A l \in Logs \ {k} : logs'[l] = logs[l]
  BY <1>1, <1>2 DEF Types
<1>4. Resembles(row, k)
  BY <1>1, InTask
<1>5. RowsStay /\ Marked'
  BY <1>1, <1>2, <1>3, <1>4, RowMoves DEF Resembles
<1>6. CASE Finish(w)
  BY <1>1, <1>5, <1>6, FinishSent
<1>7. CASE ~Finish(w)
  <2>1. workers' = [workers EXCEPT ![w].phase = "requeue"] /\ broker' = broker
    BY <1>7 DEF Save
  <2>2. /\ workers'[w] = [workers[w] EXCEPT !.phase = "requeue"]
        /\ \A v \in Workers \ {w} : workers'[v] = workers[v]
    BY <2>1 DEF Types, WorkerTypes
  <2>3. /\ workers'[w].phase = "requeue" /\ workers'[w].log = k
        /\ workers'[w].row = row /\ workers'[w].task = workers[w].task
    BY <1>2, <2>2 DEF Saving
  <2>4. Honest(w)'
    BY <1>1, <1>3, <1>4, <2>3, InTask DEF Honest, Honours, Known, Addressed, Resembles
  <2> QED BY <1>5, <2>1, <2>2, <2>4, SentStep
<1> QED BY <1>6, <1>7

\* A retry of a log is sent to its address.
LEMMA RetryHonours ==
  ASSUME RowsStay, NEW k \in Logs, Known(k), NEW row, row.address = logs[k].address
  PROVE  Honours(RetryTask(k, row))'
BY DEF Honours, RetryTask, SendTask, Known, Addressed, RowsStay

\* Saving what a retry makes of a worker's copy, or nothing.
LEMMA RetrySaves ==
  ASSUME Types, SentInv, NEW k \in Logs, NEW row \in Row, Resembles(row, k), reached' = reached,
         logs' = logs \/ logs' = [logs EXCEPT ![k] = Retried(row)]
  PROVE  RowsStay /\ Marked'
<1>1. CASE logs' = logs
  BY <1>1 DEF RowsStay, Known, Marked, SentInv, Addressed
<1>2. CASE logs' = [logs EXCEPT ![k] = Retried(row)]
  <2>1. logs'[k] = Retried(row) /\ \A l \in Logs \ {k} : logs'[l] = logs[l]
    BY <1>2 DEF Types
  <2> QED BY <2>1, RowVariants, RowMoves DEF Resembles
<1> QED BY <1>1, <1>2

LEMMA RequeueSent ==
  ASSUME Types, SentInv, NEW w \in Workers, Requeue(w) \/ CommitRetry(w)
  PROVE  SentInv'
<1>1. workers[w].phase \in {"requeue", "commit"} /\ reached' = reached
  BY DEF Requeue, CommitRetry
<1>2. PICK k, row : k = workers[w].log /\ row = workers[w].row
  OBVIOUS
<1>3. k \in Logs /\ row \in Row /\ workers[w] \in Saving
  BY <1>1, <1>2, WorkerIs DEF Types, Saving, Outcome
<1>4. Resembles(row, k) /\ Known(k)
  BY <1>1, <1>2, InTask
<1>5. RowsStay /\ Marked'
  BY <1>1, <1>2, <1>3, <1>4, RetrySaves DEF Requeue, CommitRetry
<1>6. CASE Requeue(w)
  <2>1. /\ workers'[w] = [workers[w] EXCEPT !.phase = "commit"]
        /\ \A v \in Workers \ {w} : workers'[v] = workers[v]
        /\ logs' = logs
    BY <1>6 DEF Requeue, Types, WorkerTypes
  <2>2. /\ workers'[w].phase = "commit" /\ workers'[w].log = k
        /\ workers'[w].row = row /\ workers'[w].task = workers[w].task
    BY <1>2, <1>3, <2>1 DEF Saving
  <2>3. Honest(w)'
    BY <1>1, <1>2, <1>4, <2>1, <2>2, InTask DEF Honest, Honours, Known, Addressed, Resembles
  <2>4. Honours(RetryTask(k, Retried(row)))'
    BY <1>3, <1>4, <1>5, RetryHonours, RowVariants DEF Resembles
  <2>5. BagToSet(broker') \subseteq BagToSet(broker) \cup {RetryTask(k, Retried(row))}
    <3>1. CASE UNCHANGED broker
      BY <3>1
    <3>2. CASE Add(RetryTask(k, Retried(row)))
      BY <3>2, PutIn DEF Add, Types, BrokerTypes
    <3> QED BY <1>2, <1>6, <3>1, <3>2 DEF Requeue
  <2>6. \A t \in BagToSet(broker') : t \in BagToSet(broker) \/ Honours(t)'
    BY <2>4, <2>5
  <2> QED BY <1>5, <2>1, <2>3, <2>6, SentStep
<1>7. CASE CommitRetry(w)
  BY <1>5, <1>7, FinishSent DEF CommitRetry
<1> QED BY <1>6, <1>7

LEMMA RescueSent ==
  ASSUME Types, SentInv, NEW w \in Workers, Rescue(w)
  PROVE  SentInv'
<1>1. workers[w].phase = "rescue" /\ reached' = reached
  BY DEF Rescue
<1>2. PICK k, row : k = workers[w].log /\ row = workers[w].row
  OBVIOUS
<1>3. k \in Logs /\ row \in Row
  BY <1>1, <1>2, WorkerIs DEF Types, Rescuing
<1>4. Resembles(row, k) /\ Known(k)
  BY <1>1, <1>2 DEF SentInv, Honest
<1>5. RowsStay /\ Marked'
  BY <1>1, <1>2, <1>3, <1>4, RetrySaves DEF Rescue
<1>6. Honours(RetryTask(k, row))'
  BY <1>3, <1>4, <1>5, RetryHonours DEF Resembles
<1>7. BagToSet(broker') = BagToSet(broker) \cup {RetryTask(k, row)}
  BY <1>2, PutIn DEF Rescue, Add, Types, BrokerTypes
<1>8. \A t \in BagToSet(broker') : t \in BagToSet(broker) \/ Honours(t)'
  BY <1>6, <1>7
<1>9. workers'[w] = Idle /\ \A v \in Workers \ {w} : workers'[v] = workers[v]
  BY DEF Rescue, Types, WorkerTypes
<1>10. Honest(w)'
  BY <1>9 DEF Honest, Idle
<1> QED BY <1>5, <1>8, <1>9, <1>10, SentStep

LEMMA DieSent ==
  ASSUME Types, SentInv, NEW w \in Workers, Die(w)
  PROVE  SentInv'
<1>1. /\ reached' = reached /\ workers'[w] = Idle
      /\ \A v \in Workers \ {w} : workers'[v] = workers[v]
  BY DEF Die, Types, WorkerTypes
<1>2. Honest(w)'
  BY <1>1 DEF Honest, Idle
<1>3. CASE UNCHANGED <<logs, broker>>
  <2>1. RowsStay /\ Marked'
    BY <1>1, <1>3 DEF RowsStay, Known, Marked, SentInv, Addressed
  <2> QED BY <1>1, <1>2, <1>3, <2>1, SentStep
<1>4. PICK k, row : k = workers[w].log /\ row = workers[w].row
  OBVIOUS
<1>5. CASE /\ workers[w].phase = "rescue" /\ logs' = [logs EXCEPT ![k] = Retried(row)]
           /\ UNCHANGED broker
  <2>1. k \in Logs /\ row \in Row
    BY <1>4, <1>5, WorkerIs DEF Types, Rescuing
  <2>2. Resembles(row, k)
    BY <1>4, <1>5 DEF SentInv, Honest
  <2>3. RowsStay /\ Marked'
    BY <1>1, <1>5, <2>1, <2>2, RetrySaves
  <2> QED BY <1>1, <1>2, <1>5, <2>3, SentStep
<1> QED BY <1>3, <1>4, <1>5 DEF Die

LEMMA BeginRescueSent ==
  ASSUME Types, SentInv, NEW w \in Workers, NEW k \in Logs, BeginRescue(w, k)
  PROVE  SentInv'
<1>1. /\ workers'[w] = [phase |-> "rescue", log |-> k, row |-> logs[k]]
      /\ \A v \in Workers \ {w} : workers'[v] = workers[v]
      /\ logs' = logs /\ reached' = reached /\ broker' = broker
      /\ logs[k].state = "live" /\ logs[k].status = "failed"
  BY DEF BeginRescue, Live, Types, WorkerTypes
<1>2. RowsStay /\ Marked'
  BY <1>1 DEF RowsStay, Known, Marked, SentInv, Addressed
<1>3. Honest(w)'
  BY <1>1 DEF Honest, Known, Resembles
<1> QED BY <1>1, <1>2, <1>3, SentStep

LEMMA SentInvStep == Types /\ SentInv /\ [DeliveryNext]_deliveryVars => SentInv'
<1> SUFFICES ASSUME Types, SentInv, [DeliveryNext]_deliveryVars PROVE SentInv'
  OBVIOUS
<1>1. CASE UNCHANGED deliveryVars
  BY <1>1 DEF deliveryVars, SentInv, Honest, Honours, Resembles, Marked, Known, Addressed
<1>2. ASSUME NEW w \in Workers, Work(w) \/ Die(w) PROVE SentInv'
  BY <1>2, TakeSent, SendSent, FetchSent, SaveSent, RequeueSent, RescueSent, DieSent DEF Work
<1> QED BY <1>1, <1>2, CallSent, BeginRescueSent DEF DeliveryNext

\* A log with an address and a recipient that is marked sent has reached somebody, whichever
\* of its tasks and overtaken saves has marked it.
THEOREM MarkedSentIsSent == DeliverySpec => []SentIsReached
<1>1. DeliveryInit => SentInv
  BY Nothing DEF DeliveryInit, SentInv, Honest, Marked, Idle, NoRow
<1>2. SentInv => SentIsReached
  BY DEF SentInv, Marked, Addressed, SentIsReached
<1> QED BY <1>1, <1>2, TypesAlways, SentInvStep, PTL DEF DeliverySpec
================================================================================
