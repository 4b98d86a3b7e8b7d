--------------------------- MODULE SyncUpload_proofs ---------------------------
(***************************************************************************)
(* However many uploads, workers, retries and failures there are, the lock *)
(* file is held by the worker in an upload and by nobody else, an upload   *)
(* that is not finished is under way unless a worker gave it up or took it *)
(* along, and one reported complete is complete.                           *)
(***************************************************************************)
EXTENDS SyncUpload, SequenceTheorems, TLAPS

(***************************************************************************)
(* Types, and the lock.                                                    *)
(***************************************************************************)
Run == [phase: {"wait", "start", "load", "save", "report", "finish"}, upload: Uploads,
        retries: 0 .. MaxRetries, results: Seq(Outcome), copy: Row]
Message == [upload: Uploads, retries: 0 .. MaxRetries]

Posted(u) == tasks[u].batch \in Batches

\* A run is at a place of the batch it was posted with.
PlacedIn(run, progress) ==
  LET done == Len(run.results)
      all == Len(progress[run.upload].batch)
  IN  /\ progress[run.upload].batch \in Batches
      /\ run.phase \in {"wait", "start"} => run.results = <<>>
      /\ run.phase \in {"load", "save"} => done < all
      /\ run.phase = "report" => done <= all
      /\ run.phase = "finish" => done = all

Placed(run) == PlacedIn(run, tasks)

RowTypes ==
  /\ clock \in 0 .. MaxClock
  /\ rows \in [Records -> Row]
  /\ tasks \in [Uploads -> Progress]
  /\ written \in [Uploads -> SUBSET Nat]

RunTypes ==
  /\ broker \subseteq Message
  /\ \A m \in broker : Posted(m.upload)
  /\ workers \in [Workers -> Run \cup {Idle}]
  /\ \A w \in Workers : workers[w] # Idle => Placed(workers[w])
  /\ lock \in Workers \cup {"free"}

Types == RowTypes /\ RunTypes

LEMMA IdleIsNoRun == Idle \notin Run /\ \A run \in Run : run # Idle
BY DEF Run, Idle

LEMMA NoRowType == NoRow \in Row
BY UploadAssumption DEF NoRow, Row

\* What a run says of its worker and its upload.
LEMMA RunOf ==
  ASSUME Types, NEW w \in Workers, workers[w] # Idle
  PROVE  workers[w] \in Run /\ Placed(workers[w])
BY DEF Types, RunTypes

LEMMA BatchOf ==
  ASSUME Types, NEW u \in Uploads, Posted(u)
  PROVE  /\ tasks[u].batch \in Seq([record: Records \cup {"new"}, at: {0} \cup Times])
         /\ tasks[u].batch # <<>> /\ Len(tasks[u].batch) \in Nat \ {0}
BY UploadAssumption, EmptySeq, LenProperties DEF Posted

\* A worker that goes on with its upload, or lets go of it.
GoesOn(w, run) ==
  /\ workers[w] # Idle /\ run \in Run
  /\ run.upload = workers[w].upload /\ run.retries = workers[w].retries
  /\ workers' = [workers EXCEPT ![w] = run]
  /\ UNCHANGED <<broker, lost>>

Ends(w) ==
  /\ tasks'[workers[w].upload].status \in {"completed", "failed"}
  /\ UNCHANGED <<broker, lost>>
QueuesAgain(w) ==
  /\ UNCHANGED lost
  /\ \E n \in 0 .. MaxRetries :
       broker' = broker \cup {[upload |-> workers[w].upload, retries |-> n]}
GivesUp(w) == lost' = lost \cup {workers[w].upload} /\ UNCHANGED broker

Quits(w) == workers[w] # Idle /\ LetGo(w) /\ (Ends(w) \/ QueuesAgain(w) \/ GivesUp(w))

\* A retry queues the upload again or gives it up.
LEMMA RetryQuits ==
  ASSUME Types, NEW w \in Workers, workers[w] # Idle, Retry(w)
  PROVE  LetGo(w) /\ (QueuesAgain(w) \/ GivesUp(w))
<1>1. workers[w].retries \in 0 .. MaxRetries
  BY RunOf DEF Run
<1>2. CASE workers[w].retries < MaxRetries
  BY <1>1, <1>2, UploadAssumption DEF Retry, QueuesAgain
<1>3. CASE ~(workers[w].retries < MaxRetries)
  BY <1>3 DEF Retry, Drop, GivesUp
<1> QED BY <1>2, <1>3

LEMMA DecideGoesOn ==
  ASSUME Types, NEW w \in Workers, workers[w] # Idle, NEW outcome \in Outcome,
         Decide(w, outcome), UNCHANGED <<broker, lost>>
  PROVE  \E run \in Run : /\ GoesOn(w, run) /\ run.phase = "report"
                          /\ run.results = Append(workers[w].results, outcome)
<1> DEFINE run == [phase |-> "report", upload |-> workers[w].upload,
                   retries |-> workers[w].retries,
                   results |-> Append(workers[w].results, outcome), copy |-> NoRow]
<1>1. workers[w] \in Run
  BY RunOf
<1>2. run \in Run
  BY <1>1, NoRowType DEF Run
<1>3. workers' = [workers EXCEPT ![w] = run]
  BY <1>1 DEF Decide, Run, Types, RunTypes
<1> QED BY <1>2, <1>3 DEF GoesOn

InUpload == {"start", "load", "save", "report", "finish"}
Proceeds(w) ==
  /\ UNCHANGED lock
  /\ \E run \in Run : run.phase \in InUpload /\ Placed(run) /\ GoesOn(w, run)

LEMMA WorkingRun ==
  ASSUME Types, NEW w \in Workers, Working(w)
  PROVE  workers[w] # Idle /\ workers[w] \in Run /\ Placed(workers[w]) /\ workers[w].upload \in Uploads
BY RunOf DEF Working, Idle, Run

\* Changing the phase of a run, and its copy of a row.
LEMMA PhaseGoesOn ==
  ASSUME Types, NEW w \in Workers, Working(w), NEW copy \in Row,
         NEW phase \in InUpload, UNCHANGED <<broker, lost>>,
         workers' = [workers EXCEPT ![w].phase = phase, ![w].copy = copy]
  PROVE  \E run \in Run : /\ GoesOn(w, run) /\ run.phase = phase
                          /\ run.results = workers[w].results
<1> DEFINE run == [workers[w] EXCEPT !.phase = phase, !.copy = copy]
<1>1. workers[w] \in Run /\ workers[w] # Idle
  BY WorkingRun
<1>2. /\ run \in Run /\ run.phase = phase /\ run.upload = workers[w].upload
      /\ run.retries = workers[w].retries /\ run.results = workers[w].results
  BY <1>1 DEF Run, InUpload
<1>3. workers' = [workers EXCEPT ![w] = run]
  OBVIOUS
<1> QED BY <1>1, <1>2, <1>3 DEF GoesOn

\* No step changes the batch of an upload that was posted.
BatchesStay == \A u \in Uploads : Posted(u) => tasks'[u].batch = tasks[u].batch

LEMMA PlacedStays ==
  ASSUME Types, BatchesStay
  PROVE  \A run \in Run : PlacedIn(run, tasks) => PlacedIn(run, tasks')
BY DEF PlacedIn, Posted, BatchesStay, Run

LEMMA GoesOnTypes ==
  ASSUME Types, RowTypes', BatchesStay, NEW w \in Workers, NEW run \in Run,
         GoesOn(w, run), Placed(run), lock' \in Workers \cup {"free"}
  PROVE  Types'
<1>1. /\ workers' \in [Workers -> Run \cup {Idle}]
      /\ workers'[w] = run
      /\ \A v \in Workers \ {w} : workers'[v] = workers[v]
  BY DEF GoesOn, Types, RunTypes
<1>2. PlacedIn(run, tasks')
  BY PlacedStays DEF Placed
<1>3. \A v \in Workers : workers[v] # Idle => PlacedIn(workers[v], tasks')
  BY PlacedStays, RunOf DEF Placed
<1>4. \A v \in Workers : workers'[v] # Idle => PlacedIn(workers'[v], tasks')
  BY <1>1, <1>2, <1>3
<1>5. broker' \subseteq Message /\ \A m \in broker' : Posted(m.upload)'
  BY DEF GoesOn, Types, RunTypes, Message, Posted, BatchesStay
<1> QED BY <1>1, <1>4, <1>5 DEF Types, RunTypes, Placed

LEMMA LeavesTypes ==
  ASSUME Types, RowTypes', BatchesStay, NEW w \in Workers,
         workers' = [workers EXCEPT ![w] = Idle],
         broker' \subseteq Message, \A m \in broker' : Posted(m.upload),
         lock' \in Workers \cup {"free"}
  PROVE  Types'
<1>1. /\ workers' \in [Workers -> Run \cup {Idle}]
      /\ \A v \in Workers : workers'[v] # Idle => workers'[v] = workers[v] /\ workers[v] # Idle
  BY DEF Types, RunTypes
<1>2. \A v \in Workers : workers[v] # Idle => PlacedIn(workers[v], tasks')
  BY PlacedStays, RunOf DEF Placed
<1>3. \A v \in Workers : workers'[v] # Idle => PlacedIn(workers'[v], tasks')
  BY <1>1, <1>2
<1>4. \A m \in broker' : Posted(m.upload)'
  BY DEF Message, Posted, BatchesStay
<1> QED BY <1>1, <1>3, <1>4 DEF Types, RunTypes, Placed

LEMMA QuitsTypes ==
  ASSUME Types, RowTypes', BatchesStay, NEW w \in Workers, Quits(w)
  PROVE  Types'
<1>1. workers[w] \in Run /\ Posted(workers[w].upload) /\ workers[w].upload \in Uploads
  BY RunOf DEF Quits, Placed, PlacedIn, Posted, Run
<1>2. broker \subseteq Message /\ \A m \in broker : Posted(m.upload)
  BY DEF Types, RunTypes
<1>3. broker' \subseteq Message /\ \A m \in broker' : Posted(m.upload)
  BY <1>1, <1>2 DEF Quits, Ends, QueuesAgain, GivesUp, Message
<1>4. lock' \in Workers \cup {"free"} /\ workers' = [workers EXCEPT ![w] = Idle]
  BY DEF Quits, LetGo, Types, RunTypes
<1> QED BY <1>3, <1>4, LeavesTypes

\* Saving the status and the results of an upload changes no batch.
LEMMA ProgressSaved ==
  ASSUME Types, NEW u \in Uploads, NEW status \in Status, NEW results \in Seq(Outcome),
         tasks' = [tasks EXCEPT ![u].status = status, ![u].results = results],
         UNCHANGED <<clock, rows, written>>
  PROVE  RowTypes' /\ BatchesStay
BY DEF Types, RowTypes, BatchesStay, Progress

LEMMA NothingSaved ==
  ASSUME Types, UNCHANGED <<clock, rows, tasks, written>>
  PROVE  RowTypes' /\ BatchesStay
BY DEF Types, RowTypes, BatchesStay

(***************************************************************************)
(* What the steps of a worker in an upload come to.                        *)
(***************************************************************************)
Advances(w) ==
  Working(w) /\ RowTypes' /\ BatchesStay /\ (Proceeds(w) \/ Quits(w))

LEMMA EditOfType ==
  ASSUME Types, NEW w \in Workers, workers[w].phase \in {"load", "save"}
  PROVE  /\ Place(w) \in DOMAIN tasks[workers[w].upload].batch
         /\ EditOf(w) \in [record: Records \cup {"new"}, at: {0} \cup Times]
<1> DEFINE batch == tasks[workers[w].upload].batch
<1>1. Working(w)
  BY DEF Working
<1>2. workers[w] \in Run /\ Placed(workers[w]) /\ workers[w].upload \in Uploads
  BY <1>1, WorkingRun
<1>3. batch \in Seq([record: Records \cup {"new"}, at: {0} \cup Times])
  BY <1>2, BatchOf DEF Placed, PlacedIn, Posted
<1>4. Len(workers[w].results) \in Nat /\ Len(workers[w].results) < Len(batch)
  BY <1>2, LenProperties DEF Run, Placed, PlacedIn
<1>5. Place(w) \in 1 .. Len(batch)
  BY <1>3, <1>4, LenProperties DEF Place
<1> QED BY <1>3, <1>5, ElementOfSeq, LenProperties DEF EditOf

LEMMA StartAdvances == ASSUME Types, NEW w \in Workers, Start(w) PROVE Advances(w)
<1> DEFINE u == workers[w].upload
<1>1. Working(w)
  BY DEF Start, Working
<1>2. workers[w] \in Run /\ Placed(workers[w]) /\ u \in Uploads /\ workers[w] # Idle
  BY <1>1, WorkingRun
<1>3. CASE Found(u) /\ tasks' = [tasks EXCEPT ![u].status = "running"]
           /\ workers' = [workers EXCEPT ![w].phase = "load"] /\ UNCHANGED <<broker, lock, lost>>
  <2>1. RowTypes' /\ BatchesStay
    BY <1>2, <1>3 DEF Start, Types, RowTypes, Progress, Status, BatchesStay
  <2> DEFINE run == [workers[w] EXCEPT !.phase = "load"]
  <2>2. run \in Run /\ run.phase = "load" /\ run.upload = u /\ run.retries = workers[w].retries
        /\ run.results = workers[w].results
    BY <1>2 DEF Run
  <2>3. workers[w].results = <<>> /\ Posted(u)
    BY <1>2 DEF Placed, PlacedIn, Start, Posted
  <2>4. PlacedIn(run, tasks)
    BY <1>2, <2>2, <2>3, BatchOf, EmptySeq DEF PlacedIn, Posted
  <2>5. GoesOn(w, run)
    BY <1>2, <1>3, <2>2 DEF GoesOn
  <2> QED BY <1>1, <1>3, <2>1, <2>2, <2>4, <2>5 DEF Advances, Proceeds, InUpload, Placed
<1>4. CASE Drop(w) /\ UNCHANGED tasks
  <2>1. Quits(w)
    BY <1>2, <1>4 DEF Drop, Quits, GivesUp
  <2> QED BY <1>1, <1>4, <2>1, NothingSaved DEF Advances, Start
<1> QED BY <1>3, <1>4 DEF Start

LEMMA RefuseEntityAdvances == ASSUME Types, NEW w \in Workers, RefuseEntity(w) PROVE Advances(w)
<1>1. Working(w)
  BY DEF RefuseEntity, Working
<1>2. workers[w].upload \in Uploads /\ workers[w] # Idle
  BY <1>1, WorkingRun
<1>3. RowTypes' /\ BatchesStay
  BY <1>2 DEF RefuseEntity, Types, RowTypes, Progress, Status, BatchesStay
<1>4. tasks'[workers[w].upload].status = "failed"
  BY <1>2 DEF RefuseEntity, Types, RowTypes, Progress
<1> QED BY <1>1, <1>2, <1>3, <1>4 DEF Advances, RefuseEntity, Quits, Ends

LEMMA LoadAdvances == ASSUME Types, NEW w \in Workers, Load(w) PROVE Advances(w)
<1> DEFINE copy == IF EditOf(w).record = "new" THEN NoRow ELSE rows[EditOf(w).record]
<1>1. Working(w)
  BY DEF Load, Working
<1>2. copy \in Row
  BY EditOfType, NoRowType DEF Load, Types, RowTypes
<1>3. PICK run \in Run : /\ GoesOn(w, run) /\ run.phase = "save"
                        /\ run.results = workers[w].results
  BY <1>1, <1>2, PhaseGoesOn DEF Load, InUpload
<1>4. Placed(run)
  BY <1>1, <1>3, WorkingRun DEF GoesOn, Placed, PlacedIn, Load
<1>5. RowTypes' /\ BatchesStay
  BY NothingSaved DEF Load
<1> QED BY <1>1, <1>3, <1>4, <1>5 DEF Advances, Proceeds, InUpload, Load

\* A record has been decided: the worker is about to report it.
LEMMA DecideAdvances ==
  ASSUME Types, NEW w \in Workers, workers[w].phase = "save", NEW outcome \in Outcome,
         Decide(w, outcome), UNCHANGED <<broker, lost, lock>>, RowTypes', BatchesStay
  PROVE  Advances(w)
<1>1. Working(w)
  BY DEF Working
<1>2. PICK run \in Run : /\ GoesOn(w, run) /\ run.phase = "report"
                        /\ run.results = Append(workers[w].results, outcome)
  BY <1>1, WorkingRun, DecideGoesOn
<1>3. workers[w] \in Run /\ Placed(workers[w]) /\ workers[w].upload \in Uploads
  BY <1>1, WorkingRun
<1>4. Len(run.results) = Len(workers[w].results) + 1 /\ Len(workers[w].results) \in Nat
  BY <1>2, <1>3, AppendProperties, LenProperties DEF Run
<1>5. Len(tasks[workers[w].upload].batch) \in Nat
  BY <1>3, BatchOf DEF Placed, PlacedIn, Posted
<1>6. Placed(run)
  BY <1>2, <1>3, <1>4, <1>5 DEF GoesOn, Placed, PlacedIn
<1> QED BY <1>1, <1>2, <1>6 DEF Advances, Proceeds, InUpload

LEMMA SkipAdvances == ASSUME Types, NEW w \in Workers, Skip(w) PROVE Advances(w)
BY DecideAdvances, NothingSaved DEF Skip, Outcome

LEMMA RefuseAdvances == ASSUME Types, NEW w \in Workers, Refuse(w) PROVE Advances(w)
BY DecideAdvances, NothingSaved DEF Refuse, Outcome

LEMMA SaveAdvances == ASSUME Types, NEW w \in Workers, Save(w) PROVE Advances(w)
<1> DEFINE u == workers[w].upload
<1>1. workers[w].phase = "save" /\ u \in Uploads
  BY WorkingRun DEF Save, Working
<1>2. EditOf(w) \in [record: Records \cup {"new"}, at: {0} \cup Times] /\ Place(w) \in Nat
  <2>1. workers[w] \in Run
    BY <1>1, WorkingRun DEF Working
  <2> QED BY <1>1, <2>1, EditOfType, LenProperties DEF Place, Run
<1>3. rows' \in [Records -> Row]
  <2>1. \A own \in BOOLEAN :
          [writer |-> u, stamp |-> clock, at |-> EditOf(w).at, own |-> own] \in Row
    BY <1>1, <1>2 DEF Row, Types, RowTypes
  <2>2. PICK target \in Targets(w) :
          rows' = [r \in Records |->
                     IF r # target THEN rows[r]
                     ELSE [writer |-> u, stamp |-> clock, at |-> EditOf(w).at,
                           own |-> target = EditOf(w).record]]
    BY DEF Save
  <2>3. \A r \in Records : rows'[r] \in Row
    BY <2>1, <2>2 DEF Types, RowTypes
  <2> QED BY <2>2, <2>3
<1>4. RowTypes' /\ BatchesStay
  BY <1>1, <1>2, <1>3 DEF Save, Types, RowTypes, BatchesStay
<1> QED BY <1>1, <1>4, DecideAdvances DEF Save, Outcome

LEMMA ReportAdvances == ASSUME Types, NEW w \in Workers, Report(w) PROVE Advances(w)
<1> DEFINE u == workers[w].upload
           phase == IF Len(workers[w].results) < Len(tasks[u].batch) THEN "load" ELSE "finish"
           run == [workers[w] EXCEPT !.phase = phase]
<1>1. Working(w)
  BY DEF Report, Working
<1>2. workers[w] \in Run /\ Placed(workers[w]) /\ u \in Uploads /\ workers[w] # Idle
  BY <1>1, WorkingRun
<1>3. RowTypes' /\ BatchesStay
  BY <1>2 DEF Report, Types, RowTypes, Progress, Run, BatchesStay
<1>4. run \in Run /\ run.phase = phase /\ run.upload = u /\ run.retries = workers[w].retries
      /\ run.results = workers[w].results
  BY <1>2 DEF Run
<1>5. Len(workers[w].results) \in Nat /\ Len(tasks[u].batch) \in Nat
  BY <1>2, LenProperties, BatchOf DEF Run, Placed, PlacedIn, Posted
<1>6. Placed(run)
  BY <1>2, <1>4, <1>5 DEF Placed, PlacedIn, Report
<1>7. GoesOn(w, run)
  BY <1>2, <1>4 DEF GoesOn, Report
<1> QED BY <1>1, <1>3, <1>4, <1>6, <1>7 DEF Advances, Proceeds, InUpload, Report

LEMMA FinishAdvances == ASSUME Types, NEW w \in Workers, Finish(w) PROVE Advances(w)
<1>1. Working(w)
  BY DEF Finish, Working
<1>2. workers[w] \in Run /\ workers[w].upload \in Uploads /\ workers[w] # Idle
  BY <1>1, WorkingRun
<1>3. RowTypes' /\ BatchesStay
  BY <1>2, ProgressSaved DEF Finish, Run, Status
<1>4. tasks'[workers[w].upload].status = "completed"
  BY <1>2 DEF Finish, Types, RowTypes, Progress
<1> QED BY <1>1, <1>2, <1>3, <1>4 DEF Advances, Finish, Quits, Ends

LEMMA DatabaseFailsAdvances ==
  ASSUME Types, NEW w \in Workers, DatabaseFails(w) PROVE Advances(w)
<1>1. Working(w) /\ workers[w] # Idle
  BY WorkingRun DEF DatabaseFails
<1> QED BY <1>1, RetryQuits, NothingSaved DEF Advances, DatabaseFails, Quits

LEMMA ReportFailsAdvances ==
  ASSUME Types, NEW w \in Workers, ReportFails(w) PROVE Advances(w)
<1>1. Working(w)
  BY DEF ReportFails, Working
<1>2. workers[w].upload \in Uploads /\ workers[w] # Idle
  BY <1>1, WorkingRun
<1>3. RowTypes' /\ BatchesStay
  BY <1>2 DEF ReportFails, Types, RowTypes, Progress, Status, BatchesStay
<1> QED BY <1>1, <1>2, <1>3, RetryQuits DEF Advances, ReportFails, Quits

\* A worker that waits for the lock gets it, gives up waiting, or is lost.
LEMMA AcquireGoesOn ==
  ASSUME Types, NEW w \in Workers, Acquire(w)
  PROVE  \E run \in Run : /\ GoesOn(w, run) /\ run.phase = "start" /\ Placed(run)
                          /\ run.results = workers[w].results
<1> DEFINE run == [workers[w] EXCEPT !.phase = "start"]
<1>1. workers[w] \in Run /\ Placed(workers[w]) /\ workers[w] # Idle
  BY RunOf DEF Acquire, Idle
<1>2. run \in Run /\ run.phase = "start" /\ run.upload = workers[w].upload
      /\ run.retries = workers[w].retries /\ run.results = workers[w].results
  BY <1>1 DEF Run
<1>3. Placed(run)
  BY <1>1, <1>2 DEF Placed, PlacedIn, Acquire
<1> QED BY <1>1, <1>2, <1>3 DEF GoesOn, Acquire, Enter

LEMMA TimeOutQuits == ASSUME Types, NEW w \in Workers, TimeOut(w) PROVE Quits(w)
<1>1. workers[w] # Idle
  BY DEF TimeOut, Idle
<1> QED BY <1>1, RetryQuits DEF TimeOut, Quits

LEMMA DieQuits == ASSUME NEW w \in Workers, Die(w) PROVE Quits(w)
BY DEF Die, Drop, Quits, GivesUp

(***************************************************************************)
(* Every step, and the types.                                              *)
(***************************************************************************)
InTask(w) ==
  \/ Start(w) \/ RefuseEntity(w) \/ Load(w) \/ Skip(w) \/ Save(w) \/ Refuse(w)
  \/ Report(w) \/ Finish(w) \/ DatabaseFails(w) \/ ReportFails(w)

Outside == Tick \/ (\E u \in Uploads : Commit(u)) \/ (\E r \in Records : WebSave(r))

LEMMA UploadSteps ==
  ASSUME UploadNext
  PROVE  \/ Outside
         \/ \E u \in Uploads : Post(u)
         \/ \E w \in Workers : Take(w) \/ Acquire(w) \/ TimeOut(w) \/ Die(w) \/ InTask(w)
BY DEF UploadNext, Outside, InTask

LEMMA InTaskAdvances == ASSUME Types, NEW w \in Workers, InTask(w) PROVE Advances(w)
BY StartAdvances, RefuseEntityAdvances, LoadAdvances, SkipAdvances, SaveAdvances, RefuseAdvances,
   ReportAdvances, FinishAdvances, DatabaseFailsAdvances, ReportFailsAdvances DEF InTask

LEMMA OutsideRows ==
  ASSUME Types, Outside
  PROVE  RowTypes' /\ BatchesStay /\ UNCHANGED <<broker, workers, lock, written, lost>>
<1>1. CASE Tick
  BY <1>1, UploadAssumption DEF Tick, Types, RowTypes, BatchesStay
<1>2. ASSUME NEW u \in Uploads, Commit(u) PROVE RowTypes' /\ BatchesStay
  <2>1. PICK status \in {"queued", "gone"} : tasks' = [tasks EXCEPT ![u].status = status]
    BY <1>2 DEF Commit
  <2>2. status \in Status /\ tasks \in [Uploads -> Progress] /\ tasks[u] \in Progress
    BY DEF Status, Types, RowTypes
  <2>3. [tasks[u] EXCEPT !.status = status] \in Progress
    BY <2>2 DEF Progress
  <2>4. tasks' \in [Uploads -> Progress]
    BY <2>1, <2>2, <2>3
  <2>5. BatchesStay
    BY <2>1, <2>2 DEF BatchesStay, Progress
  <2> QED BY <1>2, <2>4, <2>5 DEF Commit, Types, RowTypes
<1>3. ASSUME NEW r \in Records, WebSave(r) PROVE RowTypes' /\ BatchesStay
  <2>1. [writer |-> "web", stamp |-> clock, at |-> 0, own |-> TRUE] \in Row
    BY DEF Row, Types, RowTypes
  <2> QED BY <1>3, <2>1 DEF WebSave, Types, RowTypes, BatchesStay
<1> QED BY <1>1, <1>2, <1>3 DEF Outside, Tick, Commit, WebSave

LEMMA SameRunsTypes ==
  ASSUME Types, RowTypes', BatchesStay, UNCHANGED <<broker, workers, lock>>
  PROVE  Types'
<1>1. \A w \in Workers : workers[w] # Idle => PlacedIn(workers[w], tasks')
  BY PlacedStays, RunOf DEF Placed
<1>2. \A m \in broker : Posted(m.upload)'
  BY DEF Types, RunTypes, Message, Posted, BatchesStay
<1> QED BY <1>1, <1>2 DEF Types, RunTypes, Placed

LEMMA PostTypes == ASSUME Types, NEW u \in Uploads, Post(u) PROVE Types'
<1>1. PICK batch \in Batches, known \in BOOLEAN :
        tasks' = [tasks EXCEPT ![u] = [NoProgress EXCEPT !.status = "draft", !.batch = batch,
                                                         !.known = known]]
  BY DEF Post
<1>2. ~Posted(u)
  BY UploadAssumption DEF Post, Posted, NoProgress
<1>3. RowTypes' /\ BatchesStay /\ Posted(u)'
  BY <1>1, <1>2 DEF Post, Types, RowTypes, BatchesStay, Progress, NoProgress, Status, Posted
<1>4. \A w \in Workers : workers[w] # Idle => PlacedIn(workers[w], tasks')
  BY <1>3, PlacedStays, RunOf DEF Placed
<1>5. broker' \subseteq Message /\ \A m \in broker' : Posted(m.upload)'
  BY <1>3, UploadAssumption DEF Post, Types, RunTypes, Message, Posted, BatchesStay
<1> QED BY <1>3, <1>4, <1>5 DEF Types, RunTypes, Placed, Post

LEMMA TakeRun ==
  ASSUME Types, NEW w \in Workers, Take(w)
  PROVE  \E m \in broker, run \in Run :
           /\ run = [phase |-> "wait", upload |-> m.upload, retries |-> m.retries,
                      results |-> <<>>, copy |-> NoRow]
           /\ Placed(run)
           /\ broker' = broker \ {m}
           /\ workers' = [workers EXCEPT ![w] = run]
<1>1. PICK m \in broker :
        /\ broker' = broker \ {m}
        /\ workers' = [workers EXCEPT ![w] = [phase |-> "wait", upload |-> m.upload,
                          retries |-> m.retries, results |-> <<>>, copy |-> NoRow]]
  BY DEF Take
<1> DEFINE run == [phase |-> "wait", upload |-> m.upload, retries |-> m.retries,
                   results |-> <<>>, copy |-> NoRow]
<1>2. m \in Message /\ Posted(m.upload)
  BY DEF Types, RunTypes
<1>3. run \in Run
  BY <1>2, NoRowType, EmptySeq DEF Run, Message
<1>4. Placed(run)
  BY <1>2 DEF Placed, PlacedIn, Posted
<1> QED BY <1>1, <1>3, <1>4

LEMMA TakeTypes == ASSUME Types, NEW w \in Workers, Take(w) PROVE Types'
<1>1. PICK m \in broker, run \in Run :
        /\ Placed(run)
        /\ broker' = broker \ {m}
        /\ workers' = [workers EXCEPT ![w] = run]
  BY TakeRun
<1>2. RowTypes' /\ BatchesStay /\ UNCHANGED <<tasks, lock>>
  BY NothingSaved DEF Take
<1>3. \A v \in Workers : workers'[v] # Idle => Placed(workers'[v])
  BY <1>1, RunOf DEF Types, RunTypes
<1> QED BY <1>1, <1>2, <1>3 DEF Types, RunTypes, Placed, Posted

LEMMA TypesStep == Types /\ [UploadNext]_uploadVars => Types'
<1> SUFFICES ASSUME Types, [UploadNext]_uploadVars PROVE Types'
  OBVIOUS
<1>1. CASE UNCHANGED uploadVars
  BY <1>1, NothingSaved, SameRunsTypes DEF uploadVars
<1>2. CASE Outside
  BY <1>2, OutsideRows, SameRunsTypes
<1>3. ASSUME NEW u \in Uploads, Post(u) PROVE Types'
  BY <1>3, PostTypes
<1>4. ASSUME NEW w \in Workers, Take(w) PROVE Types'
  BY <1>4, TakeTypes
<1>5. ASSUME NEW w \in Workers, Acquire(w) PROVE Types'
  BY <1>5, AcquireGoesOn, NothingSaved, GoesOnTypes DEF Acquire
<1>6. ASSUME NEW w \in Workers, TimeOut(w) \/ Die(w) PROVE Types'
  BY <1>6, TimeOutQuits, DieQuits, NothingSaved, QuitsTypes DEF TimeOut, Die
<1>7. ASSUME NEW w \in Workers, InTask(w) PROVE Types'
  <2>1. RowTypes' /\ BatchesStay /\ (Proceeds(w) \/ Quits(w))
    BY <1>7, InTaskAdvances DEF Advances
  <2>2. CASE Proceeds(w)
    BY <2>1, <2>2, GoesOnTypes DEF Proceeds, Types, RunTypes
  <2>3. CASE Quits(w)
    BY <2>1, <2>3, QuitsTypes
  <2> QED BY <2>1, <2>2, <2>3
<1> QED BY <1>1, <1>2, <1>3, <1>4, <1>5, <1>6, <1>7, UploadSteps

LEMMA TypesInit == UploadInit => Types
BY UploadAssumption, EmptySeq
   DEF UploadInit, Types, RowTypes, RunTypes, Row, NoRow, Progress, NoProgress, Status, Idle

(***************************************************************************)
(* The lock.                                                               *)
(***************************************************************************)
Upload == Types /\ LockEndsWithUpload

LEMMA RunWorks ==
  ASSUME NEW run \in Run
  PROVE  run.phase \in {"wait"} \cup InUpload /\ Idle.phase \notin InUpload
BY DEF Run, Idle, InUpload

\* A worker that leaves the upload leaves the lock free if it had it.
LEMMA QuitsLock ==
  ASSUME Upload, NEW w \in Workers, Quits(w)
  PROVE  LockEndsWithUpload'
<1>1. /\ workers' = [workers EXCEPT ![w] = Idle] /\ w \in DOMAIN workers
      /\ lock' = IF lock = w THEN "free" ELSE lock
  BY DEF Quits, LetGo, Upload, Types, RunTypes
<1>2. ASSUME NEW v \in Workers PROVE (lock' = v) = Working(v)'
  <2>1. CASE v = w
    BY <1>1, <2>1, UploadAssumption DEF Working, Idle
  <2>2. CASE v # w
    BY <1>1, <2>2, UploadAssumption DEF Working, Upload, LockEndsWithUpload
  <2> QED BY <2>1, <2>2
<1> QED BY <1>2 DEF LockEndsWithUpload

\* A worker that goes on in the upload keeps the lock.
LEMMA ProceedsLock ==
  ASSUME Upload, NEW w \in Workers, Working(w), Proceeds(w)
  PROVE  LockEndsWithUpload'
<1>1. PICK run \in Run : run.phase \in InUpload /\ workers' = [workers EXCEPT ![w] = run]
  BY DEF Proceeds, GoesOn
<1>2. w \in DOMAIN workers /\ lock' = lock
  BY DEF Proceeds, Upload, Types, RunTypes
<1> QED BY <1>1, <1>2 DEF Upload, LockEndsWithUpload, Working, InUpload

LEMMA AcquireLock == ASSUME Upload, NEW w \in Workers, Acquire(w) PROVE LockEndsWithUpload'
<1>1. workers' = [workers EXCEPT ![w].phase = "start"] /\ lock = "free" /\ lock' = w
  BY DEF Acquire, Enter
<1>2. workers[w] \in Run /\ w \in DOMAIN workers
  BY RunOf DEF Acquire, Idle, Upload, Types, RunTypes
<1>3. \A v \in Workers : ~Working(v)
  BY <1>1, UploadAssumption DEF Upload, LockEndsWithUpload
<1> QED BY <1>1, <1>2, <1>3 DEF LockEndsWithUpload, Working, Run

LEMMA TakeLock == ASSUME Upload, NEW w \in Workers, Take(w) PROVE LockEndsWithUpload'
<1>1. PICK run \in Run : run.phase = "wait" /\ workers' = [workers EXCEPT ![w] = run]
  BY TakeRun DEF Upload
<1>2. w \in DOMAIN workers /\ lock' = lock /\ ~Working(w)
  BY DEF Take, Upload, Types, RunTypes, Working, Idle
<1> QED BY <1>1, <1>2 DEF Upload, LockEndsWithUpload, Working

LEMMA InTaskWorks == ASSUME NEW w \in Workers, InTask(w) PROVE Working(w)
BY DEF InTask, Working, Start, RefuseEntity, Load, Skip, Save, Refuse, Report, Finish,
   DatabaseFails, ReportFails

LEMMA UploadStep == Upload /\ [UploadNext]_uploadVars => Upload'
<1> SUFFICES ASSUME Upload, [UploadNext]_uploadVars PROVE LockEndsWithUpload'
  BY TypesStep DEF Upload
<1> Types
  BY DEF Upload
<1>1. ASSUME UNCHANGED <<workers, lock>> PROVE LockEndsWithUpload'
  BY <1>1 DEF Upload, LockEndsWithUpload, Working
<1>2. CASE UNCHANGED uploadVars
  BY <1>1, <1>2 DEF uploadVars
<1>3. CASE Outside
  BY <1>1, <1>3, OutsideRows
<1>4. ASSUME NEW u \in Uploads, Post(u) PROVE LockEndsWithUpload'
  BY <1>1, <1>4 DEF Post
<1>5. ASSUME NEW w \in Workers, Take(w) \/ Acquire(w) PROVE LockEndsWithUpload'
  BY <1>5, TakeLock, AcquireLock
<1>6. ASSUME NEW w \in Workers, TimeOut(w) \/ Die(w) PROVE LockEndsWithUpload'
  BY <1>6, TimeOutQuits, DieQuits, QuitsLock
<1>7. ASSUME NEW w \in Workers, InTask(w) PROVE LockEndsWithUpload'
  BY <1>7, InTaskAdvances, InTaskWorks, ProceedsLock, QuitsLock DEF Advances
<1> QED BY <1>2, <1>3, <1>4, <1>5, <1>6, <1>7, UploadSteps

LEMMA UploadStarts == UploadInit => Upload
BY TypesInit, UploadAssumption DEF UploadInit, Upload, LockEndsWithUpload, Working, Idle

(* The lock file is held by the worker that is in an upload, and by nobody *)
(* when none is: every way out of the task lets go of it.                  *)
THEOREM LockIsFreed == UploadSpec => []LockEndsWithUpload
<1>1. Upload => LockEndsWithUpload
  BY DEF Upload
<1> QED BY <1>1, UploadStarts, UploadStep, PTL DEF UploadSpec

(***************************************************************************)
(* No upload is forgotten.                                                 *)
(***************************************************************************)
\* An upload that was posted and has no end yet, committed or not.
Waiting(u) == tasks[u].status \in {"draft", "queued", "running"}
Accounted == \A u \in Uploads : Waiting(u) => InFlight(u) \/ u \in lost

Tracked == Types /\ Accounted

\* Only its own upload's row is written by a worker.
LEMMA OtherTasksStay ==
  ASSUME Types, NEW w \in Workers, InTask(w) \/ Take(w) \/ Acquire(w) \/ TimeOut(w) \/ Die(w),
         NEW u \in Uploads, u # workers[w].upload
  PROVE  tasks'[u] = tasks[u]
<1> tasks \in [Uploads -> Progress]
  BY DEF Types, RowTypes
<1>1. CASE RefuseEntity(w) \/ Report(w) \/ Finish(w) \/ ReportFails(w) \/ Start(w)
  BY <1>1 DEF RefuseEntity, Report, Finish, ReportFails, Start
<1>2. CASE Load(w) \/ Skip(w) \/ Save(w) \/ Refuse(w) \/ DatabaseFails(w)
  BY <1>2 DEF Load, Skip, Save, Refuse, DatabaseFails
<1>3. CASE Take(w) \/ Acquire(w) \/ TimeOut(w) \/ Die(w)
  BY <1>3 DEF Take, Acquire, TimeOut, Die
<1> QED BY <1>1, <1>2, <1>3 DEF InTask

LEMMA GoesOnFlies ==
  ASSUME Types, NEW w \in Workers, NEW run \in Run, GoesOn(w, run), NEW u \in Uploads,
         InFlight(u)
  PROVE  InFlight(u)'
<1>1. workers'[w] = run /\ \A v \in Workers \ {w} : workers'[v] = workers[v]
  BY DEF GoesOn, Types, RunTypes
<1>2. run # Idle /\ run.upload = workers[w].upload /\ broker' = broker
  BY IdleIsNoRun DEF GoesOn
<1> QED BY <1>1, <1>2 DEF InFlight

\* A worker that lets go touches no upload but its own.
LEMMA QuitsFlies ==
  ASSUME Types, NEW w \in Workers, Quits(w), NEW u \in Uploads, u # workers[w].upload,
         InFlight(u)
  PROVE  InFlight(u)'
<1>1. \A v \in Workers \ {w} : workers'[v] = workers[v]
  BY DEF Quits, LetGo, Types, RunTypes
<1>2. broker \subseteq broker'
  BY DEF Quits, Ends, QueuesAgain, GivesUp
<1> QED BY <1>1, <1>2 DEF InFlight

\* And its own is queued again, lost, or at its end.
LEMMA QuitsAccounts ==
  ASSUME Types, NEW w \in Workers, Quits(w), NEW u \in Uploads, u = workers[w].upload
  PROVE  tasks'[u].status \in {"completed", "failed"} \/ InFlight(u)' \/ u \in lost'
<1>1. CASE QueuesAgain(w)
  <2>1. PICK n \in 0 .. MaxRetries : broker' = broker \cup {[upload |-> u, retries |-> n]}
    BY <1>1 DEF QueuesAgain
  <2>2. [upload |-> u, retries |-> n] \in broker' /\ [upload |-> u, retries |-> n].upload = u
    BY <2>1
  <2> QED BY <2>2 DEF InFlight
<1>2. CASE Ends(w) \/ GivesUp(w)
  BY <1>2 DEF Ends, GivesUp
<1> QED BY <1>1, <1>2 DEF Quits

LEMMA TakeFlies ==
  ASSUME Types, NEW w \in Workers, Take(w), NEW u \in Uploads, InFlight(u)
  PROVE  InFlight(u)'
<1>1. PICK m \in broker, run \in Run :
        /\ run.upload = m.upload
        /\ broker' = broker \ {m}
        /\ workers' = [workers EXCEPT ![w] = run]
  BY TakeRun
<1>2. /\ workers[w] = Idle /\ workers'[w] = run /\ run # Idle
      /\ \A v \in Workers \ {w} : workers'[v] = workers[v]
  BY <1>1, IdleIsNoRun DEF Take, Types, RunTypes
<1>3. CASE m.upload = u
  BY <1>1, <1>2, <1>3 DEF InFlight
<1>4. CASE m.upload # u
  BY <1>1, <1>2, <1>4 DEF InFlight
<1> QED BY <1>3, <1>4

\* The account of the uploads a worker does not have is not disturbed.
LEMMA OthersAccounted ==
  ASSUME Tracked, NEW w \in Workers,
         InTask(w) \/ Acquire(w) \/ TimeOut(w) \/ Die(w),
         Quits(w) \/ \E run \in Run : GoesOn(w, run),
         NEW u \in Uploads, u # workers[w].upload, Waiting(u)'
  PROVE  InFlight(u)' \/ u \in lost'
<1>1. Types /\ tasks'[u] = tasks[u]
  BY OtherTasksStay DEF Tracked
<1>2. InFlight(u) \/ u \in lost
  BY <1>1 DEF Tracked, Accounted, Waiting
<1>3. lost \subseteq lost'
  BY DEF Quits, Ends, QueuesAgain, GivesUp, GoesOn
<1>4. ASSUME InFlight(u) PROVE InFlight(u)'
  BY <1>1, <1>4, GoesOnFlies, QuitsFlies
<1> QED BY <1>2, <1>3, <1>4

LEMMA QuitsTracked ==
  ASSUME Tracked, NEW w \in Workers, InTask(w) \/ TimeOut(w) \/ Die(w), Quits(w)
  PROVE  Accounted'
<1>1. ASSUME NEW u \in Uploads, Waiting(u)' PROVE InFlight(u)' \/ u \in lost'
  <2>1. CASE u = workers[w].upload
    BY <1>1, <2>1, QuitsAccounts DEF Tracked, Waiting
  <2>2. CASE u # workers[w].upload
    BY <1>1, <2>2, OthersAccounted
  <2> QED BY <2>1, <2>2
<1> QED BY <1>1 DEF Accounted

LEMMA GoesOnTracked ==
  ASSUME Tracked, NEW w \in Workers, InTask(w) \/ Acquire(w), NEW run \in Run, GoesOn(w, run)
  PROVE  Accounted'
<1>1. ASSUME NEW u \in Uploads, Waiting(u)' PROVE InFlight(u)' \/ u \in lost'
  <2>1. CASE u = workers[w].upload
    BY <2>1, GoesOnFlies DEF GoesOn, InFlight, Tracked
  <2>2. CASE u # workers[w].upload
    BY <1>1, <2>2, OthersAccounted
  <2> QED BY <2>1, <2>2
<1> QED BY <1>1 DEF Accounted

LEMMA OutsideTracked == ASSUME Tracked, Outside PROVE Accounted'
<1>1. UNCHANGED <<broker, workers, lost>>
  BY OutsideRows DEF Tracked
<1>2. ASSUME NEW u \in Uploads, Waiting(u)' PROVE Waiting(u)
  <2>1. CASE Tick \/ \E r \in Records : WebSave(r)
    BY <1>2, <2>1 DEF Tick, WebSave, Waiting
  <2>2. ASSUME NEW v \in Uploads, Commit(v) PROVE Waiting(u)
    <3>1. PICK status \in {"queued", "gone"} : tasks' = [tasks EXCEPT ![v].status = status]
      BY <2>2 DEF Commit
    <3>2. tasks[v].status = "draft" /\ tasks \in [Uploads -> Progress]
      BY <2>2 DEF Commit, Tracked, Types, RowTypes
    <3> QED BY <1>2, <3>1, <3>2 DEF Waiting
  <2> QED BY <2>1, <2>2 DEF Outside
<1> QED BY <1>1, <1>2 DEF Tracked, Accounted, InFlight

LEMMA PostTracked == ASSUME Tracked, NEW p \in Uploads, Post(p) PROVE Accounted'
<1>1. \A u \in Uploads \ {p} : tasks'[u] = tasks[u]
  BY DEF Post, Tracked, Types, RowTypes
<1>2. /\ [upload |-> p, retries |-> 0] \in broker' /\ broker \subseteq broker'
      /\ UNCHANGED <<workers, lost>>
  BY DEF Post
<1>3. InFlight(p)'
  BY <1>2 DEF InFlight
<1> QED BY <1>1, <1>2, <1>3 DEF Tracked, Accounted, InFlight, Waiting

LEMMA TakeTracked == ASSUME Tracked, NEW w \in Workers, Take(w) PROVE Accounted'
BY TakeFlies DEF Take, Tracked, Accounted, Waiting

LEMMA TrackedStep == Tracked /\ [UploadNext]_uploadVars => Tracked'
<1> SUFFICES ASSUME Tracked, [UploadNext]_uploadVars PROVE Accounted'
  BY TypesStep DEF Tracked
<1> Types
  BY DEF Tracked
<1>1. CASE UNCHANGED uploadVars
  BY <1>1 DEF uploadVars, Tracked, Accounted, Waiting, InFlight
<1>2. CASE Outside
  BY <1>2, OutsideTracked
<1>3. ASSUME NEW u \in Uploads, Post(u) PROVE Accounted'
  BY <1>3, PostTracked
<1>4. ASSUME NEW w \in Workers, Take(w) PROVE Accounted'
  BY <1>4, TakeTracked
<1>5. ASSUME NEW w \in Workers, Acquire(w) PROVE Accounted'
  BY <1>5, AcquireGoesOn, GoesOnTracked
<1>6. ASSUME NEW w \in Workers, TimeOut(w) \/ Die(w) PROVE Accounted'
  BY <1>6, TimeOutQuits, DieQuits, QuitsTracked
<1>7. ASSUME NEW w \in Workers, InTask(w) PROVE Accounted'
  BY <1>7, InTaskAdvances, GoesOnTracked, QuitsTracked DEF Advances, Proceeds
<1> QED BY <1>1, <1>2, <1>3, <1>4, <1>5, <1>6, <1>7, UploadSteps

LEMMA TrackedInit == UploadInit => Tracked
BY TypesInit DEF UploadInit, Tracked, Accounted, Waiting, NoProgress

(* An upload the phone sees as queued or running is on the broker or with  *)
(* a worker, however often it was retried, unless a worker gave it up or   *)
(* took it along when it died.                                             *)
THEOREM NoUploadForgotten == UploadSpec => []NoneDropped
<1>1. Tracked => NoneDropped
  BY DEF Tracked, Accounted, Waiting, NoneDropped, Unfinished
<1> QED BY <1>1, TrackedInit, TrackedStep, PTL DEF UploadSpec

(***************************************************************************)
(* Complete means complete.                                                *)
(***************************************************************************)
\* An upload is in one place: a message, or a worker.
Solo ==
  /\ \A m, n \in broker : m.upload = n.upload => m = n
  /\ \A w \in Workers, m \in broker : workers[w] # Idle => m.upload # workers[w].upload
  /\ \A v, w \in Workers : workers[v] # Idle /\ workers[w] # Idle
                           /\ workers[v].upload = workers[w].upload => v = w

\* One that was not posted, or is complete, is nowhere.
Rests == \A u \in Uploads : tasks[u].status \in {"none", "completed"} => ~InFlight(u)

Honest(results, places) ==
  \A k \in DOMAIN results : results[k] \in {"created", "updated"} => k \in places

HonestRuns == \A w \in Workers : workers[w] # Idle =>
                Honest(workers[w].results, written[workers[w].upload])

Whole == Types /\ Solo /\ Rests /\ HonestRuns /\ CompletedIsWhole

LEMMA GoesOnSolo ==
  ASSUME Types, Solo, NEW w \in Workers, NEW run \in Run, GoesOn(w, run)
  PROVE  Solo' /\ \A u \in Uploads : InFlight(u)' => InFlight(u)
<1>1. workers'[w] = run /\ \A v \in Workers \ {w} : workers'[v] = workers[v]
  BY DEF GoesOn, Types, RunTypes
<1>2. /\ run # Idle /\ workers[w] # Idle /\ run.upload = workers[w].upload
      /\ broker' = broker
  BY IdleIsNoRun DEF GoesOn
<1>3. Solo'
  BY <1>1, <1>2 DEF Solo
<1>4. \A u \in Uploads : InFlight(u)' => InFlight(u)
  BY <1>1, <1>2 DEF InFlight
<1> QED BY <1>3, <1>4

LEMMA QuitsSolo ==
  ASSUME Types, Solo, NEW w \in Workers, Quits(w)
  PROVE  Solo' /\ \A u \in Uploads : InFlight(u)' => InFlight(u)
<1>1. /\ workers'[w] = Idle /\ workers[w] # Idle
      /\ \A v \in Workers \ {w} : workers'[v] = workers[v]
  BY DEF Quits, LetGo, Types, RunTypes
<1>2. CASE broker' = broker
  BY <1>1, <1>2 DEF Solo, InFlight
<1>3. CASE QueuesAgain(w)
  <2>1. PICK n \in 0 .. MaxRetries :
          broker' = broker \cup {[upload |-> workers[w].upload, retries |-> n]}
    BY <1>3 DEF QueuesAgain
  <2>2. \A m \in broker : m.upload # workers[w].upload
    BY <1>1 DEF Solo
  <2>3. Solo'
    BY <1>1, <2>1, <2>2 DEF Solo
  <2>4. \A u \in Uploads : InFlight(u)' => InFlight(u)
    BY <1>1, <2>1 DEF InFlight
  <2> QED BY <2>3, <2>4
<1> QED BY <1>2, <1>3 DEF Quits, Ends, GivesUp

LEMMA EndsNowhere ==
  ASSUME Types, Solo, NEW w \in Workers, workers[w] # Idle, LetGo(w), UNCHANGED broker,
         NEW u \in Uploads, u = workers[w].upload
  PROVE  ~InFlight(u)'
<1>1. workers'[w] = Idle /\ \A v \in Workers \ {w} : workers'[v] = workers[v]
  BY DEF LetGo, Types, RunTypes
<1>2. \A m \in broker : m.upload # u
  BY DEF Solo
<1>3. \A v \in Workers \ {w} : workers[v] # Idle => workers[v].upload # u
  BY DEF Solo
<1> QED BY <1>1, <1>2, <1>3 DEF InFlight

LEMMA TakeSolo ==
  ASSUME Types, Solo, NEW w \in Workers, Take(w)
  PROVE  Solo' /\ \A u \in Uploads : InFlight(u)' => InFlight(u)
<1>1. PICK m \in broker, run \in Run :
        /\ run.upload = m.upload
        /\ broker' = broker \ {m}
        /\ workers' = [workers EXCEPT ![w] = run]
  BY TakeRun
<1>2. /\ workers[w] = Idle /\ workers'[w] = run /\ run # Idle
      /\ \A v \in Workers \ {w} : workers'[v] = workers[v]
  BY <1>1, IdleIsNoRun DEF Take, Types, RunTypes
<1>3. Solo'
  BY <1>1, <1>2 DEF Solo
<1>4. \A u \in Uploads : InFlight(u)' => InFlight(u)
  BY <1>1, <1>2 DEF InFlight
<1> QED BY <1>3, <1>4

LEMMA PostSolo ==
  ASSUME Types, Solo, Rests, NEW p \in Uploads, Post(p)
  PROVE  Solo' /\ \A u \in Uploads \ {p} : InFlight(u)' => InFlight(u)
<1>1. ~InFlight(p)
  BY DEF Rests, Post, NoProgress
<1>2. broker' = broker \cup {[upload |-> p, retries |-> 0]} /\ UNCHANGED workers
  BY DEF Post
<1>3. \A m \in broker : m.upload # p
  BY <1>1 DEF InFlight
<1>4. \A w \in Workers : workers[w] # Idle => workers[w].upload # p
  BY <1>1 DEF InFlight
<1>5. Solo'
  BY <1>2, <1>3, <1>4 DEF Solo
<1>6. \A u \in Uploads \ {p} : InFlight(u)' => InFlight(u)
  BY <1>2 DEF InFlight
<1> QED BY <1>5, <1>6

\* The status a worker leaves: completed or not posted only if it was, or at the end.
LEMMA OwnStatus ==
  ASSUME Types, NEW w \in Workers, InTask(w) \/ Acquire(w) \/ TimeOut(w) \/ Die(w), ~Finish(w),
         NEW u \in Uploads, tasks'[u].status \in {"none", "completed"}
  PROVE  tasks[u].status = tasks'[u].status
<1> tasks \in [Uploads -> Progress]
  BY DEF Types, RowTypes
<1>1. CASE RefuseEntity(w) \/ Report(w) \/ ReportFails(w) \/ Start(w)
  BY <1>1 DEF RefuseEntity, Report, ReportFails, Start, Progress
<1>2. CASE Load(w) \/ Skip(w) \/ Save(w) \/ Refuse(w) \/ DatabaseFails(w)
  BY <1>2 DEF Load, Skip, Save, Refuse, DatabaseFails
<1>3. CASE Acquire(w) \/ TimeOut(w) \/ Die(w)
  BY <1>3 DEF Acquire, TimeOut, Die
<1> QED BY <1>1, <1>2, <1>3 DEF InTask

LEMMA WrittenGrows ==
  ASSUME Types, UploadNext
  PROVE  \A u \in Uploads : written[u] \subseteq written'[u]
<1>1. ASSUME NEW w \in Workers, Save(w) PROVE \A u \in Uploads : written[u] \subseteq written'[u]
  BY <1>1 DEF Save, Types, RowTypes
<1>2. ASSUME NEW w \in Workers, ~Save(w),
             Take(w) \/ Acquire(w) \/ TimeOut(w) \/ Die(w) \/ InTask(w)
      PROVE  written' = written
  BY <1>2 DEF Take, Acquire, TimeOut, Die, InTask, Start, RefuseEntity, Load, Skip, Refuse,
     Report, Finish, DatabaseFails, ReportFails
<1>3. ASSUME NEW u \in Uploads, Post(u) PROVE written' = written
  BY <1>3 DEF Post
<1>4. CASE Outside
  BY <1>4, OutsideRows
<1> QED BY <1>1, <1>2, <1>3, <1>4, UploadSteps

\* A run's results are the ones it had, with one more that is honest, or none.
LEMMA RunResults ==
  ASSUME Types, UploadNext, NEW w \in Workers, workers'[w] # Idle
  PROVE  \/ workers'[w].results = <<>>
         \/ /\ workers[w] # Idle /\ workers'[w].upload = workers[w].upload
            /\ \/ workers'[w].results = workers[w].results
               \/ \E outcome \in Outcome :
                    /\ workers'[w].results = Append(workers[w].results, outcome)
                    /\ outcome \in {"created", "updated"}
                         => Place(w) \in written'[workers[w].upload]
<1> workers \in [Workers -> Run \cup {Idle}] /\ written \in [Uploads -> SUBSET Nat]
  BY DEF Types, RunTypes, RowTypes
<1>1. ASSUME NEW v \in Workers, v # w,
             Take(v) \/ Acquire(v) \/ TimeOut(v) \/ Die(v) \/ InTask(v)
      PROVE  workers'[w] = workers[w]
  <2>1. CASE Take(v) \/ Acquire(v)
    BY <1>1, <2>1 DEF Take, Acquire, Enter
  <2>2. CASE TimeOut(v) \/ Die(v) \/ InTask(v)
    <3>1. Proceeds(v) \/ Quits(v)
      BY <2>2, TimeOutQuits, DieQuits, InTaskAdvances DEF Advances
    <3> QED BY <1>1, <3>1 DEF Proceeds, GoesOn, Quits, LetGo
  <2> QED BY <1>1, <2>1, <2>2
<1>2. CASE Take(w)
  BY <1>2 DEF Take
<1>3. CASE TimeOut(w) \/ Die(w) \/ RefuseEntity(w) \/ Finish(w) \/ DatabaseFails(w) \/ ReportFails(w)
  <2>1. LetGo(w)
    BY <1>3, TimeOutQuits, DieQuits, RetryQuits, WorkingRun
       DEF Quits, RefuseEntity, Finish, DatabaseFails, ReportFails, Working, Idle
  <2> QED BY <2>1 DEF LetGo
<1>4. CASE Acquire(w)
  BY <1>4, AcquireGoesOn DEF GoesOn
<1>5. CASE Start(w)
  <2>1. CASE Drop(w)
    BY <2>1 DEF Drop, LetGo
  <2>2. CASE workers' = [workers EXCEPT ![w].phase = "load"]
    BY <1>5, <2>2 DEF Start, Idle, Run
  <2> QED BY <1>5, <2>1, <2>2 DEF Start
<1>6. CASE Load(w) \/ Report(w)
  <2>1. workers[w] \in Run /\ workers[w] # Idle
    BY <1>6, WorkingRun DEF Load, Report, Working
  <2> QED BY <1>6, <2>1 DEF Load, Report, Run
<1>7. CASE Skip(w) \/ Refuse(w) \/ Save(w)
  <2>1. workers[w] \in Run /\ workers[w] # Idle /\ workers[w].upload \in Uploads
    BY <1>7, WorkingRun DEF Skip, Refuse, Save, Working
  <2>2. PICK outcome \in Outcome :
          /\ Decide(w, outcome)
          /\ outcome \in {"created", "updated"} => Place(w) \in written'[workers[w].upload]
    BY <1>7, <2>1 DEF Skip, Refuse, Save, Outcome
  <2> QED BY <2>1, <2>2 DEF Decide, Run
<1>8. CASE Outside \/ \E u \in Uploads : Post(u)
  BY <1>8, OutsideRows DEF Post
<1> QED BY <1>1, <1>2, <1>3, <1>4, <1>5, <1>6, <1>7, <1>8, UploadSteps DEF InTask

LEMMA HonestStays ==
  ASSUME NEW results \in Seq(Outcome), NEW places, NEW more, places \subseteq more,
         Honest(results, places)
  PROVE  Honest(results, more)
BY DEF Honest

LEMMA HonestAppends ==
  ASSUME NEW results \in Seq(Outcome), NEW outcome \in Outcome, NEW places,
         Honest(results, places),
         outcome \in {"created", "updated"} => Len(results) + 1 \in places
  PROVE  Honest(Append(results, outcome), places)
<1>1. /\ DOMAIN Append(results, outcome) = 1 .. Len(results) + 1
      /\ Append(results, outcome)[Len(results) + 1] = outcome
      /\ \A k \in 1 .. Len(results) : Append(results, outcome)[k] = results[k]
      /\ DOMAIN results = 1 .. Len(results) /\ Len(results) \in Nat
  BY AppendProperties, LenProperties
<1> QED BY <1>1 DEF Honest

LEMMA HonestStep ==
  ASSUME Types, HonestRuns, UploadNext
  PROVE  HonestRuns'
<1>1. ASSUME NEW w \in Workers, workers'[w] # Idle
      PROVE  Honest(workers'[w].results, written'[workers'[w].upload])
  <2>1. CASE workers'[w].results = <<>>
    BY <2>1 DEF Honest
  <2>2. ASSUME workers[w] # Idle, workers'[w].upload = workers[w].upload
        PROVE  /\ workers[w].results \in Seq(Outcome)
               /\ Honest(workers[w].results, written'[workers[w].upload])
    <3>1. workers[w] \in Run
      BY <2>2, RunOf
    <3>2. /\ workers[w].results \in Seq(Outcome)
          /\ written[workers[w].upload] \subseteq written'[workers[w].upload]
      BY <3>1, WrittenGrows DEF Run
    <3> QED BY <2>2, <3>2, HonestStays DEF HonestRuns
  <2> QED BY <1>1, <2>1, <2>2, RunResults, HonestAppends DEF Place
<1> QED BY <1>1 DEF HonestRuns

\* An upload that rests stays where it is, and what was written for it too.
LEMMA StepMakes ==
  ASSUME Whole, UploadNext
  PROVE  /\ Solo'
         /\ \A u \in Uploads : tasks'[u].status \in {"none", "completed"} =>
              \/ /\ tasks[u] = tasks'[u] /\ ~InFlight(u)'
              \/ /\ ~InFlight(u)'
                 /\ \E w \in Workers : Finish(w) /\ u = workers[w].upload
<1> Types /\ Solo /\ Rests /\ tasks \in [Uploads -> Progress]
  BY DEF Whole, Types, RowTypes
<1> DEFINE Resting(u) ==
      tasks'[u].status \in {"none", "completed"} =>
        \/ /\ tasks[u] = tasks'[u] /\ ~InFlight(u)'
        \/ /\ ~InFlight(u)'
           /\ \E w \in Workers : Finish(w) /\ u = workers[w].upload
<1>1. CASE Outside
  <2>1. UNCHANGED <<broker, workers>>
    BY <1>1, OutsideRows
  <2>2. Solo' /\ \A u \in Uploads : InFlight(u)' <=> InFlight(u)
    BY <2>1 DEF Solo, InFlight
  <2>3. ASSUME NEW u \in Uploads, tasks'[u].status \in {"none", "completed"}
        PROVE  tasks[u] = tasks'[u]
    <3>1. CASE Tick \/ \E r \in Records : WebSave(r)
      BY <3>1 DEF Tick, WebSave
    <3>2. ASSUME NEW v \in Uploads, Commit(v) PROVE tasks[u] = tasks'[u]
      <4>1. PICK status \in {"queued", "gone"} : tasks' = [tasks EXCEPT ![v].status = status]
        BY <3>2 DEF Commit
      <4>2. u # v
        BY <2>3, <4>1 DEF Progress
      <4> QED BY <4>1, <4>2
    <3> QED BY <1>1, <3>1, <3>2 DEF Outside
  <2> QED BY <2>2, <2>3 DEF Rests
<1>2. ASSUME NEW p \in Uploads, Post(p) PROVE Solo' /\ \A u \in Uploads : Resting(u)
  <2>1. tasks'[p].status = "draft" /\ \A u \in Uploads \ {p} : tasks'[u] = tasks[u]
    BY <1>2 DEF Post, Progress, NoProgress
  <2> QED BY <1>2, <2>1, PostSolo DEF Rests
<1>3. ASSUME NEW w \in Workers, Take(w) PROVE Solo' /\ \A u \in Uploads : Resting(u)
  <2>1. tasks' = tasks
    BY <1>3 DEF Take
  <2> QED BY <1>3, <2>1, TakeSolo DEF Rests
<1>4. ASSUME NEW w \in Workers, Acquire(w) \/ TimeOut(w) \/ Die(w) \/ InTask(w)
      PROVE  Solo' /\ \A u \in Uploads : Resting(u)
  <2>1. Quits(w) \/ \E run \in Run : GoesOn(w, run)
    BY <1>4, AcquireGoesOn, TimeOutQuits, DieQuits, InTaskAdvances DEF Advances, Proceeds
  <2>2. Solo' /\ \A u \in Uploads : InFlight(u)' => InFlight(u)
    BY <2>1, GoesOnSolo, QuitsSolo
  <2>3. workers[w] # Idle
    BY <2>1 DEF Quits, GoesOn
  <2>4. ASSUME NEW u \in Uploads, u # workers[w].upload PROVE Resting(u)
    BY <1>4, <2>2, <2>4, OtherTasksStay DEF Rests
  <2>5. ASSUME NEW u \in Uploads, u = workers[w].upload PROVE Resting(u)
    <3>1. InFlight(u)
      BY <2>3, <2>5 DEF InFlight
    <3>2. CASE Finish(w)
      BY <2>3, <2>5, <3>2, EndsNowhere DEF Finish
    <3>3. CASE ~Finish(w)
      BY <1>4, <3>1, <3>3, OwnStatus DEF Rests
    <3> QED BY <3>2, <3>3
  <2> QED BY <2>2, <2>4, <2>5
<1> QED BY <1>1, <1>2, <1>3, <1>4, UploadSteps

LEMMA FinishedIsWhole ==
  ASSUME Types, HonestRuns, NEW w \in Workers, Finish(w), NEW u \in Uploads,
         u = workers[w].upload
  PROVE  /\ DOMAIN tasks'[u].results = DOMAIN tasks'[u].batch
         /\ \A k \in DOMAIN tasks'[u].batch :
              tasks'[u].results[k] \in {"created", "updated"} => k \in written'[u]
<1>1. workers[w] \in Run /\ Placed(workers[w]) /\ workers[w] # Idle
  BY WorkingRun DEF Finish, Working
<1>2. /\ tasks'[u].results = workers[w].results /\ tasks'[u].batch = tasks[u].batch
      /\ written' = written
  BY DEF Finish, Types, RowTypes, Progress
<1>3. Posted(u) /\ Len(workers[w].results) = Len(tasks[u].batch)
  BY <1>1 DEF Placed, PlacedIn, Posted, Finish
<1>4. DOMAIN workers[w].results = DOMAIN tasks[u].batch
  BY <1>1, <1>3, BatchOf, LenProperties DEF Run
<1>5. Honest(workers[w].results, written[u])
  BY <1>1 DEF HonestRuns
<1> QED BY <1>2, <1>4, <1>5 DEF Honest

LEMMA WholeStep == Whole /\ [UploadNext]_uploadVars => Whole'
<1> SUFFICES ASSUME Whole, [UploadNext]_uploadVars PROVE Whole'
  OBVIOUS
<1>1. CASE UNCHANGED uploadVars
  <2>1. Types'
    BY <1>1, TypesStep DEF Whole
  <2>2. Solo' /\ Rests' /\ HonestRuns' /\ CompletedIsWhole'
    BY <1>1 DEF uploadVars, Whole, Solo, Rests, InFlight, HonestRuns, CompletedIsWhole
  <2> QED BY <2>1, <2>2 DEF Whole
<1>2. CASE UploadNext
  <2>1. Types' /\ Solo' /\ HonestRuns'
    BY <1>2, TypesStep, StepMakes, HonestStep DEF Whole
  <2>2. Rests'
    BY <1>2, StepMakes DEF Rests
  <2>3. ASSUME NEW u \in Uploads, tasks'[u].status = "completed"
        PROVE  /\ DOMAIN tasks'[u].results = DOMAIN tasks'[u].batch
               /\ \A k \in DOMAIN tasks'[u].batch :
                    tasks'[u].results[k] \in {"created", "updated"} => k \in written'[u]
    <3>1. CASE tasks'[u] = tasks[u]
      <4>1. written[u] \subseteq written'[u]
        BY <1>2, WrittenGrows DEF Whole
      <4> QED BY <2>3, <3>1, <4>1 DEF Whole, CompletedIsWhole
    <3>2. CASE \E w \in Workers : Finish(w) /\ u = workers[w].upload
      BY <3>2, FinishedIsWhole DEF Whole
    <3> QED BY <1>2, <2>3, <3>1, <3>2, StepMakes
  <2> QED BY <2>1, <2>2, <2>3 DEF Whole, CompletedIsWhole
<1> QED BY <1>1, <1>2

LEMMA WholeInit == UploadInit => Whole
<1> SUFFICES ASSUME UploadInit PROVE Whole
  OBVIOUS
<1>1. Types
  BY TypesInit
<1> QED BY <1>1 DEF UploadInit, Whole, Solo, Rests, InFlight, HonestRuns, CompletedIsWhole,
     NoProgress

(* An upload the phone is told is complete has a result for every record,  *)
(* and what the result says was created or updated was written, however    *)
(* often the upload was retried, by whatever worker.                       *)
THEOREM CompleteMeansComplete == UploadSpec => []CompletedIsWhole
<1>1. Whole => CompletedIsWhole
  BY DEF Whole
<1> QED BY <1>1, WholeInit, WholeStep, PTL DEF UploadSpec

(***************************************************************************)
(* Type correctness.                                                       *)
(***************************************************************************)
InBatch == \A u \in Uploads : written[u] \subseteq DOMAIN tasks[u].batch

Typed == Types /\ InBatch

LEMMA InBatchStep == ASSUME Typed, UploadNext PROVE InBatch'
<1> Types /\ tasks \in [Uploads -> Progress] /\ written \in [Uploads -> SUBSET Nat]
  BY DEF Typed, Types, RowTypes
<1>1. \A u \in Uploads : ~Posted(u) => written[u] = {}
  BY DEF Typed, InBatch, Posted, Progress
<1>2. ASSUME NEW p \in Uploads, Post(p) PROVE InBatch'
  <2>1. ~Posted(p)
    BY <1>2, UploadAssumption DEF Post, Posted, NoProgress
  <2>2. written' = written /\ \A u \in Uploads \ {p} : tasks'[u] = tasks[u]
    BY <1>2 DEF Post
  <2> QED BY <1>1, <2>1, <2>2 DEF Typed, InBatch
<1>3. ASSUME BatchesStay, written' = written PROVE InBatch'
  BY <1>1, <1>3 DEF Typed, InBatch, BatchesStay
<1>4. ASSUME NEW w \in Workers, Save(w) PROVE InBatch'
  <2>1. /\ workers[w].upload \in Uploads
        /\ written' = [written EXCEPT ![workers[w].upload] = @ \cup {Place(w)}] /\ tasks' = tasks
    BY <1>4, WorkingRun DEF Save, Working
  <2>2. Place(w) \in DOMAIN tasks[workers[w].upload].batch
    BY <1>4, EditOfType DEF Save
  <2> QED BY <2>1, <2>2 DEF Typed, InBatch
<1>5. ASSUME NEW w \in Workers, ~Save(w),
             Take(w) \/ Acquire(w) \/ TimeOut(w) \/ Die(w) \/ InTask(w)
      PROVE  written' = written /\ BatchesStay
  <2>1. CASE InTask(w)
    BY <1>5, <2>1, InTaskAdvances DEF Advances, InTask, Start, RefuseEntity, Load, Skip, Refuse,
       Report, Finish, DatabaseFails, ReportFails
  <2>2. CASE Take(w) \/ Acquire(w) \/ TimeOut(w) \/ Die(w)
    BY <2>2, NothingSaved DEF Take, Acquire, TimeOut, Die
  <2> QED BY <1>5, <2>1, <2>2
<1>6. CASE Outside
  BY <1>3, <1>6, OutsideRows
<1> QED BY <1>2, <1>3, <1>4, <1>5, <1>6, UploadSteps

LEMMA TypedStep == Typed /\ [UploadNext]_uploadVars => Typed'
<1> SUFFICES ASSUME Typed, [UploadNext]_uploadVars PROVE InBatch'
  BY TypesStep DEF Typed
<1>1. CASE UNCHANGED uploadVars
  BY <1>1 DEF uploadVars, Typed, InBatch
<1> QED BY <1>1, InBatchStep

LEMMA TypedInit == UploadInit => Typed
BY TypesInit DEF UploadInit, Typed, InBatch, NoProgress

LEMMA TypedIsTypeOK == Typed => UploadTypeOK
<1> SUFFICES ASSUME Typed PROVE UploadTypeOK
  OBVIOUS
<1>1. Types /\ InBatch
  BY DEF Typed
<1>2. ASSUME NEW w \in Workers PROVE WorkerType(w)
  <2>1. CASE workers[w] # Idle
    <3>1. workers[w] \in Run /\ Placed(workers[w]) /\ Posted(workers[w].upload)
          /\ workers[w].upload \in Uploads
      BY <1>1, <2>1, RunOf DEF Placed, PlacedIn, Posted, Run
    <3>2. Len(workers[w].results) \in Nat /\ Len(tasks[workers[w].upload].batch) \in Nat
      BY <1>1, <3>1, BatchOf, LenProperties DEF Run
    <3>3. Len(workers[w].results) <= Len(tasks[workers[w].upload].batch)
      BY <1>1, <3>1, <3>2, BatchOf, EmptySeq DEF Placed, PlacedIn, Run
    <3> QED BY <3>1, <3>3 DEF WorkerType, Run
  <2> QED BY <2>1 DEF WorkerType
<1>3. \A u \in Uploads : /\ tasks[u].status \in Status /\ tasks[u].results \in Seq(Outcome)
                         /\ tasks[u].batch = <<>> \/ tasks[u].batch \in Batches
  BY <1>1 DEF Types, RowTypes, Progress
<1> QED BY <1>1, <1>2, <1>3 DEF UploadTypeOK, Types, RowTypes, RunTypes, Message, InBatch

(* Everything is well formed, no upload is retried more often than it may  *)
(* be, and no worker reports on more records than the upload has.          *)
THEOREM UploadTypes == UploadSpec => []UploadTypeOK
BY TypedInit, TypedStep, TypedIsTypeOK, PTL DEF UploadSpec

(***************************************************************************)
(* No upload undoes another.                                               *)
(***************************************************************************)
\* What a worker loaded and has not saved yet is still there, or was saved from the web since.
Fresh ==
  \A w \in Workers : workers[w].phase = "save" /\ EditOf(w).record # "new" =>
    LET row == rows[EditOf(w).record]
    IN  row = workers[w].copy \/ row.writer = "web"

Guarded == Upload /\ Fresh

LEMMA SavingIsLoaded ==
  ASSUME Types, UploadNext, NEW w \in Workers, workers'[w].phase = "save"
  PROVE  Load(w) \/ workers'[w] = workers[w]
<1> workers \in [Workers -> Run \cup {Idle}]
  BY DEF Types, RunTypes
<1>1. ASSUME NEW v \in Workers, v # w,
             Take(v) \/ Acquire(v) \/ TimeOut(v) \/ Die(v) \/ InTask(v)
      PROVE  workers'[w] = workers[w]
  <2>1. CASE Take(v) \/ Acquire(v)
    BY <1>1, <2>1 DEF Take, Acquire, Enter
  <2>2. CASE TimeOut(v) \/ Die(v) \/ InTask(v)
    <3>1. Proceeds(v) \/ Quits(v)
      BY <2>2, TimeOutQuits, DieQuits, InTaskAdvances DEF Advances
    <3> QED BY <1>1, <3>1 DEF Proceeds, GoesOn, Quits, LetGo
  <2> QED BY <1>1, <2>1, <2>2
<1>2. ~Take(w) /\ ~Acquire(w)
  <2>1. CASE Take(w)
    BY <2>1 DEF Take
  <2>2. CASE Acquire(w)
    BY <2>2, AcquireGoesOn DEF GoesOn
  <2> QED BY <2>1, <2>2
<1>3. ~(TimeOut(w) \/ Die(w) \/ RefuseEntity(w) \/ Finish(w) \/ DatabaseFails(w) \/ ReportFails(w))
  <2>1. SUFFICES ASSUME TimeOut(w) \/ Die(w) \/ RefuseEntity(w) \/ Finish(w)
                        \/ DatabaseFails(w) \/ ReportFails(w)
                 PROVE  FALSE
    OBVIOUS
  <2>2. LetGo(w)
    BY <2>1, TimeOutQuits, DieQuits, RetryQuits, WorkingRun
       DEF Quits, RefuseEntity, Finish, DatabaseFails, ReportFails, Working, Idle
  <2> QED BY <2>2 DEF LetGo, Idle
<1>4. ~Start(w)
  <2>1. SUFFICES ASSUME Start(w) PROVE FALSE
    OBVIOUS
  <2>2. workers'[w].phase \in {"idle", "load"}
    BY <2>1, RunOf DEF Start, Drop, LetGo, Idle, Run
  <2> QED BY <2>2
<1>5. ~(Skip(w) \/ Refuse(w) \/ Save(w) \/ Report(w))
  <2>1. SUFFICES ASSUME Skip(w) \/ Refuse(w) \/ Save(w) \/ Report(w) PROVE FALSE
    OBVIOUS
  <2>2. workers[w] \in Run
    BY <2>1, WorkingRun DEF Skip, Refuse, Save, Report, Working
  <2>3. workers'[w].phase \in {"report", "load", "finish"}
    BY <2>1, <2>2 DEF Skip, Refuse, Save, Report, Decide, Run
  <2> QED BY <2>3
<1>6. CASE Outside \/ \E u \in Uploads : Post(u)
  BY <1>6, OutsideRows DEF Post
<1> QED BY <1>1, <1>2, <1>3, <1>4, <1>5, <1>6, UploadSteps DEF InTask

\* Rows are written by the worker in an upload, and from the web.
LEMMA RowsWritten ==
  ASSUME Types, UploadNext
  PROVE  \/ rows' = rows
         \/ \E r \in Records : WebSave(r)
         \/ \E w \in Workers : Save(w)
<1>1. ASSUME NEW w \in Workers, ~Save(w),
             Take(w) \/ Acquire(w) \/ TimeOut(w) \/ Die(w) \/ InTask(w)
      PROVE  rows' = rows
  BY <1>1 DEF Take, Acquire, TimeOut, Die, InTask, Start, RefuseEntity, Load, Skip, Refuse,
     Report, Finish, DatabaseFails, ReportFails
<1>2. ASSUME NEW u \in Uploads, Post(u) \/ Commit(u) PROVE rows' = rows
  BY <1>2 DEF Post, Commit
<1> QED BY <1>1, <1>2, UploadSteps DEF Outside, Tick

\* The edit a worker is at does not change under it.
LEMMA EditStays ==
  ASSUME Types, UploadNext, NEW w \in Workers, workers[w].phase \in {"load", "save"}
  PROVE  tasks'[workers[w].upload].batch = tasks[workers[w].upload].batch
<1>1. Posted(workers[w].upload) /\ workers[w].upload \in Uploads
  BY RunOf DEF Idle, Placed, PlacedIn, Posted, Run
<1>2. ASSUME NEW p \in Uploads, Post(p)
      PROVE  tasks'[workers[w].upload].batch = tasks[workers[w].upload].batch
  <2>1. p # workers[w].upload
    BY <1>1, <1>2, UploadAssumption DEF Post, Posted, NoProgress
  <2> QED BY <1>1, <1>2, <2>1 DEF Post, Types, RowTypes
<1>3. CASE Outside
  BY <1>1, <1>3, OutsideRows DEF BatchesStay
<1>4. ASSUME NEW v \in Workers, Take(v) \/ Acquire(v) \/ TimeOut(v) \/ Die(v) PROVE BatchesStay
  BY <1>4, NothingSaved DEF Take, Acquire, TimeOut, Die
<1>5. ASSUME NEW v \in Workers, InTask(v) PROVE BatchesStay
  BY <1>5, InTaskAdvances DEF Advances
<1> QED BY <1>1, <1>2, <1>3, <1>4, <1>5, UploadSteps DEF BatchesStay

LEMMA FreshStep == ASSUME Guarded, UploadNext PROVE Fresh'
<1> Types /\ Upload /\ Fresh /\ rows \in [Records -> Row]
  BY DEF Guarded, Upload, Types, RowTypes
<1> DEFINE edit(w) == tasks[workers[w].upload].batch[Len(workers[w].results) + 1]
<1>1. ASSUME NEW w \in Workers, workers'[w].phase = "save", edit(w)'.record # "new"
      PROVE  \/ rows'[edit(w)'.record] = workers'[w].copy
             \/ rows'[edit(w)'.record].writer = "web"
  <2>1. workers[w].phase \in {"load", "save"} /\ Working(w)
    BY <1>1, SavingIsLoaded DEF Load, Working
  <2>2. workers'[w].upload = workers[w].upload /\ workers'[w].results = workers[w].results
    <3>1. workers[w] \in Run /\ w \in DOMAIN workers
      BY <2>1, WorkingRun DEF Types, RunTypes
    <3>2. CASE Load(w)
      BY <3>1, <3>2 DEF Load, Run
    <3> QED BY <1>1, <3>2, SavingIsLoaded
  <2>3. edit(w)' = edit(w) /\ edit(w) = EditOf(w)
    BY <2>1, <2>2, EditStays DEF EditOf, Place
  <2>4. CASE Load(w)
    <3>1. workers'[w].copy = rows[edit(w).record] /\ rows' = rows
      BY <1>1, <2>1, <2>3, <2>4, WorkingRun DEF Load, Types, RunTypes, Run
    <3> QED BY <2>3, <3>1
  <2>5. CASE workers'[w] = workers[w]
    <3>1. \/ rows[edit(w).record] = workers[w].copy
          \/ rows[edit(w).record].writer = "web"
      BY <1>1, <2>3, <2>5 DEF Fresh
    <3>2. edit(w).record \in Records
      BY <1>1, <2>1, <2>3, EditOfType
    <3>3. CASE rows' = rows
      BY <2>3, <2>5, <3>1, <3>3
    <3>4. ASSUME NEW r \in Records, WebSave(r)
          PROVE  \/ rows'[edit(w).record] = rows[edit(w).record]
                 \/ rows'[edit(w).record].writer = "web"
      BY <3>2, <3>4 DEF WebSave
    <3>5. ASSUME NEW v \in Workers, Save(v) PROVE FALSE
      <4>1. Working(v) /\ v = w
        BY <2>1, <3>5 DEF Save, Working, Upload, LockEndsWithUpload
      <4>2. workers'[w].phase = "report"
        BY <3>5, <4>1, WorkingRun DEF Save, Decide, Types, RunTypes, Run
      <4> QED BY <1>1, <4>2
    <3> QED BY <2>3, <2>5, <3>1, <3>3, <3>4, <3>5, RowsWritten
  <2> QED BY <1>1, <2>4, <2>5, SavingIsLoaded
<1> QED BY <1>1 DEF Fresh, EditOf, Place

LEMMA GuardedStep == Guarded /\ [UploadNext]_uploadVars => Guarded'
<1> SUFFICES ASSUME Guarded, [UploadNext]_uploadVars PROVE Fresh'
  BY UploadStep DEF Guarded
<1>1. CASE UNCHANGED uploadVars
  BY <1>1 DEF uploadVars, Guarded, Fresh, EditOf, Place
<1> QED BY <1>1, FreshStep

LEMMA GuardedInit == UploadInit => Guarded
BY UploadStarts DEF UploadInit, Guarded, Fresh, Idle

LEMMA SaveUndoesNothing ==
  ASSUME Guarded, NEW w \in Workers, Save(w), NEW r \in Records, rows'[r] # rows[r],
         rows[r].writer \in Uploads, rows'[r].writer \in Uploads, rows'[r].own, rows'[r].at # 0
  PROVE  rows'[r].at > rows[r].stamp
<1> DEFINE edit == EditOf(w)
<1>1. Types /\ Fresh /\ rows \in [Records -> Row]
  BY DEF Guarded, Upload, Types, RowTypes
<1>2. /\ edit.record = r /\ rows'[r].at = edit.at
      /\ edit.record # "new"
  <2>1. PICK target \in Targets(w) :
          rows' = [s \in Records |->
                     IF s # target THEN rows[s]
                     ELSE [writer |-> workers[w].upload, stamp |-> clock, at |-> edit.at,
                           own |-> target = edit.record]]
    BY DEF Save
  <2>2. r = target
    BY <1>1, <2>1
  <2>3. rows'[r].at = edit.at /\ (rows'[r].own <=> target = edit.record)
    BY <2>1, <2>2
  <2> QED BY <2>2, <2>3, UploadAssumption
<1>3. rows[r].writer \notin {"none", "web"}
  BY UploadAssumption
<1>4. workers[w].copy = rows[r]
  BY <1>1, <1>2, <1>3 DEF Fresh, Save
<1>5. edit.at # 0 /\ Exists(workers[w].copy) /\ ~Skippable(edit, workers[w].copy)
  BY <1>2, <1>3, <1>4 DEF Save, Exists
<1>6. ~(rows[r].stamp >= edit.at)
  BY <1>4, <1>5 DEF Skippable
<1>7. rows[r].stamp \in Nat /\ edit.at \in Nat
  BY <1>1, EditOfType, UploadAssumption DEF Row, Save
<1> QED BY <1>2, <1>6, <1>7

(* A record with a time never replaces what another upload wrote at that   *)
(* time or later to the record's row, payment methods merged into a row of *)
(* their name excepted: the row a worker loads unlocked cannot have been written *)
(* by another upload when it saves, for the worker has the lock file.      *)
THEOREM UploadsUndoNothing == UploadSpec => NoUploadUndoesAnother
<1> DEFINE KeepsRows == \A r \in Records :
      LET old == rows[r]
          new == rows'[r]
      IN  new # old /\ old.writer \in Uploads /\ new.writer \in Uploads /\ new.own /\ new.at # 0
          => new.at > old.stamp
<1>1. Guarded /\ [UploadNext]_uploadVars => [KeepsRows]_uploadVars
  <2> SUFFICES ASSUME Guarded, UploadNext PROVE KeepsRows
    OBVIOUS
  <2>1. CASE rows' = rows
    BY <2>1
  <2>2. ASSUME NEW r \in Records, WebSave(r) PROVE KeepsRows
    BY <2>2, UploadAssumption DEF WebSave, Guarded, Upload, Types, RowTypes
  <2>3. ASSUME NEW w \in Workers, Save(w) PROVE KeepsRows
    BY <2>3, SaveUndoesNothing
  <2> QED BY <2>1, <2>2, <2>3, RowsWritten DEF Guarded, Upload
<1> QED BY <1>1, GuardedInit, GuardedStep, PTL DEF UploadSpec, NoUploadUndoesAnother

================================================================================
