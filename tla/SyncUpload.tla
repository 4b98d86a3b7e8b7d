------------------------------ MODULE SyncUpload ------------------------------
(***************************************************************************)
(* Uploads of offline edits.  A phone posts a batch of records; the        *)
(* request inserts a TaskProgress row the phone can poll and queues a      *)
(* background task, at once, before it commits.  A worker takes the task,  *)
(* waits for a lock file that only one upload may hold, applies the        *)
(* records chunk by chunk (a transaction each) and reports its progress.   *)
(* Whatever fails is retried from the first record; a task is acknowledged *)
(* when taken, so a worker that dies takes its upload along.               *)
(*                                                                         *)
(* A chunk is one record here: a record's own writes are a savepoint of    *)
(* the chunk's transaction, and chunks are where others see them.          *)
(***************************************************************************)
EXTENDS Naturals, Sequences, FiniteSets

CONSTANTS
  Records,      \* identifiers the phones' records may have
  Uploads,      \* identifiers of uploads
  Workers,      \* worker processes
  Times,        \* times a record may have been edited on the phone
  Batches,      \* what phones post: sequences of edits
  ByName,       \* whether the records are payment methods, which are merged by name
  MaxClock,     \* bound: the clock
  MaxRetries,   \* max_retries of sync_entity_task
  MaxTroubles   \* bound: errors and worker deaths taken together

ASSUME UploadAssumption ==
  /\ Times \subseteq Nat \ {0} /\ MaxClock \in Nat \ {0}
  /\ Batches \subseteq Seq([record: Records \cup {"new"}, at: {0} \cup Times]) \ {<<>>}
  /\ MaxRetries \in Nat /\ MaxTroubles \in Nat
  /\ ByName \in BOOLEAN
  /\ "new" \notin Records /\ "free" \notin Workers /\ {"none", "web"} \cap Uploads = {}

VARIABLES
  clock,      \* the server's clock
  rows,       \* [Records -> the server's row]
  tasks,      \* [Uploads -> the TaskProgress row, and what was posted]
  broker,     \* the tasks queued
  workers,    \* [Workers -> what the process is doing]
  lock,       \* the worker that holds the lock file, or "free"
  written,    \* history: [Uploads -> places in the batch that have been written to rows]
  lost,       \* history: the uploads a worker gave up or took along, see Unfinished
  troubles    \* errors and deaths so far

uploadVars == <<clock, rows, tasks, broker, workers, lock, written, lost, troubles>>

(* A posted record has an identifier or is new, and a time or none (0).    *)
(* A server row: who wrote it last, when (updated_at, set by every save),  *)
(* the time the edit had, and whether it was the row's own record or one   *)
(* merged into it by name.  What a save does to other rows by its receivers *)
(* is not here.                                                            *)
Row == [writer: {"none", "web"} \cup Uploads, stamp: 0 .. MaxClock, at: {0} \cup Times,
        own: BOOLEAN]
NoRow == [writer |-> "none", stamp |-> 0, at |-> 0, own |-> TRUE]
Exists(row) == row.writer # "none"

Outcome == {"created", "updated", "skipped", "error"}
Status == {"none", "draft", "gone", "queued", "running", "completed", "failed"}
Progress == [status: Status, batch: {<<>>} \cup Batches, known: BOOLEAN, results: Seq(Outcome)]
NoProgress == [status |-> "none", batch |-> <<>>, known |-> TRUE, results |-> <<>>]
Found(u) == tasks[u].status \notin {"none", "draft", "gone"}

(* A worker is idle, waits for the lock, or is in the upload: about to     *)
(* report it running (start), to load or to save a record, to report a     *)
(* chunk, or to report the end.                                            *)
Idle == [phase |-> "idle"]
Working(w) == workers[w].phase \in {"start", "load", "save", "report", "finish"}
InFlight(u) == \/ \E m \in broker : m.upload = u
               \/ \E w \in Workers : workers[w] # Idle /\ workers[w].upload = u

UploadInit ==
  /\ clock = 1
  /\ rows = [r \in Records |-> NoRow]
  /\ tasks = [u \in Uploads |-> NoProgress]
  /\ broker = {}
  /\ workers = [w \in Workers |-> Idle]
  /\ lock = "free"
  /\ written = [u \in Uploads |-> {}]
  /\ lost = {}
  /\ troubles = 0

(***************************************************************************)
(* The phone's request, and the other users of the rows.                   *)
(***************************************************************************)
Post(u) ==
  /\ tasks[u] = NoProgress
  /\ \E batch \in Batches, known \in BOOLEAN :
       tasks' = [tasks EXCEPT ![u] = [NoProgress EXCEPT !.status = "draft", !.batch = batch,
                                                       !.known = known]]
  /\ broker' = broker \cup {[upload |-> u, retries |-> 0]}
  /\ UNCHANGED <<clock, rows, workers, lock, written, lost, troubles>>

\* The request commits, or dies before it does.
Commit(u) ==
  /\ tasks[u].status = "draft"
  /\ \E status \in {"queued", "gone"} : tasks' = [tasks EXCEPT ![u].status = status]
  /\ UNCHANGED <<clock, rows, broker, workers, lock, written, lost, troubles>>

WebSave(r) ==
  /\ rows' = [rows EXCEPT ![r] = [writer |-> "web", stamp |-> clock, at |-> 0, own |-> TRUE]]
  /\ UNCHANGED <<clock, tasks, broker, workers, lock, written, lost, troubles>>

Tick ==
  /\ clock < MaxClock
  /\ clock' = clock + 1
  /\ UNCHANGED <<rows, tasks, broker, workers, lock, written, lost, troubles>>

(***************************************************************************)
(* A worker's steps.                                                       *)
(***************************************************************************)
Take(w) ==
  /\ workers[w] = Idle
  /\ \E m \in broker :
       /\ broker' = broker \ {m}
       /\ workers' = [workers EXCEPT ![w] = [phase |-> "wait", upload |-> m.upload,
                        retries |-> m.retries, results |-> <<>>, copy |-> NoRow]]
  /\ UNCHANGED <<clock, rows, tasks, lock, written, lost, troubles>>

Enter(w) == workers' = [workers EXCEPT ![w].phase = "start"]

\* Wrong variant: the lock is shared (LOCK_SH).
AcquireShared(w) ==
  /\ workers[w].phase = "wait"
  /\ lock' = w
  /\ Enter(w)
  /\ UNCHANGED <<clock, rows, tasks, broker, written, lost, troubles>>

Acquire(w) ==
  /\ workers[w].phase = "wait" /\ lock = "free"
  /\ lock' = w
  /\ Enter(w)
  /\ UNCHANGED <<clock, rows, tasks, broker, written, lost, troubles>>

\* Wrong variant: the lock is kept.
LetGoHolding(w) == workers' = [workers EXCEPT ![w] = Idle] /\ UNCHANGED lock

(* The worker lets go of the upload, and of the lock if it has it.         *)
LetGo(w) ==
  /\ workers' = [workers EXCEPT ![w] = Idle]
  /\ lock' = IF lock = w THEN "free" ELSE lock

(* It takes the upload along, or queues it again if it may.                *)
Drop(w) == LetGo(w) /\ lost' = lost \cup {workers[w].upload} /\ UNCHANGED broker

\* Wrong variant: nothing counts the retries.
RetryForever(w) ==
  /\ LetGo(w)
  /\ broker' = broker \cup {[upload |-> workers[w].upload, retries |-> workers[w].retries + 1]}
  /\ UNCHANGED lost

Retry(w) ==
  IF workers[w].retries < MaxRetries
  THEN /\ LetGo(w)
       /\ broker' = broker \cup {[upload |-> workers[w].upload, retries |-> workers[w].retries + 1]}
       /\ UNCHANGED lost
  ELSE Drop(w)

\* Wrong variant: the time-out is only logged.
TimeOutQuietly(w) ==
  /\ workers[w].phase = "wait" /\ lock # "free"
  /\ LetGo(w)
  /\ UNCHANGED <<clock, rows, tasks, broker, written, lost, troubles>>

\* Another upload has held the lock for a minute.
TimeOut(w) ==
  /\ workers[w].phase = "wait" /\ lock # "free"
  /\ Retry(w)
  /\ UNCHANGED <<clock, rows, tasks, written, troubles>>

\* There may be no progress row yet, or ever; then the failure cannot be reported either,
\* and the task ends.
Start(w) ==
  LET u == workers[w].upload
  IN  /\ workers[w].phase = "start"
      /\ \/ /\ Found(u)
            /\ tasks' = [tasks EXCEPT ![u].status = "running"]
            /\ workers' = [workers EXCEPT ![w].phase = "load"]
            /\ UNCHANGED <<broker, lock, lost>>
         \/ /\ ~Found(u)
            /\ Drop(w)
            /\ UNCHANGED tasks
      /\ UNCHANGED <<clock, rows, written, troubles>>

\* An entity the server does not know is a permanent error.
RefuseEntity(w) ==
  /\ workers[w].phase = "load" /\ ~tasks[workers[w].upload].known
  /\ tasks' = [tasks EXCEPT ![workers[w].upload].status = "failed"]
  /\ LetGo(w)
  /\ UNCHANGED <<clock, rows, broker, written, lost, troubles>>

Place(w) == Len(workers[w].results) + 1
EditOf(w) == tasks[workers[w].upload].batch[Place(w)]

\* The row is read without a lock.
Load(w) ==
  /\ workers[w].phase = "load" /\ tasks[workers[w].upload].known
  /\ workers' = [workers EXCEPT ![w].phase = "save",
                   ![w].copy = IF EditOf(w).record = "new" THEN NoRow ELSE rows[EditOf(w).record]]
  /\ UNCHANGED <<clock, rows, tasks, broker, lock, written, lost, troubles>>

Decide(w, outcome) ==
  workers' = [workers EXCEPT ![w].phase = "report", ![w].copy = NoRow,
                ![w].results = Append(@, outcome)]

Skippable(edit, copy) == edit.at # 0 /\ Exists(copy) /\ copy.stamp >= edit.at

Skip(w) ==
  /\ workers[w].phase = "save" /\ Skippable(EditOf(w), workers[w].copy)
  /\ Decide(w, "skipped")
  /\ UNCHANGED <<clock, rows, tasks, broker, lock, written, lost, troubles>>

\* Where a record is written: to its own row, or, when that row was found and another has
\* the name the record gives, to the other one, whose time nobody has looked at.
Targets(w) ==
  {EditOf(w).record}
    \cup {r \in Records : ByName /\ Exists(workers[w].copy) /\ Exists(rows[r])}

Save(w) ==
  LET u == workers[w].upload
      edit == EditOf(w)
  IN  /\ workers[w].phase = "save" /\ ~Skippable(edit, workers[w].copy)
      /\ \E r \in Targets(w) :
           rows' = [s \in Records |->
                      IF s # r THEN rows[s]
                      ELSE [writer |-> u, stamp |-> clock, at |-> edit.at, own |-> r = edit.record]]
      /\ written' = [written EXCEPT ![u] = @ \cup {Place(w)}]
      /\ Decide(w, IF Exists(workers[w].copy) THEN "updated" ELSE "created")
      /\ UNCHANGED <<clock, tasks, broker, lock, lost, troubles>>

\* Wrong variant: what a record raises is caught, and the record counted.
RefuseCounted(w) ==
  /\ workers[w].phase = "save"
  /\ Decide(w, "updated")
  /\ UNCHANGED <<clock, rows, tasks, broker, lock, written, lost, troubles>>

\* A missing field, a validation, a database error: whatever a record raises is reported
\* and the next one is taken.
Refuse(w) ==
  /\ workers[w].phase = "save"
  /\ Decide(w, "error")
  /\ UNCHANGED <<clock, rows, tasks, broker, lock, written, lost, troubles>>

Report(w) ==
  LET u == workers[w].upload
  IN  /\ workers[w].phase = "report"
      /\ tasks' = [tasks EXCEPT ![u].results = workers[w].results]
      /\ workers' = [workers EXCEPT ![w].phase =
                       IF Len(workers[w].results) < Len(tasks[u].batch) THEN "load" ELSE "finish"]
      /\ UNCHANGED <<clock, rows, broker, lock, written, lost, troubles>>

Finish(w) ==
  LET u == workers[w].upload
  IN  /\ workers[w].phase = "finish"
      /\ tasks' = [tasks EXCEPT ![u].status = "completed", ![u].results = workers[w].results]
      /\ LetGo(w)
      /\ UNCHANGED <<clock, rows, broker, written, lost, troubles>>

(***************************************************************************)
(* Troubles.  A chunk that was not committed leaves nothing behind.        *)
(***************************************************************************)
Trouble == troubles < MaxTroubles /\ troubles' = troubles + 1

\* The database fails: the task is retried and its progress left as it is.
DatabaseFails(w) ==
  /\ Working(w) /\ Trouble
  /\ Retry(w)
  /\ UNCHANGED <<clock, rows, tasks, written>>

\* Something else fails after a chunk, the result backend say: the upload is marked failed,
\* and retried all the same.
ReportFails(w) ==
  /\ workers[w].phase \in {"load", "finish"} /\ Len(workers[w].results) > 0 /\ Trouble
  /\ tasks' = [tasks EXCEPT ![workers[w].upload].status = "failed"]
  /\ Retry(w)
  /\ UNCHANGED <<clock, rows, written>>

\* The file lock ends with the process.
Die(w) ==
  /\ workers[w] # Idle /\ Trouble
  /\ Drop(w)
  /\ UNCHANGED <<clock, rows, tasks, written>>

(***************************************************************************)
(* The specification.                                                      *)
(***************************************************************************)
UploadNext ==
  \/ Tick
  \/ \E u \in Uploads : Post(u) \/ Commit(u)
  \/ \E r \in Records : WebSave(r)
  \/ \E w \in Workers :
       \/ Take(w) \/ Acquire(w) \/ TimeOut(w) \/ Start(w) \/ RefuseEntity(w)
       \/ Load(w) \/ Skip(w) \/ Save(w) \/ Refuse(w) \/ Report(w) \/ Finish(w)
       \/ DatabaseFails(w) \/ ReportFails(w) \/ Die(w)

UploadSpec == UploadInit /\ [][UploadNext]_uploadVars

(***************************************************************************)
(* Properties.                                                             *)
(***************************************************************************)
WorkerType(w) ==
  \/ workers[w] = Idle
  \/ /\ workers[w].phase \in {"wait", "start", "load", "save", "report", "finish"}
     /\ workers[w].upload \in Uploads
     /\ workers[w].retries \in 0 .. MaxRetries
     /\ workers[w].copy \in Row
     /\ workers[w].results \in Seq(Outcome)
     /\ Len(workers[w].results) <= Len(tasks[workers[w].upload].batch)

(* Everything is well formed, no upload is retried more often than it may  *)
(* be, and no worker reports on more records than the upload has.          *)
UploadTypeOK ==
  /\ clock \in 0 .. MaxClock
  /\ rows \in [Records -> Row]
  /\ \A u \in Uploads : /\ tasks[u].status \in Status /\ tasks[u].results \in Seq(Outcome)
                        /\ tasks[u].batch = <<>> \/ tasks[u].batch \in Batches
                        /\ written[u] \subseteq DOMAIN tasks[u].batch
  /\ \A m \in broker : m.upload \in Uploads /\ m.retries \in 0 .. MaxRetries
  /\ \A w \in Workers : WorkerType(w)
  /\ lock \in Workers \cup {"free"}

(* However often an upload is retried, a phone that is told it is complete *)
(* gets a result for every record, and what the result says was created or *)
(* updated was.                                                            *)
CompletedIsWhole ==
  \A u \in Uploads : tasks[u].status = "completed" =>
    /\ DOMAIN tasks[u].results = DOMAIN tasks[u].batch
    /\ \A k \in DOMAIN tasks[u].batch :
         tasks[u].results[k] \in {"created", "updated"} => k \in written[u]

(* No upload undoes another: a record with a time never replaces what      *)
(* another upload wrote to its row at that time or later.  The exception   *)
(* is a payment method merged into the row that has its name: the time     *)
(* compared was its own row's.                                             *)
NoUploadUndoesAnother ==
  [][\A r \in Records :
       LET old == rows[r]
           new == rows'[r]
       IN  new # old /\ old.writer \in Uploads /\ new.writer \in Uploads /\ new.own /\ new.at # 0
           => new.at > old.stamp]_uploadVars

(* An upload the phone sees as queued or running is being worked on, will  *)
(* be, or is one a worker gave up or took along when it died.              *)
Unfinished(u) == tasks[u].status \in {"queued", "running"}
NoneDropped == \A u \in Uploads : Unfinished(u) => InFlight(u) \/ u \in lost

(* However an upload ends for a worker, the lock ends with it, and only one *)
(* worker at a time is in an upload.                                       *)
LockEndsWithUpload == \A w \in Workers : (lock = w) = Working(w)
===============================================================================
