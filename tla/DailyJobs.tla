------------------------------- MODULE DailyJobs -------------------------------
(***************************************************************************)
(* The daily jobs whose repetition would harm a borrower, the automatic    *)
(* penalties and the overdue reminders, and the processes that run them.   *)
(*                                                                         *)
(* A job asks its process's cache whether it has run today, lists the      *)
(* debts its query finds, treats them one after the other, each in a       *)
(* transaction of its own, and at the end notes in the cache that it has   *)
(* run today.  The cache is the process's own (LocMemCache): it knows      *)
(* nothing of other processes and ends with this one.  A run that raises   *)
(* is queued again, unless it was forced: the force_* tasks call the job   *)
(* as a function.  What happens to a debt's amounts is DebtLedger's        *)
(* business; of a debt only what queries and checks look at is kept.  A    *)
(* charged penalty stays and a due date does not move: after a user has    *)
(* deleted or re-dated the penalty the job would charge the debt again.    *)
(***************************************************************************)
EXTENDS Integers, FiniteSets, Bags

CONSTANTS
  Debts,        \* identifiers of debts
  Workers,      \* processes of the Celery worker
  MaxRetries,   \* max_retries of the jobs
  MaxQueue,     \* bound: messages in the broker before a job is started
  MaxTroubles   \* bound: failed debts, failed runs and lost processes taken together

ASSUME JobsAssumption == MaxRetries \in Nat /\ MaxQueue \in Nat /\ MaxTroubles \in Nat

VARIABLES
  rows,        \* [Debts -> what the jobs look at of a debt]
  ran,         \* [Workers -> the jobs that the process's cache says have run today]
  broker,      \* the bag of messages that start a job
  runs,        \* [Workers -> the run the process is in]
  reminded,    \* history: [Workers -> debts it has reminded of today, since a run failed in it]
  overlapped,  \* history: debts two runs were about to charge at the same time
  troubles     \* failed debts, failed runs and lost processes so far

jobVars == <<rows, ran, broker, runs, reminded, overlapped, troubles>>

Jobs == {"penalties", "reminders"}

(* late is an unsettled debt with its due date in the past; charged counts *)
(* the penalties the penalty job has charged since then, and billed tells  *)
(* whether the overdue transition has charged one.                         *)
Row == [status: {"active", "overdue", "paid"}, late: BOOLEAN, charged: Nat, billed: BOOLEAN]
OnTime == [status |-> "active", late |-> FALSE, charged |-> 0, billed |-> FALSE]
Open(d) == rows[d].status \in {"active", "overdue"}
PenaltySinceDue(d) == rows[d].charged > 0 \/ rows[d].billed

(* A message tells how often its run may still be retried.                 *)
Message == [job: Jobs, retriesLeft: 0..MaxRetries]

(* A run has the debts still to treat, with the status they were listed    *)
(* with; one that is to charge a debt has found no penalty of it.          *)
Idle == [phase |-> "idle"]
Looping(w) == runs[w].phase = "loop"
Charging(w, d) == runs[w].phase = "charge" /\ runs[w].debt = d

Trouble == troubles < MaxTroubles /\ troubles' = troubles + 1
Add(message) == broker' = broker (+) SetToBag({message})

JobsInit ==
  /\ rows = [d \in Debts |-> OnTime]
  /\ ran = [w \in Workers |-> {}]
  /\ broker = EmptyBag
  /\ runs = [w \in Workers |-> Idle]
  /\ reminded = [w \in Workers |-> {}]
  /\ overlapped = {} /\ troubles = 0

(***************************************************************************)
(* Days, borrowers, and who starts the jobs.                               *)
(***************************************************************************)
\* Wrong variant: a job's last run counts as today's on whatever day it was.
NewDayUndated ==
  /\ \E late \in SUBSET {d \in Debts : Open(d)} :
       rows' = [d \in Debts |-> [rows[d] EXCEPT !.late = @ \/ d \in late]]
  /\ reminded' = [w \in Workers |-> {}]
  /\ UNCHANGED <<ran, broker, runs, overlapped, troubles>>

\* Some debts become late, and the dates in the caches are no longer today's.
NewDay ==
  /\ \E late \in SUBSET {d \in Debts : Open(d)} :
       rows' = [d \in Debts |-> [rows[d] EXCEPT !.late = @ \/ d \in late]]
  /\ ran' = [w \in Workers |-> {}]
  /\ reminded' = [w \in Workers |-> {}]
  /\ UNCHANGED <<broker, runs, overlapped, troubles>>

Pay(d) ==
  /\ Open(d)
  /\ rows' = [rows EXCEPT ![d].status = "paid"]
  /\ UNCHANGED <<ran, broker, runs, reminded, overlapped, troubles>>

\* By beat or a command, or by an endpoint, whose tasks are the forced ones.
Start(j, forced) ==
  /\ BagCardinality(broker) < MaxQueue
  /\ Add([job |-> j, retriesLeft |-> IF forced THEN 0 ELSE MaxRetries])
  /\ UNCHANGED <<rows, ran, runs, reminded, overlapped, troubles>>

(***************************************************************************)
(* A run.                                                                  *)
(***************************************************************************)
\* The two queries are the same but for the days of grace and the borrower's address.
Selects(d) == rows[d].late /\ Open(d)

\* A debt gets a reminder on some of the days it is late, which is here any choice of days.
Treatable(j) ==
  LET selected == {d \in Debts : Selects(d)}
  IN  IF j = "penalties" THEN {selected} ELSE SUBSET selected

\* A job that has run in this process is not run again, forced or not.
Take(w) ==
  /\ runs[w].phase = "idle"
  /\ \E message \in BagToSet(broker) :
       /\ broker' = broker (-) SetToBag({message})
       /\ IF message.job \in ran[w] THEN UNCHANGED runs
          ELSE \E selected \in Treatable(message.job) :
                runs' = [runs EXCEPT ![w] =
                          [phase |-> "loop", message |-> message,
                           todo |-> [d \in selected |-> rows[d].status]]]
  /\ UNCHANGED <<rows, ran, reminded, overlapped, troubles>>

Treats(w, j, d) == Looping(w) /\ runs[w].message.job = j /\ d \in DOMAIN runs[w].todo
Without(todo, d) == [e \in DOMAIN todo \ {d} |-> todo[e]]
Treated(w, d) == runs' = [runs EXCEPT ![w].todo = Without(@, d)]

\* The save of the status runs on_overdue, which may charge a penalty unless one is there;
\* a debt that was paid meanwhile is paid again by the receivers of that save.
Marked(row, bills) ==
  CASE row.status = "active" -> [row EXCEPT !.status = "overdue", !.billed = @ \/ bills]
    [] row.status # "active" -> row

\* The e-mail is queued before a debt listed as active is marked overdue, and not taken back
\* if that fails.
Remind(w, d) ==
  /\ Treats(w, "reminders", d)
  /\ Treated(w, d)
  /\ reminded' = [reminded EXCEPT ![w] = @ \cup {d}]
  /\ IF runs[w].todo[d] = "overdue" THEN UNCHANGED <<rows, troubles>>
     ELSE \/ /\ \E bills \in BOOLEAN : rows' = [rows EXCEPT ![d] = Marked(@, bills)]
             /\ UNCHANGED troubles
          \/ Trouble /\ UNCHANGED rows
  /\ UNCHANGED <<ran, broker, overlapped>>

\* An error is counted and the debt left alone.
RemindFails(w, d) ==
  /\ Treats(w, "reminders", d)
  /\ Treated(w, d)
  /\ Trouble
  /\ UNCHANGED <<rows, ran, broker, reminded, overlapped>>

GoesToCharge(w, d) ==
  /\ runs' = [runs EXCEPT ![w] = [phase |-> "charge", message |-> runs[w].message,
                                  todo |-> Without(runs[w].todo, d), debt |-> d]]
  /\ overlapped' = IF \E v \in Workers : Charging(v, d) THEN overlapped \cup {d} ELSE overlapped

\* Wrong variant: the cache alone keeps debts from being charged again.
CheckCacheOnly(w, d) ==
  /\ Treats(w, "penalties", d)
  /\ GoesToCharge(w, d)
  /\ UNCHANGED <<rows, ran, broker, reminded, troubles>>

CheckPenalty(w, d) ==
  /\ Treats(w, "penalties", d)
  /\ IF PenaltySinceDue(d)
     THEN Treated(w, d) /\ UNCHANGED overlapped
     ELSE GoesToCharge(w, d)
  /\ UNCHANGED <<rows, ran, broker, reminded, troubles>>

\* The penalty is created whatever has become of the debt; an error is counted.
Charge(w) ==
  /\ runs[w].phase = "charge"
  /\ runs' = [runs EXCEPT ![w] =
               [phase |-> "loop", message |-> runs[w].message, todo |-> runs[w].todo]]
  /\ \/ rows' = [rows EXCEPT ![runs[w].debt].charged = @ + 1] /\ UNCHANGED troubles
     \/ Trouble /\ UNCHANGED rows
  /\ UNCHANGED <<ran, broker, reminded, overlapped>>

\* Wrong variant: only a run's first attempt notes that it ran.
FinishFirstAttempt(w) ==
  /\ Looping(w) /\ DOMAIN runs[w].todo = {}
  /\ ran' = [ran EXCEPT ![w] = IF runs[w].message.retriesLeft < MaxRetries THEN @
                               ELSE @ \cup {runs[w].message.job}]
  /\ runs' = [runs EXCEPT ![w] = Idle]
  /\ UNCHANGED <<rows, broker, reminded, overlapped, troubles>>

\* The note is made whether debts have failed or not, with the date of the run's end.
Finish(w) ==
  /\ Looping(w) /\ DOMAIN runs[w].todo = {}
  /\ ran' = [ran EXCEPT ![w] = @ \cup {runs[w].message.job}]
  /\ runs' = [runs EXCEPT ![w] = Idle]
  /\ UNCHANGED <<rows, broker, reminded, overlapped, troubles>>

\* Wrong variant: the retries that are left are not looked at.
RaiseAgain(w) ==
  /\ Looping(w) /\ Trouble
  /\ Add([runs[w].message EXCEPT !.retriesLeft = @ - 1])
  /\ runs' = [runs EXCEPT ![w] = Idle]
  /\ reminded' = [reminded EXCEPT ![w] = {}]
  /\ UNCHANGED <<rows, ran, overlapped>>

\* Something outside the treatment of a debt raises: reading the settings, the query, the
\* look for a penalty, the audit of the whole run.
Raise(w) ==
  /\ Looping(w) /\ Trouble
  /\ IF runs[w].message.retriesLeft = 0 THEN UNCHANGED broker
     ELSE Add([runs[w].message EXCEPT !.retriesLeft = @ - 1])
  /\ runs' = [runs EXCEPT ![w] = Idle]
  /\ reminded' = [reminded EXCEPT ![w] = {}]
  /\ UNCHANGED <<rows, ran, overlapped>>

\* A process is lost and replaced: its run, taken off the broker, and its cache go with it.
Die(w) ==
  /\ runs[w] # Idle \/ ran[w] # {}
  /\ Trouble
  /\ runs' = [runs EXCEPT ![w] = Idle]
  /\ ran' = [ran EXCEPT ![w] = {}]
  /\ reminded' = [reminded EXCEPT ![w] = {}]
  /\ UNCHANGED <<rows, broker, overlapped>>

(***************************************************************************)
(* The specification.                                                      *)
(***************************************************************************)
Work(w) ==
  \/ Take(w) \/ Charge(w) \/ Finish(w)
  \/ \E d \in Debts : Remind(w, d) \/ RemindFails(w, d) \/ CheckPenalty(w, d)

JobsNext ==
  \/ NewDay
  \/ \E d \in Debts : Pay(d)
  \/ \E j \in Jobs, forced \in BOOLEAN : Start(j, forced)
  \/ \E w \in Workers : Work(w) \/ Raise(w) \/ Die(w)

JobsSpec == JobsInit /\ [][JobsNext]_jobVars

\* Days pass, and processes work on what they have and on what is queued.
FairJobs == JobsSpec /\ WF_jobVars(NewDay) /\ \A w \in Workers : WF_jobVars(Work(w))

(***************************************************************************)
(* Properties.                                                             *)
(***************************************************************************)
RunType(w) ==
  \/ runs[w] = Idle
  \/ /\ runs[w].phase \in {"loop", "charge"}
     /\ runs[w].message \in Message
     /\ DOMAIN runs[w].todo \subseteq Debts

(* Rows, messages and runs are well formed, and no run is retried more     *)
(* often than it may be.                                                   *)
JobsTypeOK ==
  /\ rows \in [Debts -> Row]
  /\ ran \in [Workers -> SUBSET Jobs]
  /\ IsABag(broker) /\ BagToSet(broker) \subseteq Message
  /\ \A w \in Workers : RunType(w)
  /\ reminded \in [Workers -> SUBSET Debts]
  /\ overlapped \subseteq Debts /\ troubles \in 0..MaxTroubles

(* However often the penalty job is retried, forced, lost or run by        *)
(* another process whose cache knows nothing of the first run, it charges  *)
(* a debt once.  Only two runs that both look for a penalty before either  *)
(* has charged one can do so twice.                                        *)
PenalisedOnce == \A d \in Debts : rows[d].charged > 1 => d \in overlapped

(* Nothing in the database tells that a reminder was sent, so nothing but  *)
(* its cache keeps a process from sending another the same day.  It does   *)
(* not, however often the job is scheduled, forced or retried, unless a    *)
(* run failed in it.  (The task that reminds of one debt looks at no       *)
(* cache, and nothing calls it.)                                           *)
RemindedOnceByProcess ==
  [][\A w \in Workers, d \in Debts :
       Remind(w, d) /\ d \in reminded'[w] => d \notin reminded[w]]_jobVars

(* A late debt is charged or settled in the end, if somebody starts the    *)
(* penalty job again and again: no debt that failed, run that failed, was  *)
(* lost or skipped, or lasted past midnight makes the job leave out a debt *)
(* for good.                                                               *)
Uncharged(d) == rows[d].late /\ Open(d) /\ ~PenaltySinceDue(d)

IsStarted(j) == SF_jobVars(\E forced \in BOOLEAN : Start(j, forced))

PenaltiesCatchUp ==
  IsStarted("penalties") => \A d \in Debts : Uncharged(d) ~> ~Uncharged(d)
================================================================================
