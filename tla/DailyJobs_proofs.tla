---------------------------- MODULE DailyJobs_proofs ----------------------------
(***************************************************************************)
(* However the penalty job is retried, forced, lost and repeated by other  *)
(* processes, it charges a debt once unless two runs race for it, which    *)
(* assumes nothing of caches and broker.  A process does not remind of a   *)
(* debt twice a day unless a run fails in it, which rests on its cache.    *)
(***************************************************************************)
EXTENDS DailyJobs, TLAPS

(***************************************************************************)
(* The broker is a bag of messages.                                        *)
(***************************************************************************)
\* A message put on a broker is there, and nothing else is new.
LEMMA PutIn ==
  ASSUME NEW B, IsABag(B), NEW S
  PROVE  IsABag(B (+) SetToBag(S)) /\ BagToSet(B (+) SetToBag(S)) = BagToSet(B) \cup S
<1> DEFINE C == B (+) SetToBag(S)
<1>1. C = [e \in DOMAIN B \cup S |-> (IF e \in DOMAIN B THEN B[e] ELSE 0) + (IF e \in S THEN 1 ELSE 0)]
  BY DEF (+), SetToBag
<1>2. \A e \in DOMAIN B : B[e] \in Nat /\ B[e] > 0
  BY DEF IsABag
<1>3. DOMAIN C = DOMAIN B \cup S
  BY <1>1
<1>4. \A e \in DOMAIN C : C[e] \in {n \in Nat : n > 0}
  BY <1>1, <1>2
<1> QED BY <1>1, <1>3, <1>4 DEF IsABag, BagToSet

\* Taking a message off a broker leaves all others.
LEMMA TakeOut ==
  ASSUME NEW B, IsABag(B), NEW task
  PROVE  /\ IsABag(B (-) SetToBag({task}))
         /\ BagToSet(B (-) SetToBag({task})) \subseteq BagToSet(B)
         /\ BagToSet(B) \ {task} \subseteq BagToSet(B (-) SetToBag({task}))
<1> DEFINE L == [e \in DOMAIN B |-> IF e = task THEN B[e] - 1 ELSE B[e]]
           C == B (-) SetToBag({task})
<1>1. C = [e \in {d \in DOMAIN L : L[d] > 0} |-> L[e]]
  BY DEF (-), SetToBag
<1>2. \A e \in DOMAIN B : B[e] \in Nat /\ B[e] > 0
  BY DEF IsABag
<1>3. DOMAIN C = {e \in DOMAIN B : L[e] > 0}
  BY <1>1
<1>4. \A e \in DOMAIN B : L[e] \in Int
  BY <1>2
<1>5. \A e \in DOMAIN C : C[e] = L[e] /\ L[e] > 0 /\ e \in DOMAIN B
  BY <1>1, <1>3
<1>6. \A e \in DOMAIN C : C[e] \in {n \in Nat : n > 0}
  <2> HIDE DEF L, C
  <2> QED BY <1>4, <1>5
<1> QED BY <1>1, <1>2, <1>3, <1>6 DEF IsABag, BagToSet

\* An empty broker.
LEMMA Nothing == IsABag(EmptyBag) /\ BagToSet(EmptyBag) = {}
BY DEF IsABag, BagToSet, EmptyBag, SetToBag

(***************************************************************************)
(* The inductive invariant.  A run that is about to charge a debt has      *)
(* found no penalty of it, and until it charges there is still none,       *)
(* because any other run that found none as well has raced with it.        *)
(***************************************************************************)
RowsType == rows \in [Debts -> Row]

IsLoop(run) == run = [phase |-> "loop", message |-> run.message, todo |-> run.todo]

RunsType ==
  /\ DOMAIN runs = Workers
  /\ runs = [w \in Workers |-> runs[w]]
  /\ \A w \in Workers :
       \/ runs[w] = Idle
       \/ IsLoop(runs[w])
       \/ runs[w].phase = "charge" /\ runs[w].debt \in Debts

\* A run that is about to charge a debt nobody races for is the first to do so.
ChargesFirst ==
  \A w \in Workers, d \in Debts :
    Charging(w, d) /\ d \notin overlapped =>
      /\ rows[d].charged = 0
      /\ \A v \in Workers : Charging(v, d) => v = w

PenaltyInv == RowsType /\ RunsType /\ PenalisedOnce /\ ChargesFirst

\* What a step that charges nobody and is about to charge nobody does to rows and runs.
Quiet ==
  /\ RowsType' /\ RunsType'
  /\ overlapped' = overlapped
  /\ \A d \in Debts : rows'[d].charged = rows[d].charged
  /\ \A v \in Workers, d \in Debts : Charging(v, d)' => Charging(v, d)

LEMMA QuietKeeps == PenaltyInv /\ Quiet => PenaltyInv'
  BY DEF PenaltyInv, Quiet, PenalisedOnce, ChargesFirst

(***************************************************************************)
(* Replacing one process's run.                                            *)
(***************************************************************************)
\* A run that is replaced by none, or by one that treats debts, charges nobody.
LEMMA QuietRun ==
  ASSUME RunsType, NEW w \in Workers, NEW run,
         run = Idle \/ IsLoop(run),
         runs' = [runs EXCEPT ![w] = run]
  PROVE  /\ RunsType'
         /\ \A v \in Workers, d \in Debts : Charging(v, d)' => Charging(v, d)
<1>1. /\ DOMAIN runs' = Workers
      /\ runs' = [v \in Workers |-> runs'[v]]
      /\ runs'[w] = run
      /\ \A v \in Workers \ {w} : runs'[v] = runs[v]
  BY DEF RunsType
<1>2. run.phase # "charge"
  BY DEF Idle, IsLoop
<1>3. RunsType'
  BY <1>1 DEF RunsType
<1>4. ASSUME NEW v \in Workers, NEW d \in Debts, Charging(v, d)'
      PROVE  Charging(v, d)
  BY <1>1, <1>2, <1>4 DEF Charging
<1> QED BY <1>3, <1>4

\* One debt less to treat.
LEMMA TreatedRun ==
  ASSUME RunsType, NEW w \in Workers, Looping(w), NEW d, Treated(w, d)
  PROVE  /\ RunsType'
         /\ \A v \in Workers, e \in Debts : Charging(v, e)' => Charging(v, e)
<1> DEFINE run == [phase |-> "loop", message |-> runs[w].message, todo |-> Without(runs[w].todo, d)]
<1>1. IsLoop(runs[w])
  BY DEF RunsType, Looping, Idle
<1>2. [runs[w] EXCEPT !.todo = Without(@, d)] = run
  BY <1>1 DEF IsLoop
<1>3. runs' = [runs EXCEPT ![w] = run]
  BY <1>2 DEF Treated, RunsType
<1>4. IsLoop(run)
  BY DEF IsLoop
<1> QED BY <1>3, <1>4, QuietRun

(***************************************************************************)
(* The steps.                                                              *)
(***************************************************************************)
\* Becoming late, being settled and being marked overdue charge nothing that the job counts.
LEMMA QuietRows ==
  ASSUME PenaltyInv, rows' \in [Debts -> Row],
         \A d \in Debts : rows'[d].charged = rows[d].charged,
         overlapped' = overlapped, RunsType',
         \A v \in Workers, d \in Debts : Charging(v, d)' => Charging(v, d)
  PROVE  PenaltyInv'
BY QuietKeeps DEF Quiet, RowsType

\* One of the alternatives of a step changes neither a row nor what is known to race.
LEMMA SameRows ==
  ASSUME PenaltyInv, UNCHANGED <<rows, overlapped>>, RunsType',
         \A v \in Workers, d \in Debts : Charging(v, d)' => Charging(v, d)
  PROVE  PenaltyInv'
BY QuietKeeps DEF Quiet, RowsType, PenaltyInv

\* The save that marks a debt overdue keeps the row well formed and adds nothing to charged.
LEMMA MarkedRow ==
  ASSUME NEW row \in Row, NEW bills \in BOOLEAN
  PROVE  Marked(row, bills) \in Row /\ Marked(row, bills).charged = row.charged
<1>1. CASE row.status = "active"
  BY <1>1 DEF Marked, Row
<1>2. CASE row.status # "active"
  BY <1>2 DEF Marked
<1> QED BY <1>1, <1>2

LEMMA NewDayKeeps == PenaltyInv /\ NewDay => PenaltyInv'
<1> SUFFICES ASSUME PenaltyInv, NewDay PROVE PenaltyInv'
  OBVIOUS
<1>1. PICK late \in SUBSET {d \in Debts : Open(d)} :
        rows' = [d \in Debts |-> [rows[d] EXCEPT !.late = @ \/ d \in late]]
  BY DEF NewDay
<1>2. /\ rows' \in [Debts -> Row]
      /\ \A d \in Debts : rows'[d].charged = rows[d].charged
  BY <1>1 DEF PenaltyInv, RowsType, Row
<1>3. UNCHANGED <<runs, overlapped>>
  BY DEF NewDay
<1> QED BY <1>2, <1>3, QuietRows DEF PenaltyInv, RunsType, Charging

LEMMA PayKeeps == \A d \in Debts : PenaltyInv /\ Pay(d) => PenaltyInv'
<1> SUFFICES ASSUME NEW d \in Debts, PenaltyInv, Pay(d) PROVE PenaltyInv'
  OBVIOUS
<1>1. /\ rows' \in [Debts -> Row]
      /\ \A e \in Debts : rows'[e].charged = rows[e].charged
  BY DEF Pay, PenaltyInv, RowsType, Row
<1>2. UNCHANGED <<runs, overlapped>>
  BY DEF Pay
<1> QED BY <1>1, <1>2, QuietRows DEF PenaltyInv, RunsType, Charging

LEMMA TakeKeeps == \A w \in Workers : PenaltyInv /\ Take(w) => PenaltyInv'
<1> SUFFICES ASSUME NEW w \in Workers, PenaltyInv, Take(w) PROVE PenaltyInv'
  OBVIOUS
<1>1. UNCHANGED <<rows, overlapped>>
  BY DEF Take
<1>2. CASE UNCHANGED runs
  BY <1>1, <1>2, SameRows DEF PenaltyInv, RunsType, Charging
<1>3. ASSUME NEW run, IsLoop(run), runs' = [runs EXCEPT ![w] = run]
      PROVE  PenaltyInv'
  BY <1>1, <1>3, QuietRun, SameRows DEF PenaltyInv
<1>4. UNCHANGED runs \/ \E run : IsLoop(run) /\ runs' = [runs EXCEPT ![w] = run]
  BY DEF Take, IsLoop
<1> QED BY <1>2, <1>3, <1>4

LEMMA RemindKeeps ==
  \A w \in Workers, d \in Debts : PenaltyInv /\ (Remind(w, d) \/ RemindFails(w, d)) => PenaltyInv'
<1> SUFFICES ASSUME NEW w \in Workers, NEW d \in Debts, PenaltyInv,
                    Remind(w, d) \/ RemindFails(w, d)
             PROVE  PenaltyInv'
  OBVIOUS
<1>1. /\ RunsType'
      /\ \A v \in Workers, e \in Debts : Charging(v, e)' => Charging(v, e)
  BY TreatedRun DEF Remind, RemindFails, Treats, PenaltyInv
<1>2. overlapped' = overlapped
  BY DEF Remind, RemindFails
<1>3. CASE UNCHANGED rows
  BY <1>1, <1>2, <1>3, SameRows
<1>4. ASSUME NEW bills \in BOOLEAN, rows' = [rows EXCEPT ![d] = Marked(@, bills)]
      PROVE  PenaltyInv'
  <2>1. rows \in [Debts -> Row]
    BY DEF PenaltyInv, RowsType
  <2>2. Marked(rows[d], bills) \in Row /\ Marked(rows[d], bills).charged = rows[d].charged
    BY <2>1, MarkedRow
  <2>3. /\ rows' \in [Debts -> Row]
        /\ \A e \in Debts : rows'[e].charged = rows[e].charged
    BY <1>4, <2>1, <2>2
  <2> QED BY <1>1, <1>2, <2>3, QuietRows
<1> QED BY <1>3, <1>4 DEF Remind, RemindFails

LEMMA EndKeeps ==
  \A w \in Workers : PenaltyInv /\ (Finish(w) \/ Raise(w) \/ Die(w)) => PenaltyInv'
<1> SUFFICES ASSUME NEW w \in Workers, PenaltyInv, Finish(w) \/ Raise(w) \/ Die(w)
             PROVE  PenaltyInv'
  OBVIOUS
<1>1. UNCHANGED <<rows, overlapped>> /\ runs' = [runs EXCEPT ![w] = Idle]
  BY DEF Finish, Raise, Die
<1> QED BY <1>1, QuietRun, SameRows DEF PenaltyInv

\* The check: it finds no penalty, and if another run is about to charge one this is a race.
LEMMA CheckKeeps ==
  \A w \in Workers, d \in Debts : PenaltyInv /\ CheckPenalty(w, d) => PenaltyInv'
<1> SUFFICES ASSUME NEW w \in Workers, NEW d \in Debts, PenaltyInv, CheckPenalty(w, d)
             PROVE  PenaltyInv'
  OBVIOUS
<1>1. UNCHANGED rows /\ Looping(w)
  BY DEF CheckPenalty, Treats
<1>2. CASE Treated(w, d) /\ UNCHANGED overlapped
  BY <1>1, <1>2, TreatedRun, SameRows DEF PenaltyInv
<1>3. CASE ~PenaltySinceDue(d) /\ GoesToCharge(w, d)
  <2>1. /\ DOMAIN runs' = Workers
        /\ runs' = [v \in Workers |-> runs'[v]]
        /\ runs'[w].phase = "charge" /\ runs'[w].debt = d
        /\ \A v \in Workers \ {w} : runs'[v] = runs[v]
    BY <1>3 DEF GoesToCharge, PenaltyInv, RunsType
  <2>2. RunsType'
    BY <2>1 DEF PenaltyInv, RunsType
  <2>3. rows[d].charged = 0
    BY <1>3 DEF PenaltySinceDue, PenaltyInv, RowsType, Row
  <2>4. /\ overlapped \subseteq overlapped'
        /\ d \notin overlapped' => \A v \in Workers : ~Charging(v, d)
    BY <1>3 DEF GoesToCharge
  <2>5. \A v \in Workers, e \in Debts : Charging(v, e)' => Charging(v, e) \/ (v = w /\ e = d)
    BY <2>1 DEF Charging
  <2>6. ChargesFirst'
    <3> SUFFICES ASSUME NEW v \in Workers, NEW e \in Debts, Charging(v, e)', e \notin overlapped'
                 PROVE  /\ rows[e].charged = 0
                        /\ \A u \in Workers : Charging(u, e)' => u = v
      BY <1>1 DEF ChargesFirst
    <3>1. CASE e = d
      BY <2>3, <2>4, <2>5, <3>1
    <3>2. CASE e # d
      BY <2>4, <2>5, <3>2 DEF PenaltyInv, ChargesFirst
    <3> QED BY <3>1, <3>2
  <2> QED BY <1>1, <2>2, <2>4, <2>6 DEF PenaltyInv, PenalisedOnce, RowsType
<1> QED BY <1>2, <1>3 DEF CheckPenalty

\* The charge: it is the debt's first, or two runs have raced.
LEMMA ChargeKeeps == \A w \in Workers : PenaltyInv /\ Charge(w) => PenaltyInv'
<1> SUFFICES ASSUME NEW w \in Workers, PenaltyInv, Charge(w) PROVE PenaltyInv'
  OBVIOUS
<1>1. PICK d \in Debts : d = runs[w].debt /\ Charging(w, d) /\ overlapped' = overlapped
  BY DEF Charge, Charging, PenaltyInv, RunsType, IsLoop, Idle
<1>2. /\ RunsType'
      /\ \A v \in Workers, e \in Debts : Charging(v, e)' => Charging(v, e)
  BY QuietRun DEF Charge, IsLoop, PenaltyInv
<1>3. CASE UNCHANGED rows
  BY <1>1, <1>2, <1>3, SameRows
<1>4. CASE rows' = [rows EXCEPT ![d].charged = @ + 1]
  <2>1. ~Charging(w, d)'
    BY DEF Charge, Charging, PenaltyInv, RunsType
  <2>2. /\ RowsType'
        /\ rows'[d].charged = rows[d].charged + 1
        /\ \A e \in Debts \ {d} : rows'[e] = rows[e]
    BY <1>1, <1>4 DEF PenaltyInv, RowsType, Row
  <2>3. d \notin overlapped => rows[d].charged = 0 /\ \A v \in Workers : ~Charging(v, d)'
    BY <1>1, <1>2, <2>1 DEF PenaltyInv, ChargesFirst
  <2>4. PenalisedOnce'
    BY <1>1, <2>2, <2>3 DEF PenaltyInv, PenalisedOnce
  <2>5. ChargesFirst'
    BY <1>1, <1>2, <2>2, <2>3 DEF PenaltyInv, ChargesFirst
  <2> QED BY <1>2, <2>2, <2>4, <2>5 DEF PenaltyInv
<1> QED BY <1>1, <1>3, <1>4 DEF Charge

(***************************************************************************)
(* The theorem.                                                            *)
(***************************************************************************)
LEMMA PenaltyStep == PenaltyInv /\ [JobsNext]_jobVars => PenaltyInv'
<1> SUFFICES ASSUME PenaltyInv, [JobsNext]_jobVars PROVE PenaltyInv'
  OBVIOUS
<1>1. CASE UNCHANGED <<rows, runs, overlapped>>
  BY <1>1, SameRows DEF PenaltyInv, RunsType, Charging
<1>2. CASE NewDay
  BY <1>2, NewDayKeeps
<1>3. ASSUME NEW d \in Debts, Pay(d) PROVE PenaltyInv'
  BY <1>3, PayKeeps
<1>4. ASSUME NEW j \in Jobs, NEW forced \in BOOLEAN, Start(j, forced) PROVE PenaltyInv'
  BY <1>1, <1>4 DEF Start
<1>5. ASSUME NEW w \in Workers, Work(w) PROVE PenaltyInv'
  BY <1>5, TakeKeeps, ChargeKeeps, EndKeeps, RemindKeeps, CheckKeeps DEF Work
<1>6. ASSUME NEW w \in Workers, Raise(w) \/ Die(w) PROVE PenaltyInv'
  BY <1>6, EndKeeps
<1>7. CASE UNCHANGED jobVars
  BY <1>1, <1>7 DEF jobVars
<1> QED BY <1>2, <1>3, <1>4, <1>5, <1>6, <1>7 DEF JobsNext

\* apply_auto_penalties charges a debt a second time only if two runs have both looked for a
\* penalty before either has charged one, with any number of processes, retries and failures.
THEOREM PenalisedOnceOrRaced == JobsSpec => []PenalisedOnce
<1>1. JobsInit => PenaltyInv
  BY DEF JobsInit, PenaltyInv, RowsType, Row, OnTime, RunsType, Idle, PenalisedOnce,
         ChargesFirst, Charging
<1>2. PenaltyInv => PenalisedOnce
  BY DEF PenaltyInv
<1> QED BY <1>1, <1>2, PenaltyStep, PTL DEF JobsSpec

(***************************************************************************)
(* Types, and what a process remembers of its reminders.                   *)
(***************************************************************************)
RunOK(run) ==
  \/ run = Idle
  \/ /\ run.message \in Message /\ DOMAIN run.todo \subseteq Debts
     /\ IsLoop(run) \/ (run.phase = "charge" /\ run.message.job = "penalties")

\* A process that has reminded debts today is still at it, with others, or remembers.
NotAgain(run, done, jobs) ==
  IF run.phase = "loop" /\ run.message.job = "reminders"
  THEN done \cap DOMAIN run.todo = {}
  ELSE done # {} => "reminders" \in jobs

BrokerOK == IsABag(broker) /\ BagToSet(broker) \subseteq Message

JobsInv ==
  /\ rows \in [Debts -> Row]
  /\ ran \in [Workers -> SUBSET Jobs]
  /\ BrokerOK
  /\ RunsType /\ \A w \in Workers : RunOK(runs[w])
  /\ reminded \in [Workers -> SUBSET Debts]
  /\ overlapped \subseteq Debts /\ troubles \in 0..MaxTroubles
  /\ \A w \in Workers : NotAgain(runs[w], reminded[w], ran[w])

LEMMA TroubleBounded == troubles \in 0..MaxTroubles /\ Trouble => troubles' \in 0..MaxTroubles
BY JobsAssumption DEF Trouble

LEMMA AddOK == ASSUME BrokerOK, NEW message \in Message, Add(message) PROVE BrokerOK'
BY PutIn DEF BrokerOK, Add

\* A run with one debt less to treat.
LEMMA TreatedOK ==
  ASSUME JobsInv, NEW w \in Workers, Looping(w), NEW d
  PROVE  LET run == [runs[w] EXCEPT !.todo = Without(@, d)]
         IN  /\ RunOK(run) /\ run.phase = "loop" /\ run.message = runs[w].message
             /\ DOMAIN run.todo = DOMAIN runs[w].todo \ {d}
<1> DEFINE old == runs[w]
           run == [old EXCEPT !.todo = Without(@, d)]
<1>1. IsLoop(old) /\ old.message \in Message /\ DOMAIN old.todo \subseteq Debts
  BY DEF JobsInv, RunOK, Looping, Idle
<1> HIDE DEF old
<1>2. run = [phase |-> "loop", message |-> old.message, todo |-> Without(old.todo, d)]
  BY <1>1 DEF IsLoop
<1>3. run.phase = "loop" /\ run.message = old.message /\ run.todo = Without(old.todo, d)
  BY <1>2
<1>4. DOMAIN run.todo = DOMAIN old.todo \ {d}
  BY <1>3 DEF Without
<1>5. RunOK(run)
  BY <1>1, <1>2, <1>3, <1>4 DEF RunOK, IsLoop
<1> QED BY <1>3, <1>4, <1>5 DEF old

\* A step of one process.
LEMMA ProcessStep ==
  ASSUME JobsInv, NEW w \in Workers, NEW run, RunOK(run), RunsType',
         runs' = [runs EXCEPT ![w] = run],
         rows' \in [Debts -> Row], BrokerOK',
         ran' \in [Workers -> SUBSET Jobs], reminded' \in [Workers -> SUBSET Debts],
         \A v \in Workers \ {w} : ran'[v] = ran[v] /\ reminded'[v] = reminded[v],
         overlapped' \subseteq Debts, troubles' \in 0..MaxTroubles,
         NotAgain(run, reminded'[w], ran'[w])
  PROVE  JobsInv'
<1>1. runs'[w] = run /\ \A v \in Workers \ {w} : runs'[v] = runs[v]
  BY DEF JobsInv, RunsType
<1>2. \A v \in Workers : RunOK(runs'[v])
  BY <1>1 DEF JobsInv
<1>3. \A v \in Workers : NotAgain(runs'[v], reminded'[v], ran'[v])
  <2>1. \A v \in Workers \ {w} : NotAgain(runs'[v], reminded'[v], ran'[v])
    BY <1>1 DEF JobsInv
  <2> QED BY <1>1, <2>1
<1> QED BY <1>2, <1>3 DEF JobsInv

\* Any replacement of a run by a run leaves functions of processes to runs.
LEMMA RunsTypeKept ==
  ASSUME RunsType, NEW w \in Workers, NEW run, runs' = [runs EXCEPT ![w] = run],
         \/ run = Idle
         \/ IsLoop(run)
         \/ run.phase = "charge" /\ run.debt \in Debts
  PROVE  RunsType'
<1>1. /\ DOMAIN runs' = Workers /\ runs' = [v \in Workers |-> runs'[v]]
      /\ runs'[w] = run /\ \A v \in Workers \ {w} : runs'[v] = runs[v]
  BY DEF RunsType
<1> QED BY <1>1 DEF RunsType

(***************************************************************************)
(* The steps.                                                              *)
(***************************************************************************)
LEMMA NewDayTyped == ASSUME JobsInv, NewDay PROVE JobsInv'
<1>1. rows' \in [Debts -> Row]
  <2>1. PICK late \in SUBSET {d \in Debts : Open(d)} :
          rows' = [d \in Debts |-> [rows[d] EXCEPT !.late = @ \/ d \in late]]
    BY DEF NewDay
  <2> QED BY <2>1 DEF JobsInv, Row
<1>2. \A w \in Workers : NotAgain(runs'[w], reminded'[w], ran'[w])
  BY DEF NewDay, NotAgain
<1> QED BY <1>1, <1>2 DEF JobsInv, NewDay, BrokerOK, RunsType

LEMMA PayTyped == ASSUME JobsInv, NEW d \in Debts, Pay(d) PROVE JobsInv'
<1>1. rows' \in [Debts -> Row]
  BY DEF Pay, JobsInv, Row
<1> QED BY <1>1 DEF JobsInv, Pay, BrokerOK, RunsType

LEMMA StartTyped ==
  ASSUME JobsInv, NEW j \in Jobs, NEW forced \in BOOLEAN, Start(j, forced) PROVE JobsInv'
<1>1. [job |-> j, retriesLeft |-> IF forced THEN 0 ELSE MaxRetries] \in Message
  BY JobsAssumption DEF Message
<1>2. BrokerOK'
  BY <1>1, AddOK DEF Start, JobsInv
<1> QED BY <1>2 DEF JobsInv, Start, RunsType

LEMMA TakeTyped == ASSUME JobsInv, NEW w \in Workers, Take(w) PROVE JobsInv'
<1>1. PICK message \in BagToSet(broker) :
        /\ broker' = broker (-) SetToBag({message})
        /\ IF message.job \in ran[w] THEN UNCHANGED runs
           ELSE \E selected \in Treatable(message.job) :
                 runs' = [runs EXCEPT ![w] =
                           [phase |-> "loop", message |-> message,
                            todo |-> [d \in selected |-> rows[d].status]]]
  BY DEF Take
<1>2. BrokerOK' /\ message \in Message
  BY <1>1, TakeOut DEF JobsInv, BrokerOK
<1>3. UNCHANGED <<rows, ran, reminded, overlapped, troubles>> /\ runs[w].phase = "idle"
  BY DEF Take
<1>4. CASE UNCHANGED runs
  BY <1>2, <1>3, <1>4 DEF JobsInv, RunsType
<1>5. CASE message.job \notin ran[w]
  <2>1. PICK selected \in Treatable(message.job) :
          runs' = [runs EXCEPT ![w] = [phase |-> "loop", message |-> message,
                                       todo |-> [d \in selected |-> rows[d].status]]]
    BY <1>1, <1>5
  <2> DEFINE run == [phase |-> "loop", message |-> message, todo |-> [d \in selected |-> rows[d].status]]
  <2>2. selected \subseteq Debts
    BY DEF Treatable
  <2>3. /\ run.phase = "loop" /\ run.message = message /\ DOMAIN run.todo = selected
        /\ IsLoop(run)
    BY DEF IsLoop
  <2>4. runs' = [runs EXCEPT ![w] = run]
    BY <2>1
  <2> HIDE DEF run
  <2>5. RunOK(run) /\ RunsType'
    BY <1>2, <2>2, <2>3, <2>4, RunsTypeKept DEF RunOK, JobsInv
  <2>6. NotAgain(run, reminded[w], ran[w])
    <3>1. "reminders" \notin ran[w] /\ message.job = "reminders" => reminded[w] = {}
      BY <1>3 DEF JobsInv, NotAgain
    <3>2. message.job # "reminders" => (reminded[w] # {} => "reminders" \in ran[w])
      BY <1>3 DEF JobsInv, NotAgain
    <3> QED BY <1>5, <2>3, <3>1, <3>2 DEF NotAgain
  <2> QED BY <1>2, <1>3, <2>4, <2>5, <2>6, ProcessStep DEF JobsInv
<1> QED BY <1>1, <1>4, <1>5

LEMMA RemindTyped ==
  ASSUME JobsInv, NEW w \in Workers, NEW d \in Debts, Remind(w, d) \/ RemindFails(w, d)
  PROVE  JobsInv'
<1> DEFINE run == [runs[w] EXCEPT !.todo = Without(@, d)]
<1>1. Looping(w) /\ runs[w].message.job = "reminders" /\ runs' = [runs EXCEPT ![w] = run]
  BY DEF Remind, RemindFails, Treats, Treated, JobsInv, RunsType
<1>2. /\ RunOK(run) /\ run.phase = "loop" /\ run.message = runs[w].message
      /\ DOMAIN run.todo = DOMAIN runs[w].todo \ {d}
  BY <1>1, TreatedOK
<1>3. RunsType'
  BY <1>1, TreatedRun DEF JobsInv, Remind, RemindFails
<1>4. rows' \in [Debts -> Row]
  <2>1. \A bills \in BOOLEAN : Marked(rows[d], bills) \in Row
    BY MarkedRow DEF JobsInv
  <2>2. UNCHANGED rows \/ \E bills \in BOOLEAN : rows' = [rows EXCEPT ![d] = Marked(@, bills)]
    BY DEF Remind, RemindFails
  <2> QED BY <2>1, <2>2 DEF JobsInv
<1>5. troubles' \in 0..MaxTroubles
  BY TroubleBounded DEF Remind, RemindFails, JobsInv
<1>6. /\ reminded' \in [Workers -> SUBSET Debts]
      /\ \A v \in Workers \ {w} : reminded'[v] = reminded[v]
      /\ reminded'[w] \subseteq reminded[w] \cup {d}
  BY DEF Remind, RemindFails, JobsInv
<1>7. reminded[w] \cap DOMAIN runs[w].todo = {}
  BY <1>1 DEF JobsInv, NotAgain, Looping
<1>8. UNCHANGED <<ran, broker, overlapped>>
  BY DEF Remind, RemindFails
<1> HIDE DEF run
<1>9. NotAgain(run, reminded'[w], ran'[w])
  BY <1>1, <1>2, <1>6, <1>7 DEF NotAgain
<1>10. BrokerOK' /\ ran' \in [Workers -> SUBSET Jobs] /\ overlapped' \subseteq Debts
  BY <1>8 DEF JobsInv, BrokerOK
<1> QED BY <1>1, <1>2, <1>3, <1>4, <1>5, <1>6, <1>8, <1>9, <1>10, ProcessStep

LEMMA CheckTyped ==
  ASSUME JobsInv, NEW w \in Workers, NEW d \in Debts, CheckPenalty(w, d)
  PROVE  JobsInv'
<1>1. Looping(w) /\ runs[w].message.job = "penalties"
      /\ UNCHANGED <<rows, ran, broker, reminded, troubles>>
  BY DEF CheckPenalty, Treats
<1>2. NotAgain(runs[w], reminded[w], ran[w]) /\ runs[w].phase = "loop"
  BY <1>1 DEF JobsInv, Looping
<1>3. BrokerOK' /\ rows' \in [Debts -> Row] /\ ran' \in [Workers -> SUBSET Jobs]
      /\ reminded' \in [Workers -> SUBSET Debts] /\ troubles' \in 0..MaxTroubles
  BY <1>1 DEF JobsInv, BrokerOK
<1>4. CASE Treated(w, d) /\ UNCHANGED overlapped
  <2> DEFINE run == [runs[w] EXCEPT !.todo = Without(@, d)]
  <2>1. runs' = [runs EXCEPT ![w] = run]
    BY <1>4 DEF Treated, JobsInv, RunsType
  <2>2. /\ RunOK(run) /\ run.phase = "loop" /\ run.message = runs[w].message
    BY <1>1, TreatedOK
  <2>3. RunsType'
    BY <1>1, <1>4, TreatedRun DEF JobsInv
  <2> HIDE DEF run
  <2>4. NotAgain(run, reminded'[w], ran'[w])
    BY <1>1, <1>2, <2>2 DEF NotAgain
  <2> QED BY <1>1, <1>3, <1>4, <2>1, <2>2, <2>3, <2>4, ProcessStep DEF JobsInv
<1>5. CASE GoesToCharge(w, d)
  <2> DEFINE run == [phase |-> "charge", message |-> runs[w].message,
                     todo |-> Without(runs[w].todo, d), debt |-> d]
  <2>1. runs' = [runs EXCEPT ![w] = run] /\ overlapped' \subseteq overlapped \cup {d}
    BY <1>5 DEF GoesToCharge
  <2>2. run.phase = "charge" /\ run.message = runs[w].message /\ run.debt = d
        /\ run.todo = Without(runs[w].todo, d)
    OBVIOUS
  <2>3. runs[w].message \in Message /\ DOMAIN runs[w].todo \subseteq Debts
    BY <1>2 DEF JobsInv, RunOK, Idle
  <2> HIDE DEF run
  <2>4. RunOK(run) /\ RunsType'
    BY <1>1, <2>1, <2>2, <2>3, RunsTypeKept DEF RunOK, JobsInv, Without
  <2>5. NotAgain(run, reminded'[w], ran'[w])
    BY <1>1, <1>2, <2>2 DEF NotAgain
  <2> QED BY <1>1, <1>3, <2>1, <2>4, <2>5, ProcessStep DEF JobsInv
<1> QED BY <1>4, <1>5 DEF CheckPenalty

LEMMA ChargeTyped == ASSUME JobsInv, NEW w \in Workers, Charge(w) PROVE JobsInv'
<1> DEFINE run == [phase |-> "loop", message |-> runs[w].message, todo |-> runs[w].todo]
<1>1. /\ runs' = [runs EXCEPT ![w] = run] /\ UNCHANGED <<ran, broker, reminded, overlapped>>
      /\ runs[w].phase = "charge"
  BY DEF Charge
<1>2. /\ runs[w].message \in Message /\ DOMAIN runs[w].todo \subseteq Debts
      /\ runs[w].message.job = "penalties" /\ runs[w].debt \in Debts
  BY <1>1 DEF JobsInv, RunOK, Idle, RunsType, IsLoop
<1>3. run.phase = "loop" /\ run.message = runs[w].message /\ run.todo = runs[w].todo /\ IsLoop(run)
  BY DEF IsLoop
<1> HIDE DEF run
<1>4. RunOK(run) /\ RunsType'
  BY <1>1, <1>2, <1>3, RunsTypeKept DEF RunOK, JobsInv
<1>5. NotAgain(run, reminded'[w], ran'[w])
  BY <1>1, <1>2, <1>3 DEF NotAgain, JobsInv
<1>6. rows' \in [Debts -> Row]
  <2>1. \A d \in Debts : [rows[d] EXCEPT !.charged = @ + 1] \in Row
    BY DEF JobsInv, Row
  <2>2. \/ UNCHANGED rows
        \/ rows' = [rows EXCEPT ![runs[w].debt] = [rows[runs[w].debt] EXCEPT !.charged = @ + 1]]
    BY <1>2 DEF Charge, JobsInv
  <2> QED BY <1>2, <2>1, <2>2 DEF JobsInv
<1>7. troubles' \in 0..MaxTroubles
  BY TroubleBounded DEF Charge, JobsInv
<1>8. BrokerOK' /\ ran' \in [Workers -> SUBSET Jobs] /\ overlapped' \subseteq Debts
      /\ reminded' \in [Workers -> SUBSET Debts]
  BY <1>1 DEF JobsInv, BrokerOK
<1> QED BY <1>1, <1>4, <1>5, <1>6, <1>7, <1>8, ProcessStep

LEMMA EndTyped ==
  ASSUME JobsInv, NEW w \in Workers, Finish(w) \/ Raise(w) \/ Die(w)
  PROVE  JobsInv'
<1>1. UNCHANGED <<rows, overlapped>> /\ runs' = [runs EXCEPT ![w] = Idle]
  BY DEF Finish, Raise, Die
<1>2. RunOK(Idle) /\ RunsType'
  BY <1>1, RunsTypeKept DEF RunOK, JobsInv
<1>3. troubles' \in 0..MaxTroubles
  BY TroubleBounded DEF Finish, Raise, Die, JobsInv
<1>4. Looping(w) => runs[w].message \in Message
  BY DEF Looping, JobsInv, RunOK, Idle
<1>5. BrokerOK'
  <2>1. CASE broker' = broker
    BY <2>1 DEF JobsInv, BrokerOK
  <2>2. CASE Looping(w) /\ runs[w].message.retriesLeft # 0
             /\ Add([runs[w].message EXCEPT !.retriesLeft = @ - 1])
    <3>1. [runs[w].message EXCEPT !.retriesLeft = @ - 1] \in Message
      BY <1>4, <2>2, JobsAssumption DEF Message
    <3> QED BY <2>2, <3>1, AddOK DEF JobsInv
  <2> QED BY <2>1, <2>2 DEF Finish, Raise, Die
<1>6. /\ ran' \in [Workers -> SUBSET Jobs] /\ reminded' \in [Workers -> SUBSET Debts]
      /\ \A v \in Workers \ {w} : ran'[v] = ran[v] /\ reminded'[v] = reminded[v]
      /\ reminded'[w] # {} => "reminders" \in ran'[w]
  <2>1. CASE Finish(w)
    <3>1. runs[w].message.job \in Jobs
      BY <1>4, <2>1 DEF Finish, Message
    <3>2. ran' = [ran EXCEPT ![w] = ran[w] \cup {runs[w].message.job}] /\ reminded' = reminded
      BY <2>1 DEF Finish, JobsInv
    <3>3. ran' \in [Workers -> SUBSET Jobs] /\ ran'[w] = ran[w] \cup {runs[w].message.job}
          /\ \A v \in Workers \ {w} : ran'[v] = ran[v]
      BY <3>1, <3>2 DEF JobsInv
    <3>4. reminded[w] # {} => "reminders" \in ran[w] \cup {runs[w].message.job}
      BY <3>1, <2>1 DEF JobsInv, NotAgain, Finish, Looping, Jobs
    <3> QED BY <3>2, <3>3, <3>4 DEF JobsInv
  <2>2. CASE Raise(w)
    BY <2>2 DEF Raise, JobsInv
  <2>3. CASE Die(w)
    BY <2>3 DEF Die, JobsInv
  <2> QED BY <2>1, <2>2, <2>3
<1>7. NotAgain(Idle, reminded'[w], ran'[w])
  BY <1>6 DEF NotAgain, Idle
<1> QED BY <1>1, <1>2, <1>3, <1>5, <1>6, <1>7, ProcessStep DEF JobsInv

LEMMA JobsStep == JobsInv /\ [JobsNext]_jobVars => JobsInv'
<1> SUFFICES ASSUME JobsInv, [JobsNext]_jobVars PROVE JobsInv'
  OBVIOUS
<1>1. CASE NewDay
  BY <1>1, NewDayTyped
<1>2. ASSUME NEW d \in Debts, Pay(d) PROVE JobsInv'
  BY <1>2, PayTyped
<1>3. ASSUME NEW j \in Jobs, NEW forced \in BOOLEAN, Start(j, forced) PROVE JobsInv'
  BY <1>3, StartTyped
<1>4. ASSUME NEW w \in Workers, Take(w) \/ Charge(w) PROVE JobsInv'
  BY <1>4, TakeTyped, ChargeTyped
<1>5. ASSUME NEW w \in Workers, NEW d \in Debts, Remind(w, d) \/ RemindFails(w, d) \/ CheckPenalty(w, d)
      PROVE  JobsInv'
  BY <1>5, RemindTyped, CheckTyped
<1>6. ASSUME NEW w \in Workers, Finish(w) \/ Raise(w) \/ Die(w) PROVE JobsInv'
  BY <1>6, EndTyped
<1>7. CASE UNCHANGED jobVars
  BY <1>7 DEF jobVars, JobsInv, BrokerOK, RunsType
<1> QED BY <1>1, <1>2, <1>3, <1>4, <1>5, <1>6, <1>7 DEF JobsNext, Work

THEOREM JobsInvAlways == JobsSpec => []JobsInv
<1>1. JobsInit => JobsInv
  <2> SUFFICES ASSUME JobsInit PROVE JobsInv
    OBVIOUS
  <2>1. /\ rows \in [Debts -> Row] /\ ran \in [Workers -> SUBSET Jobs]
        /\ reminded \in [Workers -> SUBSET Debts] /\ RunsType
        /\ overlapped \subseteq Debts /\ troubles \in 0..MaxTroubles
    BY JobsAssumption DEF JobsInit, OnTime, Row, RunsType
  <2>2. BrokerOK
    BY Nothing DEF JobsInit, BrokerOK
  <2>3. \A w \in Workers : RunOK(runs[w]) /\ NotAgain(runs[w], reminded[w], ran[w])
    BY DEF JobsInit, RunOK, NotAgain, Idle
  <2> QED BY <2>1, <2>2, <2>3 DEF JobsInv
<1> QED BY <1>1, JobsStep, PTL DEF JobsSpec

(* Rows, caches, messages and runs are well formed, and no run is retried  *)
(* more often than it may be, with any number of processes.                *)
THEOREM JobsTypes == JobsSpec => []JobsTypeOK
<1>1. JobsInv => JobsTypeOK
  <2>1. ASSUME NEW w \in Workers, RunOK(runs[w])
        PROVE  RunType(w)
    <3> DEFINE run == runs[w]
    <3>1. IsLoop(run) => run.phase = "loop"
      BY DEF IsLoop
    <3> QED BY <2>1, <3>1 DEF RunOK, RunType
  <2> QED BY <2>1 DEF JobsInv, JobsTypeOK, BrokerOK
<1> QED BY <1>1, JobsInvAlways, PTL

(* No process reminds of a debt twice in a day, by whatever task it is     *)
(* asked, unless a run failed in it: what its cache does not keep from     *)
(* running is a run that still has others to remind of.                    *)
THEOREM RemindedOnce == JobsSpec => RemindedOnceByProcess
<1>1. JobsInv /\ [JobsNext]_jobVars =>
        [\A w \in Workers, d \in Debts :
           Remind(w, d) /\ d \in reminded'[w] => d \notin reminded[w]]_jobVars
  BY DEF JobsInv, NotAgain, Remind, Treats, Looping
<1> QED BY <1>1, JobsInvAlways, PTL DEF JobsSpec, RemindedOnceByProcess

================================================================================
