------------------------------- MODULE SyncQueue -------------------------------
(***************************************************************************)
(* The queue of edits that phones made offline.  A phone enqueues an edit  *)
(* of a record; an edit that waits for the same record is replaced by it.  *)
(* A pass applies the waiting edits one after the other.  A whole pass is  *)
(* one transaction at READ COMMITTED: its reads see what is committed and  *)
(* its own writes, its writes lock rows until it ends, and it keeps the    *)
(* edits as it listed them.  Passes are requests, so several may run at a  *)
(* time.                                                                   *)
(***************************************************************************)
EXTENDS Naturals, Sequences, FiniteSets, SequencesExt, FiniteSetsExt

CONSTANTS
  Records,     \* the records phones edit
  Edits,       \* contents an edit gives a record
  Phones,      \* requests that enqueue
  Passes,      \* requests that process the queue
  MaxItems,    \* bound: queue items ever created
  MaxStarts,   \* bound: passes ever started
  MaxRetries   \* max_retries of an item

ASSUME QueueAssumption ==
  /\ MaxItems \in Nat /\ MaxStarts \in Nat /\ MaxRetries \in Nat \ {0}
  /\ IsFiniteSet(Phones)
  /\ {"none", "delete", "refused"} \cap Edits = {}

VARIABLES
  starts,     \* passes started so far
  items,      \* the SyncQueue rows, by creation
  rows,       \* [Records -> the record's row]
  calls,      \* [Phones -> the enqueue a phone's request is in]
  passes,     \* [Passes -> the pass a request is in]
  history     \* history: what has become of each item's change, see Past

queueVars == <<starts, items, rows, calls, passes, history>>

(***************************************************************************)
(* Rows, items and passes.                                                 *)
(***************************************************************************)
Change == Edits \cup {"delete"}
NoRow == [data |-> "none", deleted |-> FALSE]
Row == [data: Edits, deleted: BOOLEAN]

Item == [record: Records, change: Change, retries: Nat,
         status: {"pending", "processing", "completed", "failed", "gone"}]
Ids == DOMAIN items
NoCall == [item |-> 0]
CanRetry(item) == item.retries < MaxRetries

(* A pass is about to take the next item (pick), to mark it (lock), to     *)
(* load its record (load) or to save it (store).  todo has the items it    *)
(* listed, with the edits they had then; ownItems and ownRows are its      *)
(* uncommitted writes, and did says what its handler did for an item.      *)
Idle == [phase |-> "idle", todo |-> <<>>, ownItems |-> <<>>, ownRows |-> <<>>, copy |-> NoRow,
         did |-> <<>>]
Active(p) == passes[p].phase # "idle"
Current(p) == Head(passes[p].todo)
Holds(p, i) == i \in DOMAIN passes[p].ownItems
HoldsRow(p, r) == r \in DOMAIN passes[p].ownRows
Listed(i) == \E p \in Passes : \E k \in DOMAIN passes[p].todo : passes[p].todo[k].id = i

With(f, x, y) == [z \in DOMAIN f \cup {x} |-> IF z = x THEN y ELSE f[z]]
Over(new, old) == [z \in DOMAIN old |-> IF z \in DOMAIN new THEN new[z] ELSE old[z]]

(* Of an item: the change a phone was last told is queued, the one passes  *)
(* have last applied, how often they have refused one (up to MaxRetries),  *)
(* and whether its change was replaced while a pass had it.                *)
Past == [accepted: Change, applied: Change \cup {"none"}, refused: Nat, contested: BOOLEAN]
NewPast(change) ==
  [accepted |-> change, applied |-> "none", refused |-> 0, contested |-> FALSE]

QueueInit ==
  /\ starts = 0
  /\ items = <<>>
  /\ rows \in [Records -> {NoRow} \cup [data: Edits, deleted: {FALSE}]]
  /\ calls = [c \in Phones |-> NoCall]
  /\ passes = [p \in Passes |-> Idle]
  /\ history = <<>>

(***************************************************************************)
(* Enqueueing.                                                             *)
(***************************************************************************)
Waiting(r) == {i \in Ids : items[i].record = r /\ items[i].status \in {"pending", "processing"}}

Creates(c) == calls[c] # NoCall /\ calls[c].item = 0

\* The oldest item that waits for the record, or 0.
Oldest(r) == IF Waiting(r) = {} THEN {0}
             ELSE {i \in Waiting(r) : \A j \in Waiting(r) : i <= j}

Find(c, r, change) ==
  /\ calls[c] = NoCall
  /\ Waiting(r) = {} => Len(items) + Cardinality({d \in Phones : Creates(d)}) < MaxItems
  /\ \E i \in Oldest(r) :
       calls' = [calls EXCEPT ![c] = [record |-> r, change |-> change, item |-> i]]
  /\ UNCHANGED <<starts, items, rows, passes, history>>

Create(c) ==
  LET call == calls[c]
  IN  /\ Creates(c)
      /\ items' = Append(items, [record |-> call.record, change |-> call.change,
                                 retries |-> 0, status |-> "pending"])
      /\ history' = Append(history, NewPast(call.change))
      /\ calls' = [calls EXCEPT ![c] = NoCall]
      /\ UNCHANGED <<starts, rows, passes>>

\* Wrong variant: the change is missing from the fields the UPDATE writes.
ReplaceNothing(c) ==
  LET call == calls[c]
      i == call.item
  IN  /\ call # NoCall /\ i # 0 /\ items[i].status # "gone"
      /\ \A p \in Passes : ~Holds(p, i)
      /\ history' = [history EXCEPT ![i].accepted = call.change,
                       ![i].contested = items[i].status # "pending" \/ Listed(i)]
      /\ calls' = [calls EXCEPT ![c] = NoCall]
      /\ UNCHANGED <<starts, items, rows, passes>>

\* The UPDATE waits for a pass that has marked the item, and writes the change whatever
\* the item's status has become.
Replace(c) ==
  LET call == calls[c]
      i == call.item
  IN  /\ call # NoCall /\ i # 0 /\ items[i].status # "gone"
      /\ \A p \in Passes : ~Holds(p, i)
      /\ items' = [items EXCEPT ![i].change = call.change]
      /\ history' = [history EXCEPT ![i].accepted = call.change,
                       ![i].contested = items[i].status # "pending" \/ Listed(i)]
      /\ calls' = [calls EXCEPT ![c] = NoCall]
      /\ UNCHANGED <<starts, rows, passes>>

\* The item was deleted meanwhile: saving it fails, and the phone is told so.
RefuseEnqueue(c) ==
  /\ calls[c] # NoCall /\ calls[c].item # 0 /\ items[calls[c].item].status = "gone"
  /\ calls' = [calls EXCEPT ![c] = NoCall]
  /\ UNCHANGED <<starts, items, rows, passes, history>>

(***************************************************************************)
(* A pass.                                                                 *)
(***************************************************************************)
Entry(i) == [id |-> i, change |-> items[i].change]

\* A set of items by creation.
InOrder(S) == {ids \in [1 .. Cardinality(S) -> S] :
                 \A j, k \in DOMAIN ids : j < k => ids[j] < ids[k]}

\* All items that wait, or those of some entity, which is a set of records.
StartPass(p, records) ==
  LET pending == {i \in Ids : items[i].status \in {"pending", "failed"} /\ CanRetry(items[i])
                              /\ items[i].record \in records}
  IN  /\ ~Active(p) /\ pending # {} /\ starts < MaxStarts
      /\ starts' = starts + 1
      /\ \E ids \in InOrder(pending) :
           passes' = [passes EXCEPT ![p] = [Idle EXCEPT !.phase = "pick",
                                              !.todo = [k \in DOMAIN ids |-> Entry(ids[k])]]]
      /\ UNCHANGED <<items, rows, calls, history>>

\* Everything the pass has done is rolled back.
Abort(p) == passes' = [passes EXCEPT ![p] = Idle] /\ UNCHANGED <<starts, items, rows, calls, history>>

\* An item that is no longer pending cannot be marked processing, and the handler of that
\* error cannot mark it failed either: the pass fails.
Pick(p) ==
  /\ passes[p].phase = "pick" /\ passes[p].todo # <<>>
  /\ IF items[Current(p).id].status = "pending"
     THEN /\ passes' = [passes EXCEPT ![p].phase = "lock"]
          /\ UNCHANGED <<starts, items, rows, calls, history>>
     ELSE Abort(p)

\* Wrong variant: the pass is not one transaction, so the mark is committed at once.
MarkProcessingAtOnce(p) ==
  LET i == Current(p).id
  IN  /\ passes[p].phase = "lock"
      /\ \A q \in Passes \ {p} : ~Holds(q, i)
      /\ items' = [items EXCEPT ![i].status = "processing"]
      /\ passes' = [passes EXCEPT ![p].phase = "load",
                      ![p].ownItems = With(@, i, [items[i] EXCEPT !.status = "processing"])]
      /\ UNCHANGED <<starts, rows, calls, history>>

\* The UPDATE waits for the item's lock; it does not look at the status again.
MarkProcessing(p) ==
  LET i == Current(p).id
  IN  /\ passes[p].phase = "lock"
      /\ \A q \in Passes \ {p} : ~Holds(q, i)
      /\ IF items[i].status = "gone"
         THEN Abort(p)
         ELSE /\ passes' = [passes EXCEPT ![p].phase = "load",
                              ![p].ownItems = With(@, i, [items[i] EXCEPT !.status = "processing"])]
              /\ UNCHANGED <<starts, items, rows, calls, history>>

Load(p) ==
  LET r == items[Current(p).id].record
  IN  /\ passes[p].phase = "load"
      /\ passes' = [passes EXCEPT ![p].phase = "store",
                      ![p].copy = IF HoldsRow(p, r) THEN passes[p].ownRows[r] ELSE rows[r]]
      /\ UNCHANGED <<starts, items, rows, calls, history>>

(* A delete marks the row and nothing else, and does nothing if there was  *)
(* no row.  An edit saves all of the copy, or a new row; if a row has come *)
(* to exist the save of a new one overwrites it.                           *)
\* Wrong variant: a record that does not exist is deleted like any other.
NothingToDeleteUnchecked(change, copy) == FALSE
NothingToDelete(change, copy) == change = "delete" /\ copy = NoRow

Stored(change, copy, row) ==
  IF change = "delete" THEN [row EXCEPT !.deleted = TRUE]
  ELSE [data |-> change, deleted |-> copy # NoRow /\ copy.deleted]

Settle(p, item, own, did) ==
  /\ passes' = [passes EXCEPT ![p].phase = "pick", ![p].todo = Tail(@), ![p].copy = NoRow,
                  ![p].ownItems = With(@, Current(p).id, item), ![p].ownRows = own,
                  ![p].did = With(@, Current(p).id, did)]
  /\ UNCHANGED <<starts, items, rows, calls, history>>

\* The change is the one the pass has listed.  The record's lock is waited for.
Apply(p) ==
  LET i == Current(p).id
      r == items[i].record
      own == passes[p].ownRows
      change == Current(p).change
  IN  /\ passes[p].phase = "store"
      /\ \A q \in Passes \ {p} : ~HoldsRow(q, r)
      /\ Settle(p, [passes[p].ownItems[i] EXCEPT !.status = "completed"],
                IF NothingToDelete(change, passes[p].copy) THEN own
                ELSE With(own, r, Stored(change, passes[p].copy, Over(own, rows)[r])), change)

\* Wrong variant: the error handler counts a refusal that has been counted.
RefusedTwice(item) ==
  [item EXCEPT !.retries = @ + 2,
               !.status = IF item.retries + 2 >= MaxRetries THEN "failed" ELSE "pending"]

Refused(item) ==
  [item EXCEPT !.retries = @ + 1,
               !.status = IF item.retries + 1 >= MaxRetries THEN "failed" ELSE "pending"]

\* The handler may refuse any change: a validation, a signal, a row in its way.
Refuse(p) ==
  /\ passes[p].phase = "store"
  /\ Settle(p, Refused(passes[p].ownItems[Current(p).id]), passes[p].ownRows, "refused")

Commit(p) ==
  LET did == passes[p].did
  IN  /\ passes[p].phase = "pick" /\ passes[p].todo = <<>>
      /\ items' = Over(passes[p].ownItems, items)
      /\ rows' = Over(passes[p].ownRows, rows)
      /\ history' = [i \in Ids |->
           IF i \notin DOMAIN did THEN history[i]
           ELSE IF did[i] = "refused" THEN [history[i] EXCEPT !.refused = Min({@ + 1, MaxRetries})]
           ELSE [history[i] EXCEPT !.applied = did[i]]]
      /\ passes' = [passes EXCEPT ![p] = Idle]
      /\ UNCHANGED <<starts, calls>>

\* The request or its connection dies, or the database ends a deadlock with it: two
\* passes that want two items of a record in a different order wait for each other.
Crash(p) == Active(p) /\ Abort(p)

(***************************************************************************)
(* Deleting items.                                                         *)
(***************************************************************************)
Gone(item) == [item EXCEPT !.status = "gone", !.change = "delete", !.retries = 0]
Erase(removed) ==
  /\ items' = [i \in Ids |-> IF i \in removed THEN Gone(items[i]) ELSE items[i]]
  /\ history' = [i \in Ids |-> IF i \in removed THEN NewPast("delete") ELSE history[i]]

\* Resetting an entity waits for the passes that have marked its items.
ClearEntity(records) ==
  LET cleared == {i \in Ids : items[i].record \in records /\ items[i].status # "gone"}
  IN  /\ cleared # {}
      /\ \A p \in Passes, i \in cleared : ~Holds(p, i)
      /\ Erase(cleared)
      /\ UNCHANGED <<starts, rows, calls, passes>>

\* Items settled a month ago: nobody has been at work on them since.
CleanUp(i) ==
  /\ items[i].status \in {"completed", "failed"}
  /\ \A p \in Passes : ~Active(p)
  /\ \A c \in Phones : calls[c] = NoCall
  /\ Erase({i})
  /\ UNCHANGED <<starts, rows, calls, passes>>

(***************************************************************************)
(* The specification.                                                      *)
(***************************************************************************)
QueueNext ==
  \/ \E c \in Phones : \/ \E r \in Records, change \in Change : Find(c, r, change)
                       \/ Create(c) \/ Replace(c) \/ RefuseEnqueue(c)
  \/ \E p \in Passes : \/ \E records \in SUBSET Records : StartPass(p, records)
                       \/ Pick(p) \/ MarkProcessing(p) \/ Load(p) \/ Apply(p) \/ Refuse(p)
                       \/ Commit(p) \/ Crash(p)
  \/ \E records \in SUBSET Records : ClearEntity(records)
  \/ \E i \in Ids : CleanUp(i)

QueueSpec == QueueInit /\ [][QueueNext]_queueVars

(***************************************************************************)
(* Properties.                                                             *)
(***************************************************************************)
PassType(p) ==
  LET pass == passes[p]
  IN  /\ pass.phase \in {"idle", "pick", "lock", "load", "store"}
      /\ \A k \in DOMAIN pass.todo : pass.todo[k] \in [id: Ids, change: Change]
      /\ DOMAIN pass.ownItems \subseteq Ids /\ Range(pass.ownItems) \subseteq Item
      /\ DOMAIN pass.ownRows \subseteq Records /\ Range(pass.ownRows) \subseteq Row
      /\ pass.copy \in Row \cup {NoRow}

(* Rows, items, requests and passes are well formed.                       *)
QueueTypeOK ==
  /\ items \in Seq(Item) /\ Len(items) <= MaxItems
  /\ rows \in [Records -> Row \cup {NoRow}]
  /\ \A p \in Passes : PassType(p)
  /\ DOMAIN history = Ids /\ Range(history) \subseteq Past

(* However a pass ends, it leaves no item in processing, where no later    *)
(* pass would find it.                                                     *)
NoneStranded == \A i \in Ids : items[i].status # "processing"

(* However passes overlap, abort or die, an item is completed only if some *)
(* change it carried has been applied, and given up only if the handler    *)
(* has refused it as often as it may be tried.                             *)
SettledIsEarned ==
  \A i \in Ids : /\ items[i].status = "completed" => history[i].applied # "none"
                 /\ items[i].status = "failed" => history[i].refused >= MaxRetries

(* A change a phone was told is queued is the one applied when its item is *)
(* completed, unless it came while a pass had the item.                    *)
UncontestedIsApplied ==
  \A i \in Ids : items[i].status = "completed" /\ ~history[i].contested
                 => history[i].applied = history[i].accepted
================================================================================
