---------------------------- MODULE SyncQueue_proofs ----------------------------
(***************************************************************************)
(* The invariants of the queue, for any records, edits, phones and passes. *)
(* QueueInv adds to the properties what makes them inductive: what a pass  *)
(* has written and not committed (PassOK) is what its handler did to the   *)
(* items as they are committed, and no two passes hold an item.            *)
(***************************************************************************)
EXTENDS SyncQueue, SequenceTheorems, FiniteSetTheorems, TLAPS

(***************************************************************************)
(* Functions on part of a set, which is what a pass's own writes are.      *)
(***************************************************************************)
Partial(D, S) == UNION {[E -> S] : E \in SUBSET D}

LEMMA PartialIs ==
  ASSUME NEW D, NEW S, NEW f
  PROVE  f \in Partial(D, S) <=> /\ f = [x \in DOMAIN f |-> f[x]]
                                 /\ DOMAIN f \subseteq D /\ \A x \in DOMAIN f : f[x] \in S
<1>1. ASSUME f \in Partial(D, S)
      PROVE  f = [x \in DOMAIN f |-> f[x]] /\ DOMAIN f \subseteq D /\ \A x \in DOMAIN f : f[x] \in S
  <2>1. PICK E \in SUBSET D : f \in [E -> S]
    BY <1>1 DEF Partial
  <2> QED BY <2>1
<1>2. ASSUME f = [x \in DOMAIN f |-> f[x]], DOMAIN f \subseteq D, \A x \in DOMAIN f : f[x] \in S
      PROVE  f \in Partial(D, S)
  <2>1. f \in [DOMAIN f -> S]
    BY <1>2
  <2> QED BY <1>2, <2>1 DEF Partial
<1> QED BY <1>1, <1>2

Updates(g, f, x, y) ==
  /\ DOMAIN g = DOMAIN f \cup {x} /\ g[x] = y
  /\ \A z \in DOMAIN f \ {x} : g[z] = f[z]

LEMMA WithUpdates == \A f, x, y : Updates(With(f, x, y), f, x, y)
BY DEF With, Updates

LEMMA WithPartial ==
  \A D, S : \A f \in Partial(D, S), x \in D, y \in S : With(f, x, y) \in Partial(D, S)
<1> SUFFICES ASSUME NEW D, NEW S, NEW f \in Partial(D, S), NEW x \in D, NEW y \in S
             PROVE  With(f, x, y) \in Partial(D, S)
  OBVIOUS
<1>1. DOMAIN f \subseteq D /\ \A z \in DOMAIN f : f[z] \in S
  BY PartialIs
<1>2. With(f, x, y) \in [DOMAIN f \cup {x} -> S]
  BY <1>1 DEF With
<1>3. DOMAIN f \cup {x} \in SUBSET D
  BY <1>1
<1> QED BY <1>2, <1>3 DEF Partial

LEMMA PartialNothing ==
  ASSUME NEW D, NEW S
  PROVE  <<>> \in Partial(D, S) /\ DOMAIN <<>> = {}
<1>1. <<>> \in [{} -> S] /\ DOMAIN <<>> = {}
  OBVIOUS
<1> QED BY <1>1 DEF Partial

\* What Over returns: the old function, with the new values.
LEMMA OverIs ==
  ASSUME NEW D, NEW new, NEW old, DOMAIN old = D
  PROVE  /\ DOMAIN Over(new, old) = D
         /\ \A x \in D : Over(new, old)[x] = IF x \in DOMAIN new THEN new[x] ELSE old[x]
         /\ Over(new, old) = [x \in D |-> IF x \in DOMAIN new THEN new[x] ELSE old[x]]
BY DEF Over

LEMMA MinOfTwo ==
  ASSUME NEW a \in Nat, NEW b \in Nat
  PROVE  Min({a, b}) = IF a <= b THEN a ELSE b
<1> DEFINE m == IF a <= b THEN a ELSE b
<1>1. m \in {a, b} /\ \A y \in {a, b} : m <= y
  OBVIOUS
<1>2. \A x \in {a, b} : (\A y \in {a, b} : x <= y) => x = m
  OBVIOUS
<1> QED BY <1>1, <1>2 DEF Min

(***************************************************************************)
(* Sequences as functions.                                                 *)
(***************************************************************************)
LEMMA SequenceIs ==
  ASSUME NEW S, NEW s \in Seq(S)
  PROVE  Len(s) \in Nat /\ DOMAIN s = 1 .. Len(s) /\ \A k \in DOMAIN s : s[k] \in S
OBVIOUS

LEMMA IsSequence ==
  ASSUME NEW S, NEW n \in Nat, NEW s \in [1 .. n -> S]
  PROVE  s \in Seq(S) /\ Len(s) = n
OBVIOUS

\* Without its first entry, a sequence has some of its entries.
LEMMA TailIs ==
  ASSUME NEW S, NEW s \in Seq(S), s # <<>>
  PROVE  /\ Head(s) \in S /\ Head(s) = s[1] /\ 1 \in DOMAIN s
         /\ Tail(s) \in Seq(S)
         /\ \A k \in DOMAIN Tail(s) : k + 1 \in DOMAIN s /\ Tail(s)[k] = s[k + 1]
OBVIOUS

(***************************************************************************)
(* Types.                                                                  *)
(***************************************************************************)
Call == [record: Records, change: Change, item: Nat]
Todo == [id: Nat, change: Change]
Done == Change \cup {"refused"}
Pass == [phase: {"idle", "pick", "lock", "load", "store"}, todo: Seq(Todo),
         ownItems: Partial(Nat, Item), ownRows: Partial(Records, Row),
         copy: Row \cup {NoRow}, did: Partial(Nat, Done)]

Types ==
  /\ items \in Seq(Item)
  /\ history \in Seq(Past) /\ Len(history) = Len(items)
  /\ rows \in [Records -> Row \cup {NoRow}]
  /\ calls \in [Phones -> Call \cup {NoCall}]
  /\ passes \in [Passes -> Pass]

(* The requests that will create an item still find room for it.           *)
Creating == {c \in Phones : Creates(c)}
Room ==
  /\ Len(items) + Cardinality(Creating) <= MaxItems
  /\ \A c \in Phones : calls[c] # NoCall => calls[c].item \in {0} \cup Ids

(* What a pass has of an item it has marked is the committed one, with     *)
(* what its handler did: it has the item in hand, or settled it.           *)
InHand(pass) == pass.phase \in {"load", "store"}

Held(pass, i) ==
  LET mine == pass.ownItems[i]
  IN  /\ items[i].status # "gone"
      /\ mine.record = items[i].record /\ mine.change = items[i].change
      /\ IF InHand(pass) /\ i = Head(pass.todo).id
         THEN mine.status = "processing" /\ mine.retries = items[i].retries
         ELSE /\ i \in DOMAIN pass.did
              /\ IF pass.did[i] = "refused"
                 THEN /\ mine.retries = items[i].retries + 1
                      /\ mine.status = IF mine.retries >= MaxRetries THEN "failed" ELSE "pending"
                 ELSE mine.retries = items[i].retries /\ mine.status = "completed"

(* A change the phone has not replaced since is the one the pass has       *)
(* listed, and the one it applied if it did.                               *)
Lists(pass, k) ==
  LET i == pass.todo[k].id
  IN  /\ i \in Ids
      /\ \/ items[i].status = "gone" \/ history[i].contested
         \/ pass.todo[k].change = history[i].accepted

Did(pass, i) == history[i].contested \/ pass.did[i] \in {"refused", history[i].accepted}

(* A row the pass has found is still there.                                *)
Found(pass) ==
  LET r == items[Head(pass.todo).id].record
  IN  pass.phase = "store" /\ pass.copy # NoRow => r \in DOMAIN pass.ownRows \/ rows[r] # NoRow

PassOK(pass) ==
  /\ pass.phase \in {"lock", "load", "store"} => pass.todo # <<>>
  /\ pass.phase = "idle" => pass = Idle
  /\ InHand(pass) => Head(pass.todo).id \in DOMAIN pass.ownItems
  /\ DOMAIN pass.ownItems \subseteq Ids
  /\ DOMAIN pass.did \subseteq DOMAIN pass.ownItems
  /\ \A k \in DOMAIN pass.todo : Lists(pass, k)
  /\ \A i \in DOMAIN pass.ownItems : Held(pass, i)
  /\ \A i \in DOMAIN pass.did : Did(pass, i)
  /\ Found(pass)

PassesOK == \A p \in Passes : \A pass \in Pass : passes[p] = pass => PassOK(pass)

Exclusive == \A p, q \in Passes : p # q => DOMAIN passes[p].ownItems \cap DOMAIN passes[q].ownItems = {}

(* What is committed of an item, and what has become of its change.        *)
Settled(item, past) ==
  /\ item.status # "processing"
  /\ item.status = "completed" => past.applied # "none"
  /\ item.status = "failed" => past.refused >= MaxRetries
  /\ item.retries <= past.refused \/ past.refused >= MaxRetries
  /\ item.change = past.accepted
  /\ item.status = "completed" /\ ~past.contested => past.applied = past.accepted

Ledger == \A i \in Ids : Settled(items[i], history[i])

QueueInv == Types /\ Room /\ PassesOK /\ Exclusive /\ Ledger

(***************************************************************************)
(* Values.                                                                 *)
(***************************************************************************)
LEMMA Words ==
  /\ "none" \notin Change /\ "refused" \notin Change /\ "delete" \in Change
  /\ NoRow \notin Row /\ NoCall \notin Call
  /\ MaxItems \in Nat /\ MaxRetries \in Nat \ {0} /\ IsFiniteSet(Phones)
<1>1. "none" \notin Edits /\ "delete" \notin Edits /\ "refused" \notin Edits
  BY QueueAssumption
<1>2. NoRow \notin Row
  BY <1>1 DEF NoRow, Row
<1>3. NoCall \notin Call
  <2>1. SUFFICES ASSUME NoCall \in Call PROVE FALSE
    OBVIOUS
  <2>2. "record" \in DOMAIN NoCall
    BY <2>1 DEF Call
  <2> QED BY <2>2 DEF NoCall
<1> QED BY <1>1, <1>2, <1>3, QueueAssumption DEF Change

LEMMA IdleIs ==
  /\ Idle \in Pass /\ Idle.phase = "idle" /\ Idle.todo = <<>> /\ Idle.ownItems = <<>>
  /\ Idle.ownRows = <<>> /\ Idle.copy = NoRow /\ Idle.did = <<>>
  /\ PassOK(Idle)
<1>1. <<>> \in Partial(Nat, Item) /\ <<>> \in Partial(Records, Row) /\ <<>> \in Partial(Nat, Done)
      /\ DOMAIN <<>> = {}
  BY PartialNothing
<1>2. <<>> \in Seq(Todo)
  OBVIOUS
<1>3. Idle \in Pass
  BY <1>1, <1>2 DEF Idle, Pass
<1>4. /\ Idle.phase = "idle" /\ Idle.todo = <<>> /\ Idle.ownItems = <<>>
      /\ Idle.ownRows = <<>> /\ Idle.copy = NoRow /\ Idle.did = <<>>
  BY DEF Idle
<1>5. PassOK(Idle)
  BY <1>1, <1>4 DEF PassOK, InHand, Found
<1> QED BY <1>3, <1>4, <1>5

LEMMA IdleAlways == PassOK(Idle)'
<1>1. /\ Idle.phase = "idle" /\ Idle.todo = <<>> /\ Idle.ownItems = <<>> /\ Idle.did = <<>>
      /\ Idle' = Idle
  BY DEF Idle, NoRow
<1>2. DOMAIN <<>> = {}
  OBVIOUS
<1> QED BY <1>1, <1>2 DEF PassOK, InHand, Found

\* A pass by its parts.
LEMMA PassIs ==
  ASSUME NEW pass \in Pass
  PROVE  /\ pass.todo \in Seq(Todo)
         /\ pass.ownItems \in Partial(Nat, Item) /\ pass.ownRows \in Partial(Records, Row)
         /\ pass.copy \in Row \cup {NoRow} /\ pass.did \in Partial(Nat, Done)
         /\ \A i \in DOMAIN pass.ownItems : i \in Nat /\ pass.ownItems[i] \in Item
         /\ \A r \in DOMAIN pass.ownRows : r \in Records /\ pass.ownRows[r] \in Row
         /\ \A i \in DOMAIN pass.did : i \in Nat /\ pass.did[i] \in Done
<1>1. /\ pass.todo \in Seq(Todo)
      /\ pass.ownItems \in Partial(Nat, Item) /\ pass.ownRows \in Partial(Records, Row)
      /\ pass.copy \in Row \cup {NoRow} /\ pass.did \in Partial(Nat, Done)
  BY DEF Pass
<1>2. \A i \in DOMAIN pass.ownItems : i \in Nat /\ pass.ownItems[i] \in Item
  BY <1>1, PartialIs
<1>3. \A r \in DOMAIN pass.ownRows : r \in Records /\ pass.ownRows[r] \in Row
  BY <1>1, PartialIs
<1>4. \A i \in DOMAIN pass.did : i \in Nat /\ pass.did[i] \in Done
  BY <1>1, PartialIs
<1> QED BY <1>1, <1>2, <1>3, <1>4

LEMMA ItemIs ==
  ASSUME Types, NEW i \in Ids
  PROVE  /\ items[i] \in Item /\ history[i] \in Past
         /\ i \in Nat \ {0} /\ Ids = 1 .. Len(items) /\ DOMAIN history = Ids
BY SequenceIs DEF Types, Ids

(***************************************************************************)
(* What a step of a pass has to show, when it commits nothing.             *)
(***************************************************************************)
Others == UNCHANGED <<items, rows, calls, history>>

LEMMA UnchangedKeeps ==
  ASSUME Others, NEW pass \in Pass
  PROVE  PassOK(pass) <=> PassOK(pass)'
<1>1. items' = items /\ rows' = rows /\ history' = history
  BY DEF Others
<1> QED BY <1>1 DEF PassOK, Lists, Held, Did, Found, Ids

LEMMA PassStep ==
  ASSUME QueueInv, NEW p \in Passes, NEW new \in Pass, Others,
         passes' = [passes EXCEPT ![p] = new], PassOK(new),
         \A i \in DOMAIN new.ownItems :
           i \in DOMAIN passes[p].ownItems \/ \A q \in Passes \ {p} : ~Holds(q, i)
  PROVE  QueueInv'
<1>1. items' = items /\ rows' = rows /\ history' = history /\ calls' = calls
  BY DEF Others
<1>2. passes' \in [Passes -> Pass] /\ passes'[p] = new
      /\ \A q \in Passes \ {p} : passes'[q] = passes[q]
  BY DEF QueueInv, Types
<1>3. Types'
  BY <1>1, <1>2 DEF QueueInv, Types
<1>4. Room'
  BY <1>1 DEF QueueInv, Room, Creating, Creates, Ids
<1>5. Ledger'
  BY <1>1 DEF QueueInv, Ledger, Ids
<1>6. \A pass \in Pass : PassOK(pass) => PassOK(pass)'
  BY UnchangedKeeps
<1>7. \A q \in Passes : \A pass \in Pass : passes'[q] = pass => PassOK(pass)
  BY <1>2 DEF QueueInv, PassesOK
<1>8. PassesOK'
  BY <1>6, <1>7 DEF PassesOK
<1>9. \A q \in Passes \ {p} : DOMAIN new.ownItems \cap DOMAIN passes[q].ownItems = {}
  BY DEF QueueInv, Exclusive, Holds
<1>10. Exclusive'
  BY <1>2, <1>9 DEF QueueInv, Exclusive
<1> QED BY <1>3, <1>4, <1>5, <1>8, <1>10 DEF QueueInv

(***************************************************************************)
(* A pass, step by step.                                                   *)
(***************************************************************************)
LEMMA AbortKeeps ==
  ASSUME QueueInv, NEW p \in Passes, Abort(p)
  PROVE  QueueInv'
<1>1. Others /\ passes' = [passes EXCEPT ![p] = Idle]
  BY DEF Abort, Others
<1>2. DOMAIN Idle.ownItems = {}
  BY IdleIs, PartialNothing
<1> QED BY <1>1, <1>2, IdleIs, PassStep

LEMMA StartKeeps ==
  ASSUME QueueInv, NEW p \in Passes, NEW records, StartPass(p, records)
  PROVE  QueueInv'
<1> DEFINE pending == {i \in Ids : items[i].status \in {"pending", "failed"} /\ CanRetry(items[i])
                                   /\ items[i].record \in records}
<1>1. Cardinality(pending) \in Nat
  <2>1. Ids = 1 .. Len(items) /\ Len(items) \in Nat
    BY SequenceIs DEF QueueInv, Types, Ids
  <2>2. IsFiniteSet(Ids)
    BY <2>1, FS_Interval
  <2>3. pending \subseteq Ids
    OBVIOUS
  <2> QED BY <2>2, <2>3, FS_Subset, FS_CardinalityType
<1>2. PICK ids \in InOrder(pending) :
        passes' = [passes EXCEPT ![p] = [Idle EXCEPT !.phase = "pick",
                                           !.todo = [k \in DOMAIN ids |-> Entry(ids[k])]]]
  BY DEF StartPass
<1> DEFINE todo == [k \in DOMAIN ids |-> Entry(ids[k])]
           new == [Idle EXCEPT !.phase = "pick", !.todo = todo]
<1>3. DOMAIN ids = 1 .. Cardinality(pending) /\ \A k \in DOMAIN ids : ids[k] \in pending
  BY DEF InOrder
<1>4. \A k \in DOMAIN ids : Entry(ids[k]) \in Todo
  <2>1. \A i \in pending : i \in Nat /\ items[i] \in Item
    BY ItemIs DEF QueueInv
  <2> QED BY <1>3, <2>1 DEF Entry, Todo, Item
<1>5. todo \in Seq(Todo) /\ DOMAIN todo = DOMAIN ids
  <2>1. todo \in [1 .. Cardinality(pending) -> Todo]
    BY <1>3, <1>4
  <2> HIDE DEF todo
  <2>2. todo \in Seq(Todo)
    BY <1>1, <2>1, IsSequence
  <2> QED BY <1>3, <2>1, <2>2
<1>6. \A k \in DOMAIN todo : todo[k].id \in pending /\ todo[k].change = items[todo[k].id].change
  BY <1>3 DEF Entry
<1> HIDE DEF todo
<1>7. /\ new \in Pass /\ new.phase = "pick" /\ new.todo = todo /\ new.ownItems = <<>>
      /\ new.ownRows = <<>> /\ new.copy = NoRow /\ new.did = <<>>
  <2>1. Idle \in Pass
    BY IdleIs
  <2> QED BY <1>5, <2>1, IdleIs DEF Pass
<1> HIDE DEF new
<1>8. DOMAIN new.ownItems = {} /\ DOMAIN new.did = {}
  BY <1>7, PartialNothing
<1>9. \A k \in DOMAIN todo : Lists(new, k)
  <2>1. \A i \in Ids : items[i].change = history[i].accepted
    BY DEF QueueInv, Ledger, Settled
  <2> QED BY <1>6, <1>7, <2>1 DEF Lists
<1>10. PassOK(new)
  BY <1>7, <1>8, <1>9 DEF PassOK, InHand, Found
<1>11. passes' = [passes EXCEPT ![p] = new] /\ Others
  BY <1>2 DEF new, todo, StartPass, Others
<1> QED BY <1>7, <1>8, <1>10, <1>11, PassStep

LEMMA PickKeeps ==
  ASSUME QueueInv, NEW p \in Passes, Pick(p)
  PROVE  QueueInv'
<1>1. CASE Abort(p)
  BY <1>1, AbortKeeps
<1>2. CASE passes' = [passes EXCEPT ![p].phase = "lock"] /\ Others
  <2> DEFINE pass == passes[p]
             new == [pass EXCEPT !.phase = "lock"]
  <2>1. pass \in Pass /\ PassOK(pass) /\ pass.phase = "pick" /\ pass.todo # <<>>
    BY DEF QueueInv, Types, PassesOK, Pick
  <2>2. passes' = [passes EXCEPT ![p] = new]
    BY <1>2
  <2> HIDE DEF pass
  <2>3. /\ new \in Pass /\ new.phase = "lock" /\ new.todo = pass.todo
        /\ new.ownItems = pass.ownItems /\ new.ownRows = pass.ownRows
        /\ new.copy = pass.copy /\ new.did = pass.did
    BY <2>1 DEF Pass
  <2> HIDE DEF new
  <2>4. PassOK(new)
    BY <2>1, <2>3 DEF PassOK, InHand, Lists, Held, Did, Found
  <2>5. DOMAIN new.ownItems = DOMAIN passes[p].ownItems
    BY <2>3 DEF pass
  <2> QED BY <1>2, <2>2, <2>3, <2>4, <2>5, PassStep
<1> QED BY <1>1, <1>2 DEF Pick, Others

LEMMA MarkKeeps ==
  ASSUME QueueInv, NEW p \in Passes, MarkProcessing(p)
  PROVE  QueueInv'
<1> DEFINE pass == passes[p]
           i == Head(pass.todo).id
           item == [items[i] EXCEPT !.status = "processing"]
           own == With(pass.ownItems, i, item)
           new == [pass EXCEPT !.phase = "load", !.ownItems = own]
<1>1. CASE Abort(p)
  BY <1>1, AbortKeeps
<1>2. CASE items[i].status # "gone" /\ passes' = [passes EXCEPT ![p] = new] /\ Others
  <2>1. /\ pass \in Pass /\ PassOK(pass) /\ pass.phase = "lock" /\ pass.todo # <<>>
        /\ \A q \in Passes \ {p} : ~Holds(q, i)
    BY DEF QueueInv, Types, PassesOK, PassOK, MarkProcessing, Current
  <2> HIDE DEF pass
  <2>2. Head(pass.todo) = pass.todo[1] /\ 1 \in DOMAIN pass.todo
    BY <2>1, PassIs, TailIs
  <2>3. i \in Ids
    BY <2>1, <2>2 DEF PassOK, Lists
  <2>4. items[i] \in Item /\ i \in Nat
    BY <2>3, ItemIs DEF QueueInv
  <2>5. /\ item \in Item /\ item.record = items[i].record /\ item.change = items[i].change
        /\ item.retries = items[i].retries /\ item.status = "processing"
    BY <2>4 DEF Item
  <2> HIDE DEF item
  <2>6. /\ own \in Partial(Nat, Item) /\ DOMAIN own = DOMAIN pass.ownItems \cup {i}
        /\ own[i] = item /\ \A z \in DOMAIN pass.ownItems \ {i} : own[z] = pass.ownItems[z]
    <3>1. pass.ownItems \in Partial(Nat, Item)
      BY <2>1, PassIs
    <3>2. own \in Partial(Nat, Item)
      BY <2>4, <2>5, <3>1, WithPartial, Zenon
    <3>3. Updates(own, pass.ownItems, i, item)
      BY WithUpdates, Zenon
    <3> HIDE DEF own
    <3> QED BY <3>2, <3>3 DEF Updates
  <2> HIDE DEF own
  <2>7. /\ new \in Pass /\ new.phase = "load" /\ new.todo = pass.todo
        /\ new.ownItems = own /\ new.ownRows = pass.ownRows
        /\ new.copy = pass.copy /\ new.did = pass.did
    BY <2>1, <2>6 DEF Pass
  <2>8. \A z \in DOMAIN new.ownItems : z = i \/ z \in DOMAIN passes[p].ownItems
    BY <2>6, <2>7 DEF pass
  <2> HIDE DEF new
  <2>9. ASSUME NEW z \in DOMAIN new.ownItems
        PROVE  Held(new, z)
    <3>1. CASE z = i
      BY <1>2, <2>5, <2>6, <2>7, <3>1 DEF Held, InHand
    <3>2. CASE z # i
      <4>1. Held(pass, z) /\ new.ownItems[z] = pass.ownItems[z]
        BY <2>1, <2>6, <2>7, <2>9, <3>2 DEF PassOK
      <4> QED BY <2>1, <2>7, <3>2, <4>1 DEF Held, InHand
    <3> QED BY <3>1, <3>2
  <2>10. PassOK(new)
    BY <2>1, <2>3, <2>6, <2>7, <2>9 DEF PassOK, InHand, Lists, Did, Found
  <2>11. \A z \in DOMAIN new.ownItems :
           z \in DOMAIN passes[p].ownItems \/ \A q \in Passes \ {p} : ~Holds(q, z)
    BY <2>1, <2>8
  <2> QED BY <1>2, <2>7, <2>10, <2>11, PassStep
<1>3. Abort(p) \/ (items[i].status # "gone" /\ passes' = [passes EXCEPT ![p] = new] /\ Others)
  BY DEF MarkProcessing, Current, Others
<1> QED BY <1>1, <1>2, <1>3

LEMMA LoadKeeps ==
  ASSUME QueueInv, NEW p \in Passes, Load(p)
  PROVE  QueueInv'
<1> DEFINE pass == passes[p]
           r == items[Head(pass.todo).id].record
           row == IF HoldsRow(p, r) THEN pass.ownRows[r] ELSE rows[r]
           new == [pass EXCEPT !.phase = "store", !.copy = row]
<1>1. passes' = [passes EXCEPT ![p] = new] /\ Others
  BY DEF Load, Current, Others
<1>2. /\ pass \in Pass /\ PassOK(pass) /\ pass.phase = "load" /\ pass.todo # <<>>
      /\ Head(pass.todo).id \in DOMAIN pass.ownItems
  BY DEF QueueInv, Types, PassesOK, PassOK, InHand, Load
<1>3. r \in Records
  <2>1. Head(pass.todo).id \in Ids
    BY <1>2 DEF PassOK
  <2> QED BY <2>1, ItemIs DEF QueueInv, Item
<1>4. /\ row \in Row \cup {NoRow}
      /\ row # NoRow => r \in DOMAIN pass.ownRows \/ rows[r] # NoRow
  <2>1. rows[r] \in Row \cup {NoRow}
    BY <1>3 DEF QueueInv, Types
  <2>2. r \in DOMAIN pass.ownRows => pass.ownRows[r] \in Row
    BY <1>2, PassIs
  <2> QED BY <2>1, <2>2 DEF HoldsRow
<1> HIDE DEF row, pass
<1>5. /\ new \in Pass /\ new.phase = "store" /\ new.todo = pass.todo
      /\ new.ownItems = pass.ownItems /\ new.ownRows = pass.ownRows
      /\ new.copy = row /\ new.did = pass.did
  BY <1>2, <1>4 DEF Pass
<1> HIDE DEF new
<1>6. PassOK(new)
  BY <1>2, <1>4, <1>5 DEF PassOK, InHand, Lists, Held, Did, Found
<1>7. DOMAIN new.ownItems = DOMAIN passes[p].ownItems
  BY <1>5 DEF pass
<1> QED BY <1>1, <1>5, <1>6, <1>7, PassStep

LEMMA StoredIs ==
  ASSUME NEW change \in Change, NEW copy \in Row \cup {NoRow}, NEW row \in Row \cup {NoRow},
         ~NothingToDelete(change, copy), copy # NoRow => row # NoRow
  PROVE  Stored(change, copy, row) \in Row
<1>1. CASE change = "delete"
  <2>1. row \in Row
    BY <1>1 DEF NothingToDelete
  <2>2. [row EXCEPT !.deleted = TRUE] \in Row
    BY <2>1 DEF Row
  <2> QED BY <1>1, <2>2 DEF Stored
<1>2. CASE change # "delete"
  <2>1. change \in Edits
    BY <1>2 DEF Change
  <2>2. (copy # NoRow /\ copy.deleted) \in BOOLEAN
    OBVIOUS
  <2> QED BY <1>2, <2>1, <2>2 DEF Stored, Row
<1> QED BY <1>1, <1>2

\* A pass that settles the item it has in hand.
LEMMA SettleKeeps ==
  ASSUME QueueInv, NEW p \in Passes, NEW mine \in Item, NEW own \in Partial(Records, Row), NEW did \in Done,
         passes[p].phase = "store", Settle(p, mine, own, did),
         DOMAIN passes[p].ownRows \subseteq DOMAIN own,
         LET i == Current(p).id
             held == passes[p].ownItems[i]
         IN  /\ mine.record = held.record /\ mine.change = held.change
             /\ \/ did = "refused" /\ mine.retries = held.retries + 1
                   /\ mine.status = IF mine.retries >= MaxRetries THEN "failed" ELSE "pending"
                \/ did = Current(p).change /\ mine.retries = held.retries /\ mine.status = "completed"
  PROVE  QueueInv'
<1> DEFINE pass == passes[p]
           i == Head(pass.todo).id
           items1 == With(pass.ownItems, i, mine)
           did1 == With(pass.did, i, did)
           new == [pass EXCEPT !.phase = "pick", !.todo = Tail(pass.todo), !.copy = NoRow,
                               !.ownItems = items1, !.ownRows = own, !.did = did1]
<1>1. passes' = [passes EXCEPT ![p] = new] /\ Others
  BY DEF Settle, Current, Others
<1>2. /\ pass \in Pass /\ PassOK(pass) /\ pass.phase = "store" /\ pass.todo # <<>>
      /\ i \in DOMAIN pass.ownItems
  BY DEF QueueInv, Types, PassesOK, PassOK, InHand
<1>3. /\ mine.record = pass.ownItems[i].record /\ mine.change = pass.ownItems[i].change
      /\ \/ did = "refused" /\ mine.retries = pass.ownItems[i].retries + 1
            /\ mine.status = IF mine.retries >= MaxRetries THEN "failed" ELSE "pending"
         \/ did = Head(pass.todo).change /\ mine.retries = pass.ownItems[i].retries
            /\ mine.status = "completed"
  BY DEF Current
<1>4. \A z \in DOMAIN new.ownItems : z = i \/ z \in DOMAIN pass.ownItems
  BY DEF With
<1> HIDE DEF pass
<1>5. /\ Head(pass.todo) = pass.todo[1] /\ 1 \in DOMAIN pass.todo /\ Head(pass.todo) \in Todo
      /\ Tail(pass.todo) \in Seq(Todo)
      /\ \A k \in DOMAIN Tail(pass.todo) :
           k + 1 \in DOMAIN pass.todo /\ Tail(pass.todo)[k] = pass.todo[k + 1]
  BY <1>2, PassIs, TailIs
<1>6. i \in Ids /\ i \in Nat /\ Lists(pass, 1) /\ Held(pass, i)
  BY <1>2, <1>5, ItemIs DEF PassOK, QueueInv
<1>7. pass.ownItems \in Partial(Nat, Item) /\ pass.did \in Partial(Nat, Done)
  BY <1>2, PassIs
<1>8. /\ items1 \in Partial(Nat, Item) /\ DOMAIN items1 = DOMAIN pass.ownItems \cup {i}
      /\ items1[i] = mine /\ \A z \in DOMAIN pass.ownItems \ {i} : items1[z] = pass.ownItems[z]
  <2>1. items1 \in Partial(Nat, Item)
    BY <1>6, <1>7, WithPartial, Zenon
  <2>2. Updates(items1, pass.ownItems, i, mine)
    BY WithUpdates, Zenon
  <2> HIDE DEF items1
  <2> QED BY <2>1, <2>2 DEF Updates
<1>9. /\ did1 \in Partial(Nat, Done) /\ DOMAIN did1 = DOMAIN pass.did \cup {i}
      /\ did1[i] = did /\ \A z \in DOMAIN pass.did \ {i} : did1[z] = pass.did[z]
  <2>1. did1 \in Partial(Nat, Done)
    BY <1>6, <1>7, WithPartial, Zenon
  <2>2. Updates(did1, pass.did, i, did)
    BY WithUpdates, Zenon
  <2> HIDE DEF did1
  <2> QED BY <2>1, <2>2 DEF Updates
<1> HIDE DEF items1, did1
<1>10. /\ new \in Pass /\ new.phase = "pick" /\ new.todo = Tail(pass.todo)
       /\ new.ownItems = items1 /\ new.ownRows = own /\ new.copy = NoRow /\ new.did = did1
  BY <1>2, <1>5, <1>8, <1>9 DEF Pass
<1> HIDE DEF new
<1>11. ASSUME NEW z \in DOMAIN items1
       PROVE  Held(new, z)
  <2>1. items[i] \in Item /\ pass.ownItems[i] \in Item
    BY <1>6, <1>2, PassIs, ItemIs DEF QueueInv
  <2>2. Head(pass.todo).change # "refused"
    BY <1>5, Words DEF Todo
  <2>3. CASE z = i
    <3>1. /\ items[i].status # "gone" /\ pass.ownItems[i].record = items[i].record
          /\ pass.ownItems[i].change = items[i].change
      BY <1>6 DEF Held
    <3>2. pass.ownItems[i].retries = items[i].retries
      BY <1>2, <1>6 DEF Held, InHand
    <3> QED BY <1>3, <1>8, <1>9, <1>10, <2>2, <2>3, <3>1, <3>2 DEF Held, InHand
  <2>4. CASE z # i
    <3>1. z \in DOMAIN pass.ownItems /\ Held(pass, z) /\ items1[z] = pass.ownItems[z]
      BY <1>2, <1>8, <1>11, <2>4 DEF PassOK
    <3>2. z \in DOMAIN pass.did => z \in DOMAIN did1 /\ did1[z] = pass.did[z]
      BY <1>9, <2>4
    <3> QED BY <1>10, <2>4, <3>1, <3>2 DEF Held, InHand
  <2> QED BY <2>3, <2>4
<1>12. \A k \in DOMAIN new.todo : Lists(new, k)
  <2>1. \A k \in DOMAIN pass.todo : Lists(pass, k)
    BY <1>2 DEF PassOK
  <2> QED BY <1>5, <1>10, <2>1 DEF Lists
<1>13. \A z \in DOMAIN new.did : Did(new, z)
  <2>1. \A z \in DOMAIN pass.did : Did(pass, z)
    BY <1>2 DEF PassOK
  <2>2. history[i].contested \/ Head(pass.todo).change = history[i].accepted
    BY <1>5, <1>6 DEF Lists, Held
  <2>3. Did(new, i)
    BY <1>3, <1>9, <1>10, <2>2 DEF Did
  <2> QED BY <1>9, <1>10, <2>1, <2>3 DEF Did
<1>14. PassOK(new)
  <2>1. DOMAIN pass.ownItems \subseteq Ids /\ DOMAIN pass.did \subseteq DOMAIN pass.ownItems
    BY <1>2 DEF PassOK
  <2> QED BY <1>2, <1>6, <1>8, <1>9, <1>10, <1>11, <1>12, <1>13, <2>1 DEF PassOK, InHand, Found
<1>15. \A z \in DOMAIN new.ownItems :
         z \in DOMAIN passes[p].ownItems \/ \A q \in Passes \ {p} : ~Holds(q, z)
  BY <1>2, <1>8, <1>10 DEF pass
<1> QED BY <1>1, <1>10, <1>14, <1>15, PassStep

LEMMA ApplyKeeps ==
  ASSUME QueueInv, NEW p \in Passes, Apply(p)
  PROVE  QueueInv'
<1> DEFINE pass == passes[p]
           i == Head(pass.todo).id
           r == items[i].record
           change == Head(pass.todo).change
           row == Over(pass.ownRows, rows)[r]
           mine == [pass.ownItems[i] EXCEPT !.status = "completed"]
           own == IF NothingToDelete(change, pass.copy) THEN pass.ownRows
                  ELSE With(pass.ownRows, r, Stored(change, pass.copy, row))
<1>1. pass.phase = "store" /\ Settle(p, mine, own, change)
  BY DEF Apply, Current
<1>2. /\ pass \in Pass /\ PassOK(pass) /\ pass.todo # <<>> /\ i \in DOMAIN pass.ownItems
  BY <1>1 DEF QueueInv, Types, PassesOK, PassOK, InHand
<1>3. i \in Ids /\ pass.ownItems[i] \in Item /\ r \in Records
  <2>1. i \in Ids
    BY <1>2 DEF PassOK
  <2>2. pass.ownItems[i] \in Item
    BY <1>2, PassIs
  <2> QED BY <2>1, <2>2, ItemIs DEF QueueInv, Item
<1>4. Head(pass.todo) \in Todo /\ change \in Change
  <2> HIDE DEF pass
  <2>1. Head(pass.todo) \in Todo
    BY <1>2, PassIs, TailIs
  <2> QED BY <2>1 DEF Todo
<1>5. /\ mine \in Item /\ mine.record = pass.ownItems[i].record /\ mine.change = pass.ownItems[i].change
      /\ mine.retries = pass.ownItems[i].retries /\ mine.status = "completed"
  BY <1>3 DEF Item
<1>6. own \in Partial(Records, Row) /\ DOMAIN pass.ownRows \subseteq DOMAIN own
  <2>1. pass.ownRows \in Partial(Records, Row) /\ pass.copy \in Row \cup {NoRow}
        /\ \A x \in DOMAIN pass.ownRows : pass.ownRows[x] \in Row
    BY <1>2, PassIs
  <2>2. CASE NothingToDelete(change, pass.copy)
    BY <2>1, <2>2
  <2>3. CASE ~NothingToDelete(change, pass.copy)
    <3>1. rows \in [Records -> Row \cup {NoRow}]
      BY DEF QueueInv, Types
    <3>2. row = IF r \in DOMAIN pass.ownRows THEN pass.ownRows[r] ELSE rows[r]
      BY <1>3, <3>1 DEF Over
    <3>3. pass.copy # NoRow => r \in DOMAIN pass.ownRows \/ rows[r] # NoRow
      BY <1>1, <1>2 DEF PassOK, Found
    <3>4. row \in Row \cup {NoRow} /\ (pass.copy # NoRow => row # NoRow)
      BY <1>3, <2>1, <3>1, <3>2, <3>3, Words
    <3> HIDE DEF row, change, r
    <3>5. Stored(change, pass.copy, row) \in Row
      BY <1>4, <2>1, <2>3, <3>4, StoredIs
    <3>6. With(pass.ownRows, r, Stored(change, pass.copy, row)) \in Partial(Records, Row)
      BY <1>3, <2>1, <3>5, WithPartial, Zenon
    <3>7. Updates(With(pass.ownRows, r, Stored(change, pass.copy, row)), pass.ownRows, r,
                  Stored(change, pass.copy, row))
      BY WithUpdates, Zenon
    <3> QED BY <2>3, <3>6, <3>7 DEF Updates
  <2> QED BY <2>2, <2>3
<1>7. Current(p) = Head(pass.todo)
  BY DEF Current
<1> HIDE DEF own, mine
<1> QED BY <1>1, <1>4, <1>5, <1>6, <1>7, SettleKeeps DEF Done

LEMMA RefuseKeeps ==
  ASSUME QueueInv, NEW p \in Passes, Refuse(p)
  PROVE  QueueInv'
<1> DEFINE pass == passes[p]
           held == pass.ownItems[Current(p).id]
           mine == Refused(held)
<1>1. pass.phase = "store" /\ Settle(p, mine, pass.ownRows, "refused")
  BY DEF Refuse
<1>2. held \in Item
  <2>1. pass \in Pass /\ Current(p).id \in DOMAIN pass.ownItems
    BY <1>1 DEF QueueInv, Types, PassesOK, PassOK, InHand, Current
  <2> QED BY <2>1, PassIs
<1>3. pass.ownRows \in Partial(Records, Row)
  BY PassIs DEF QueueInv, Types
<1>4. /\ mine \in Item /\ mine.record = held.record /\ mine.change = held.change
      /\ mine.retries = held.retries + 1
      /\ mine.status = IF mine.retries >= MaxRetries THEN "failed" ELSE "pending"
  <2> HIDE DEF held
  <2>1. held.retries + 1 \in Nat
    BY <1>2 DEF Item
  <2> QED BY <1>2, <2>1 DEF Refused, Item
<1> HIDE DEF mine
<1> QED BY <1>1, <1>3, <1>4, SettleKeeps DEF Done

(***************************************************************************)
(* What a pass has to be told of a step of somebody else.                  *)
(***************************************************************************)
LEMMA PassKept ==
  ASSUME NEW pass \in Pass, PassOK(pass),
         \A i \in Ids : i \in Ids' /\ items'[i].record = items[i].record,
         \A i \in DOMAIN pass.ownItems : items'[i] = items[i] /\ history'[i] = history[i],
         \A k \in DOMAIN pass.todo :
           LET i == pass.todo[k].id
           IN  \/ items'[i].status = "gone" \/ history'[i].contested
               \/ /\ items[i].status # "gone" /\ ~history[i].contested
                  /\ history'[i].accepted = history[i].accepted,
         \A r \in Records : rows[r] # NoRow => rows'[r] # NoRow, Types
  PROVE  PassOK(pass)'
<1>1. /\ pass.phase \in {"lock", "load", "store"} => pass.todo # <<>>
      /\ pass.phase = "idle" => pass = Idle
      /\ InHand(pass) => Head(pass.todo).id \in DOMAIN pass.ownItems
      /\ DOMAIN pass.ownItems \subseteq Ids
      /\ DOMAIN pass.did \subseteq DOMAIN pass.ownItems
  BY DEF PassOK
<1>2. DOMAIN pass.ownItems \subseteq Ids'
  BY <1>1
<1>3. \A k \in DOMAIN pass.todo : Lists(pass, k)'
  <2>1. \A k \in DOMAIN pass.todo : Lists(pass, k)
    BY DEF PassOK
  <2> QED BY <2>1 DEF Lists
<1>4. \A i \in DOMAIN pass.ownItems : Held(pass, i)'
  <2>1. \A i \in DOMAIN pass.ownItems : Held(pass, i)
    BY DEF PassOK
  <2> QED BY <2>1 DEF Held, InHand
<1>5. \A i \in DOMAIN pass.did : Did(pass, i)'
  <2>1. \A i \in DOMAIN pass.did : Did(pass, i)
    BY DEF PassOK
  <2> QED BY <1>1, <2>1 DEF Did
<1>6. Found(pass)'
  <2>1. ASSUME pass.phase = "store"
        PROVE  items'[Head(pass.todo).id].record = items[Head(pass.todo).id].record
               /\ items[Head(pass.todo).id].record \in Records
    <3>1. Head(pass.todo).id \in Ids
      BY <1>1, <2>1 DEF InHand
    <3>2. items[Head(pass.todo).id] \in Item
      BY <3>1, ItemIs
    <3> QED BY <3>1, <3>2 DEF Item
  <2> QED BY <2>1 DEF PassOK, Found
<1> QED BY <1>1, <1>2, <1>3, <1>4, <1>5, <1>6 DEF PassOK, InHand

LEMMA CommitKeeps ==
  ASSUME QueueInv, NEW p \in Passes, Commit(p)
  PROVE  QueueInv'
<1> DEFINE pass == passes[p]
           own == pass.ownItems
           did == pass.did
<1>1. /\ pass \in Pass /\ PassOK(pass) /\ pass.phase = "pick" /\ DOMAIN items = Ids
      /\ rows \in [Records -> Row \cup {NoRow}] /\ Types
      /\ passes' = [passes EXCEPT ![p] = Idle] /\ calls' = calls
  BY DEF QueueInv, Types, PassesOK, Commit, Ids
<1>2. DOMAIN own = DOMAIN did /\ DOMAIN own \subseteq Ids
  BY <1>1 DEF PassOK, Held, InHand
<1>3. /\ items' = [i \in Ids |-> IF i \in DOMAIN own THEN own[i] ELSE items[i]]
      /\ rows' = [r \in Records |-> IF r \in DOMAIN pass.ownRows THEN pass.ownRows[r] ELSE rows[r]]
      /\ history' = [i \in Ids |->
           IF i \notin DOMAIN did THEN history[i]
           ELSE IF did[i] = "refused"
                THEN [history[i] EXCEPT !.refused = Min({history[i].refused + 1, MaxRetries})]
                ELSE [history[i] EXCEPT !.applied = did[i]]]
  <2>1. DOMAIN rows = Records
    BY <1>1
  <2> QED BY <1>1, <2>1, OverIs DEF Commit
<1>4. \A q \in Passes \ {p} : passes'[q] = passes[q] /\ DOMAIN passes[q].ownItems \cap DOMAIN own = {}
  BY <1>1 DEF QueueInv, Types, Exclusive
<1>5. /\ \A i \in DOMAIN own : Held(pass, i) /\ own[i] \in Item
      /\ \A i \in DOMAIN did : Did(pass, i) /\ did[i] \in Done
      /\ \A r \in DOMAIN pass.ownRows : pass.ownRows[r] \in Row
  BY <1>1, PassIs DEF PassOK
<1>6. ~InHand(pass)
  BY <1>1 DEF InHand
<1> HIDE DEF pass, own, did
<1>7. ASSUME NEW i \in Ids
      PROVE  /\ items'[i] \in Item /\ history'[i] \in Past
             /\ items'[i].record = items[i].record
             /\ history'[i].accepted = history[i].accepted
             /\ history'[i].contested = history[i].contested
             /\ items'[i].status = "gone" <=> items[i].status = "gone"
             /\ Settled(items'[i], history'[i])
             /\ i \notin DOMAIN own => items'[i] = items[i] /\ history'[i] = history[i]
  <2>1. items[i] \in Item /\ history[i] \in Past /\ Settled(items[i], history[i])
    BY <1>1, ItemIs DEF QueueInv, Ledger
  <2>2. MaxRetries \in Nat \ {0} /\ history[i].refused \in Nat
    BY <2>1, Words DEF Past
  <2>3. CASE i \notin DOMAIN own
    BY <1>2, <1>3, <2>1, <2>3
  <2>4. CASE i \in DOMAIN own /\ did[i] = "refused"
    <3> DEFINE least == Min({history[i].refused + 1, MaxRetries})
    <3>1. least = IF history[i].refused + 1 <= MaxRetries THEN history[i].refused + 1 ELSE MaxRetries
      BY <2>2, MinOfTwo
    <3>2. least \in Nat
      BY <2>2, <3>1
    <3>3. items'[i] = own[i] /\ history'[i] = [history[i] EXCEPT !.refused = least]
      BY <1>2, <1>3, <2>4
    <3> HIDE DEF least
    <3>4. /\ history'[i] \in Past /\ history'[i].accepted = history[i].accepted
          /\ history'[i].contested = history[i].contested
          /\ history'[i].applied = history[i].applied /\ history'[i].refused = least
      BY <2>1, <3>2, <3>3 DEF Past
    <3>5. /\ own[i] \in Item /\ own[i].record = items[i].record /\ own[i].change = items[i].change
          /\ own[i].retries = items[i].retries + 1 /\ items[i].status # "gone"
          /\ own[i].status = IF own[i].retries >= MaxRetries THEN "failed" ELSE "pending"
      BY <1>5, <1>6, <2>4 DEF Held, own, did
    <3>6. items[i].retries \in Nat /\ (items[i].retries <= history[i].refused \/ history[i].refused >= MaxRetries)
          /\ items[i].change = history[i].accepted
      BY <2>1 DEF Item, Settled
    <3>7. own[i].retries <= least \/ least >= MaxRetries
      BY <2>2, <3>1, <3>5, <3>6
    <3>8. own[i].retries >= MaxRetries => least >= MaxRetries
      BY <2>2, <3>1, <3>5, <3>6
    <3>9. Settled(items'[i], history'[i])
      BY <3>3, <3>4, <3>5, <3>6, <3>7, <3>8 DEF Settled
    <3> QED BY <2>4, <3>3, <3>4, <3>5, <3>9
  <2>5. CASE i \in DOMAIN own /\ did[i] # "refused"
    <3>1. items'[i] = own[i] /\ history'[i] = [history[i] EXCEPT !.applied = did[i]]
      BY <1>2, <1>3, <2>5
    <3>2. did[i] \in Change /\ did[i] # "none"
      BY <1>2, <1>5, <2>5, Words DEF Done
    <3>3. /\ history'[i] \in Past /\ history'[i].accepted = history[i].accepted
          /\ history'[i].contested = history[i].contested
          /\ history'[i].applied = did[i] /\ history'[i].refused = history[i].refused
      BY <2>1, <3>1, <3>2 DEF Past
    <3>4. /\ own[i] \in Item /\ own[i].record = items[i].record /\ own[i].change = items[i].change
          /\ own[i].retries = items[i].retries /\ items[i].status # "gone" /\ own[i].status = "completed"
      BY <1>5, <1>6, <2>5 DEF Held, own, did
    <3>5. history[i].contested \/ did[i] = history[i].accepted
      BY <1>2, <1>5, <2>5 DEF Did, did
    <3>6. Settled(items'[i], history'[i])
      BY <2>1, <3>1, <3>2, <3>3, <3>4, <3>5 DEF Settled
    <3> QED BY <2>5, <3>1, <3>3, <3>4, <3>6
  <2> QED BY <2>3, <2>4, <2>5
<1>8. Len(items) \in Nat /\ Ids = 1 .. Len(items)
  BY <1>1, SequenceIs DEF Types, Ids
<1>9. items' \in Seq(Item) /\ history' \in Seq(Past) /\ Len(items') = Len(items)
      /\ Len(history') = Len(items)
  <2>1. items' \in [1 .. Len(items) -> Item] /\ history' \in [1 .. Len(items) -> Past]
    BY <1>3, <1>7, <1>8
  <2> QED BY <1>8, <2>1, IsSequence
<1>10. Ids' = Ids
  BY <1>3 DEF Ids
<1>11. rows' \in [Records -> Row \cup {NoRow}] /\ \A r \in Records : rows[r] # NoRow => rows'[r] # NoRow
  BY <1>1, <1>3, <1>5, Words
<1>12. passes' \in [Passes -> Pass] /\ passes'[p] = Idle
  BY <1>1, IdleIs DEF Types
<1>13. Types'
  BY <1>1, <1>9, <1>11, <1>12 DEF Types
<1>14. Room'
  BY <1>1, <1>9, <1>10 DEF QueueInv, Room, Creating, Creates
<1>15. Ledger'
  BY <1>7, <1>10 DEF Ledger
<1>16. ASSUME NEW q \in Passes, NEW other \in Pass, passes'[q] = other
       PROVE  PassOK(other)'
  <2>1. CASE q = p
    <3>1. other = Idle
      BY <1>12, <1>16, <2>1
    <3> QED BY <1>16, <3>1, IdleAlways
  <2>2. CASE q # p
    <3>1. passes[q] = other /\ DOMAIN other.ownItems \cap DOMAIN own = {}
      BY <1>4, <1>16, <2>2
    <3>2. PassOK(other)
      BY <3>1 DEF QueueInv, PassesOK
    <3>3. \A i \in DOMAIN other.ownItems : items'[i] = items[i] /\ history'[i] = history[i]
      BY <1>7, <3>1, <3>2 DEF PassOK
    <3>4. \A k \in DOMAIN other.todo :
            LET i == other.todo[k].id
            IN  \/ items'[i].status = "gone" \/ history'[i].contested
                \/ /\ items[i].status # "gone" /\ ~history[i].contested
                   /\ history'[i].accepted = history[i].accepted
      <4>1. \A k \in DOMAIN other.todo : other.todo[k].id \in Ids
        BY <3>2 DEF PassOK, Lists
      <4> QED BY <1>7, <4>1
    <3>5. \A i \in Ids : i \in Ids' /\ items'[i].record = items[i].record
      BY <1>7, <1>10
    <3> QED BY <1>1, <1>11, <3>2, <3>3, <3>4, <3>5, PassKept
  <2> QED BY <2>1, <2>2
<1>17. PassesOK'
  BY <1>16 DEF PassesOK
<1>18. Exclusive'
  <2>1. DOMAIN Idle.ownItems = {}
    BY IdleIs, PartialNothing
  <2> QED BY <1>4, <1>12, <2>1 DEF QueueInv, Exclusive
<1> QED BY <1>13, <1>14, <1>15, <1>17, <1>18 DEF QueueInv

(***************************************************************************)
(* Enqueueing.                                                             *)
(***************************************************************************)
LEMMA CreatingIs ==
  IsFiniteSet(Creating) /\ Cardinality(Creating) \in Nat
<1>1. Creating \subseteq Phones
  BY DEF Creating
<1> QED BY <1>1, Words, FS_Subset, FS_CardinalityType

\* A call that is neither about to create an item nor has been changes nothing in that.
LEMMA CallStep ==
  ASSUME QueueInv, NEW c \in Phones, NEW call \in Call \cup {NoCall},
         calls' = [calls EXCEPT ![c] = call], UNCHANGED <<items, rows, passes, history>>,
         call # NoCall => call.item \in {0} \cup Ids,
         call # NoCall /\ call.item = 0 =>
           calls[c] = NoCall /\ Len(items) + Cardinality(Creating) < MaxItems
  PROVE  QueueInv'
<1>1. items' = items /\ rows' = rows /\ passes' = passes /\ history' = history
  OBVIOUS
<1>2. calls' \in [Phones -> Call \cup {NoCall}] /\ calls'[c] = call
      /\ \A d \in Phones \ {c} : calls'[d] = calls[d]
  BY DEF QueueInv, Types
<1>3. Types'
  BY <1>1, <1>2 DEF QueueInv, Types
<1>4. \A pass \in Pass : PassOK(pass) => PassOK(pass)'
  BY <1>1 DEF PassOK, Lists, Held, Did, Found, Ids
<1>5. PassesOK'
  BY <1>1, <1>4 DEF QueueInv, PassesOK
<1>6. Exclusive' /\ Ledger'
  BY <1>1 DEF QueueInv, Exclusive, Ledger, Ids
<1>7. \A d \in Phones \ {c} : Creates(d)' <=> Creates(d)
  BY <1>2 DEF Creates
<1>8. Creates(c)' <=> call # NoCall /\ call.item = 0
  BY <1>2 DEF Creates
<1>9. Len(items) \in Nat /\ MaxItems \in Nat /\ Len(items) + Cardinality(Creating) <= MaxItems
  BY Words, SequenceIs DEF QueueInv, Types, Room
<1>10. Len(items) + Cardinality(Creating') <= MaxItems
  <2>1. CASE Creates(c)'
    <3>1. c \notin Creating /\ Len(items) + Cardinality(Creating) < MaxItems
      BY <1>8, <2>1 DEF Creating, Creates
    <3>2. Creating' = Creating \cup {c}
      BY <1>7, <2>1 DEF Creating
    <3>3. Cardinality(Creating \cup {c}) = Cardinality(Creating) + 1
      BY <3>1, CreatingIs, FS_AddElement
    <3> QED BY <1>9, <3>1, <3>2, <3>3, CreatingIs
  <2>2. CASE ~Creates(c)'
    <3>1. Creating' \subseteq Creating
      BY <1>7, <2>2 DEF Creating
    <3>2. Cardinality(Creating') <= Cardinality(Creating) /\ Cardinality(Creating') \in Nat
      BY <3>1, CreatingIs, FS_Subset, FS_CardinalityType
    <3> QED BY <1>9, <3>2, CreatingIs
  <2> QED BY <2>1, <2>2
<1>11. Room'
  <2>1. \A d \in Phones : calls'[d] # NoCall => calls'[d].item \in {0} \cup Ids
    BY <1>2 DEF QueueInv, Room
  <2> QED BY <1>1, <1>10, <2>1 DEF Room, Ids
<1> QED BY <1>3, <1>5, <1>6, <1>11 DEF QueueInv

LEMMA FindKeeps ==
  ASSUME QueueInv, NEW c \in Phones, NEW r \in Records, NEW change \in Change, Find(c, r, change)
  PROVE  QueueInv'
<1>1. PICK i \in Oldest(r) : calls' = [calls EXCEPT ![c] = [record |-> r, change |-> change, item |-> i]]
  BY DEF Find
<1> DEFINE call == [record |-> r, change |-> change, item |-> i]
<1>2. Ids = 1 .. Len(items) /\ Len(items) \in Nat
  BY SequenceIs DEF QueueInv, Types, Ids
<1>3. i \in {0} \cup Ids /\ i \in Nat /\ (i = 0 => Waiting(r) = {})
  BY <1>1, <1>2 DEF Oldest, Waiting
<1>4. call \in Call /\ call.item = i
  BY <1>3 DEF Call
<1>5. calls[c] = NoCall /\ (i = 0 => Len(items) + Cardinality(Creating) < MaxItems)
  BY <1>3 DEF Find, Creating
<1> HIDE DEF call
<1>6. calls' = [calls EXCEPT ![c] = call] /\ UNCHANGED <<items, rows, passes, history>>
  BY <1>1 DEF Find, call
<1> QED BY <1>3, <1>4, <1>5, <1>6, CallStep

LEMMA RefuseEnqueueKeeps ==
  ASSUME QueueInv, NEW c \in Phones, RefuseEnqueue(c)
  PROVE  QueueInv'
<1>1. calls' = [calls EXCEPT ![c] = NoCall] /\ UNCHANGED <<items, rows, passes, history>>
  BY DEF RefuseEnqueue
<1> QED BY <1>1, CallStep

LEMMA CreateKeeps ==
  ASSUME QueueInv, NEW c \in Phones, Create(c)
  PROVE  QueueInv'
<1> DEFINE n == Len(items)
           call == calls[c]
           item == [record |-> call.record, change |-> call.change, retries |-> 0, status |-> "pending"]
           past == NewPast(call.change)
<1>1. /\ n \in Nat /\ Len(history) = n /\ Ids = 1 .. n
      /\ items \in Seq(Item) /\ history \in Seq(Past) /\ Types
  BY SequenceIs DEF QueueInv, Types, Ids
<1>2. call \in Call /\ call.record \in Records /\ call.change \in Change
  <2>1. call \in Call
    BY DEF QueueInv, Types, Create, Creates
  <2> QED BY <2>1 DEF Call
<1>3. item \in Item /\ past \in Past /\ Settled(item, past)
  <2>1. item \in Item
    BY <1>2 DEF Item
  <2>2. past \in Past
    BY <1>2 DEF NewPast, Past
  <2>3. Settled(item, past)
    BY DEF NewPast, Settled
  <2> QED BY <2>1, <2>2, <2>3
<1>4. /\ items' = Append(items, item) /\ history' = Append(history, past)
      /\ calls' = [calls EXCEPT ![c] = NoCall] /\ rows' = rows /\ passes' = passes /\ Creates(c)
  BY DEF Create
<1> HIDE DEF item, past
<1>5. /\ items' \in Seq(Item) /\ Len(items') = n + 1 /\ items'[n + 1] = item
      /\ \A i \in 1 .. n : items'[i] = items[i]
  BY <1>1, <1>3, <1>4
<1>6. /\ history' \in Seq(Past) /\ Len(history') = n + 1 /\ history'[n + 1] = past
      /\ \A i \in 1 .. n : history'[i] = history[i]
  BY <1>1, <1>3, <1>4
<1>7. Ids' = 1 .. n + 1
  BY <1>5, SequenceIs DEF Ids
<1>8. Types'
  BY <1>1, <1>4, <1>5, <1>6 DEF Types
<1>9. Ledger'
  <2>1. \A i \in 1 .. n : Settled(items'[i], history'[i])
    BY <1>1, <1>5, <1>6 DEF QueueInv, Ledger
  <2>2. \A i \in Ids' : i \in 1 .. n \/ i = n + 1
    BY <1>1, <1>7
  <2> QED BY <1>3, <1>5, <1>6, <2>1, <2>2 DEF Ledger
<1>10. ASSUME NEW pass \in Pass, PassOK(pass)
       PROVE  PassOK(pass)'
  <2>1. \A i \in Ids : i \in Ids' /\ items'[i].record = items[i].record
    BY <1>1, <1>5, <1>7
  <2>2. \A i \in DOMAIN pass.ownItems : items'[i] = items[i] /\ history'[i] = history[i]
    BY <1>1, <1>5, <1>6, <1>10 DEF PassOK
  <2>3. \A k \in DOMAIN pass.todo :
          LET i == pass.todo[k].id
          IN  \/ items'[i].status = "gone" \/ history'[i].contested
              \/ /\ items[i].status # "gone" /\ ~history[i].contested
                 /\ history'[i].accepted = history[i].accepted
    <3>1. \A k \in DOMAIN pass.todo : pass.todo[k].id \in 1 .. n
      BY <1>1, <1>10 DEF PassOK, Lists
    <3>2. \A i \in 1 .. n : items'[i] = items[i] /\ history'[i] = history[i] /\ history[i] \in Past
      BY <1>1, <1>5, <1>6
    <3> QED BY <3>1, <3>2 DEF Past
  <2> QED BY <1>1, <1>4, <1>10, <2>1, <2>2, <2>3, PassKept
<1>11. PassesOK' /\ Exclusive'
  BY <1>4, <1>10 DEF QueueInv, PassesOK, Exclusive
<1>12. Room'
  <2>1. calls'[c] = NoCall /\ \A d \in Phones \ {c} : calls'[d] = calls[d]
    BY <1>1, <1>4 DEF Types
  <2>2. Creating' = Creating \ {c} /\ c \in Creating
    BY <1>4, <2>1 DEF Creating, Creates
  <2>3. Cardinality(Creating') = Cardinality(Creating) - 1
    BY <2>2, CreatingIs, FS_RemoveElement
  <2>4. n + 1 + Cardinality(Creating') <= MaxItems
    BY <1>1, <2>3, CreatingIs, Words DEF QueueInv, Room
  <2>5. \A d \in Phones : calls'[d] # NoCall => calls'[d].item \in {0} \cup Ids'
    BY <1>1, <1>7, <2>1 DEF QueueInv, Room
  <2> QED BY <1>5, <2>4, <2>5 DEF Room
<1> QED BY <1>8, <1>9, <1>11, <1>12 DEF QueueInv

(***************************************************************************)
(* Replacing and deleting items, which waits for the passes that hold them. *)
(***************************************************************************)
Unlisted(i) == \A q \in Passes : \A k \in DOMAIN passes[q].todo : passes[q].todo[k].id # i

LEMMA ItemsStep ==
  ASSUME QueueInv, items' \in Seq(Item), history' \in Seq(Past),
         Len(items') = Len(items), Len(history') = Len(items),
         rows' = rows, passes' = passes, calls' \in [Phones -> Call \cup {NoCall}],
         \A d \in Phones : calls'[d] = calls[d] \/ (calls'[d] = NoCall /\ ~Creates(d)),
         \A i \in Ids : \/ items'[i] = items[i] /\ history'[i] = history[i]
                        \/ /\ items'[i].record = items[i].record
                           /\ Settled(items'[i], history'[i])
                           /\ \A q \in Passes : ~Holds(q, i)
                           /\ items'[i].status = "gone" \/ history'[i].contested \/ Unlisted(i)
  PROVE  QueueInv'
<1>1. Types /\ Ids = 1 .. Len(items) /\ Ids' = Ids
  BY SequenceIs DEF QueueInv, Types, Ids
<1>2. Types'
  BY <1>1 DEF Types
<1>3. Ledger'
  BY <1>1 DEF QueueInv, Ledger
<1>4. ASSUME NEW q \in Passes, NEW pass \in Pass, passes'[q] = pass
      PROVE  PassOK(pass)'
  <2>1. passes[q] = pass /\ PassOK(pass)
    BY <1>4 DEF QueueInv, PassesOK
  <2>2. \A i \in Ids : i \in Ids' /\ items'[i].record = items[i].record
    BY <1>1
  <2>3. ASSUME NEW i \in DOMAIN pass.ownItems
        PROVE  items'[i] = items[i] /\ history'[i] = history[i]
    <3>1. i \in Ids /\ Holds(q, i)
      BY <2>1, <2>3 DEF PassOK, Holds
    <3> QED BY <3>1
  <2>4. ASSUME NEW k \in DOMAIN pass.todo, NEW i, i = pass.todo[k].id
        PROVE  \/ items'[i].status = "gone" \/ history'[i].contested
               \/ /\ items[i].status # "gone" /\ ~history[i].contested
                  /\ history'[i].accepted = history[i].accepted
    <3>1. i \in Ids /\ ~Unlisted(i)
      BY <2>1, <2>4 DEF PassOK, Lists, Unlisted
    <3>2. CASE items'[i] = items[i] /\ history'[i] = history[i]
      <4>1. history[i].contested \in BOOLEAN
        BY <1>1, <3>1, ItemIs DEF Past
      <4> QED BY <3>2, <4>1
    <3>3. CASE ~(items'[i] = items[i] /\ history'[i] = history[i])
      BY <3>1, <3>3
    <3> QED BY <3>2, <3>3
  <2>5. \A k \in DOMAIN pass.todo :
          LET i == pass.todo[k].id
          IN  \/ items'[i].status = "gone" \/ history'[i].contested
              \/ /\ items[i].status # "gone" /\ ~history[i].contested
                 /\ history'[i].accepted = history[i].accepted
    BY <2>4
  <2> QED BY <1>1, <2>1, <2>2, <2>3, <2>5, PassKept
<1>5. PassesOK' /\ Exclusive'
  BY <1>4 DEF QueueInv, PassesOK, Exclusive
<1>6. Room'
  <2>1. Creating' \subseteq Creating
    BY DEF Creating, Creates
  <2>2. Cardinality(Creating') <= Cardinality(Creating) /\ Cardinality(Creating') \in Nat
    BY <2>1, CreatingIs, FS_Subset, FS_CardinalityType
  <2>3. Len(items) \in Nat /\ MaxItems \in Nat /\ Len(items) + Cardinality(Creating) <= MaxItems
    BY Words, SequenceIs DEF QueueInv, Types, Room
  <2>4. Len(items') + Cardinality(Creating') <= MaxItems
    BY <2>2, <2>3, CreatingIs
  <2> QED BY <1>1, <2>4 DEF QueueInv, Room
<1> QED BY <1>2, <1>3, <1>5, <1>6 DEF QueueInv

LEMMA ReplaceKeeps ==
  ASSUME QueueInv, NEW c \in Phones, Replace(c)
  PROVE  QueueInv'
<1> DEFINE call == calls[c]
           i == call.item
           late == items[i].status # "pending" \/ Listed(i)
<1>1. /\ call # NoCall /\ i # 0 /\ items[i].status # "gone"
      /\ \A p \in Passes : ~Holds(p, i)
      /\ items' = [items EXCEPT ![i].change = call.change]
      /\ history' = [history EXCEPT ![i].accepted = call.change, ![i].contested = late]
      /\ calls' = [calls EXCEPT ![c] = NoCall]
      /\ rows' = rows /\ passes' = passes
  BY DEF Replace
<1>2. /\ i \in Ids /\ call.change \in Change /\ Types
      /\ calls \in [Phones -> Call \cup {NoCall}]
  BY <1>1 DEF QueueInv, Room, Types, Call
<1>3. /\ items[i] \in Item /\ history[i] \in Past /\ Settled(items[i], history[i])
      /\ DOMAIN items = Ids /\ DOMAIN history = Ids
      /\ items \in Seq(Item) /\ history \in Seq(Past) /\ Len(history) = Len(items)
  BY <1>2, ItemIs DEF QueueInv, Ledger, Ids, Types
<1>4. late \in BOOLEAN
  OBVIOUS
<1> DEFINE item == [items[i] EXCEPT !.change = call.change]
           past == [history[i] EXCEPT !.accepted = call.change, !.contested = late]
<1>5. items' = [items EXCEPT ![i] = item] /\ history' = [history EXCEPT ![i] = past]
  BY <1>1, <1>2, <1>3
<1>6. late \/ (items[i].status = "pending" /\ Unlisted(i))
  BY DEF Listed, Unlisted
<1>7. ~Creates(c)
  BY <1>1 DEF Creates
<1> HIDE DEF late, call
<1>8. /\ item \in Item /\ item.record = items[i].record /\ item.change = call.change
      /\ item.retries = items[i].retries /\ item.status = items[i].status
  BY <1>2, <1>3 DEF Item
<1>9. /\ past \in Past /\ past.accepted = call.change /\ past.contested = late
      /\ past.applied = history[i].applied /\ past.refused = history[i].refused
  BY <1>2, <1>3, <1>4 DEF Past
<1> HIDE DEF item, past
<1>10. Settled(item, past)
  BY <1>3, <1>4, <1>6, <1>8, <1>9 DEF Settled
<1>11. items' \in Seq(Item) /\ Len(items') = Len(items) /\ items'[i] = item
       /\ \A j \in Ids \ {i} : items'[j] = items[j]
  BY <1>2, <1>3, <1>5, <1>8
<1>12. history' \in Seq(Past) /\ Len(history') = Len(items) /\ history'[i] = past
       /\ \A j \in Ids \ {i} : history'[j] = history[j]
  BY <1>2, <1>3, <1>5, <1>9
<1>13. calls' \in [Phones -> Call \cup {NoCall}] /\ calls'[c] = NoCall
       /\ \A d \in Phones \ {c} : calls'[d] = calls[d]
  BY <1>1, <1>2
<1>14. \A d \in Phones : calls'[d] = calls[d] \/ (calls'[d] = NoCall /\ ~Creates(d))
  BY <1>7, <1>13
<1>15. history'[i].contested \/ Unlisted(i)
  BY <1>6, <1>9, <1>12
<1>16. items'[i].record = items[i].record
  BY <1>8, <1>11
<1>17. \A j \in Ids : \/ items'[j] = items[j] /\ history'[j] = history[j]
                      \/ /\ items'[j].record = items[j].record
                         /\ Settled(items'[j], history'[j])
                         /\ \A q \in Passes : ~Holds(q, j)
                         /\ items'[j].status = "gone" \/ history'[j].contested \/ Unlisted(j)
  BY <1>1, <1>10, <1>11, <1>12, <1>15, <1>16
<1> QED BY <1>1, <1>11, <1>12, <1>13, <1>14, <1>17, ItemsStep

LEMMA EraseKeeps ==
  ASSUME QueueInv, NEW removed, Erase(removed), UNCHANGED <<rows, calls, passes>>,
         \A q \in Passes, i \in removed : ~Holds(q, i)
  PROVE  QueueInv'
<1>1. /\ items' = [i \in Ids |-> IF i \in removed THEN Gone(items[i]) ELSE items[i]]
      /\ history' = [i \in Ids |-> IF i \in removed THEN NewPast("delete") ELSE history[i]]
  BY DEF Erase
<1>2. Ids = 1 .. Len(items) /\ Len(items) \in Nat /\ Types
  BY SequenceIs DEF QueueInv, Types, Ids
<1>3. \A i \in Ids : items[i] \in Item /\ history[i] \in Past
  BY <1>2, ItemIs
<1>4. ASSUME NEW i \in Ids
      PROVE  /\ Gone(items[i]) \in Item /\ Gone(items[i]).record = items[i].record
             /\ Gone(items[i]).status = "gone" /\ Settled(Gone(items[i]), NewPast("delete"))
  <2>1. /\ Gone(items[i]) \in Item /\ Gone(items[i]).record = items[i].record
        /\ Gone(items[i]).status = "gone" /\ Gone(items[i]).change = "delete"
        /\ Gone(items[i]).retries = 0
    BY <1>3, Words DEF Gone, Item
  <2>2. NewPast("delete").accepted = "delete" /\ NewPast("delete").refused = 0
    BY DEF NewPast
  <2> QED BY <2>1, <2>2 DEF Settled
<1>5. NewPast("delete") \in Past
  BY Words DEF NewPast, Past
<1>6. items' \in [1 .. Len(items) -> Item] /\ history' \in [1 .. Len(items) -> Past]
  BY <1>1, <1>2, <1>3, <1>4, <1>5
<1>7. items' \in Seq(Item) /\ history' \in Seq(Past) /\ Len(items') = Len(items)
      /\ Len(history') = Len(items)
  BY <1>2, <1>6, IsSequence
<1>8. \A i \in Ids : \/ items'[i] = items[i] /\ history'[i] = history[i]
                     \/ /\ items'[i].record = items[i].record
                        /\ Settled(items'[i], history'[i])
                        /\ \A q \in Passes : ~Holds(q, i)
                        /\ items'[i].status = "gone" \/ history'[i].contested \/ Unlisted(i)
  BY <1>1, <1>4
<1>9. calls' \in [Phones -> Call \cup {NoCall}] /\ \A d \in Phones : calls'[d] = calls[d]
  BY <1>2 DEF Types
<1> QED BY <1>7, <1>8, <1>9, ItemsStep

LEMMA ClearEntityKeeps ==
  ASSUME QueueInv, NEW records, ClearEntity(records)
  PROVE  QueueInv'
BY EraseKeeps DEF ClearEntity

LEMMA CleanUpKeeps ==
  ASSUME QueueInv, NEW i \in Ids, CleanUp(i)
  PROVE  QueueInv'
<1>1. \A q \in Passes : ~Holds(q, i)
  <2>1. ASSUME NEW q \in Passes
        PROVE  passes[q] = Idle
    BY DEF CleanUp, Active, QueueInv, Types, PassesOK, PassOK
  <2>2. DOMAIN Idle.ownItems = {}
    BY IdleIs, PartialNothing
  <2> QED BY <2>1, <2>2 DEF Holds
<1> QED BY <1>1, EraseKeeps DEF CleanUp

(***************************************************************************)
(* The invariant, and what follows from it.                                *)
(***************************************************************************)
LEMMA InvHoldsAtFirst == QueueInit => QueueInv
<1> SUFFICES ASSUME QueueInit PROVE QueueInv
  OBVIOUS
<1>1. items = <<>> /\ history = <<>> /\ Ids = {} /\ Len(items) = 0
  BY DEF QueueInit, Ids
<1>2. \A r \in Records : rows[r] \in Row \cup {NoRow}
  BY DEF QueueInit, Row
<1>3. Types
  BY <1>1, <1>2, IdleIs DEF QueueInit, Types
<1>4. \A c \in Phones : calls[c] = NoCall
  BY DEF QueueInit
<1>5. Creating = {}
  BY <1>4 DEF Creating, Creates
<1>6. Room
  BY <1>1, <1>4, <1>5, FS_EmptySet, Words DEF Room
<1>7. \A p \in Passes : passes[p] = Idle
  BY DEF QueueInit
<1>8. PassesOK /\ Exclusive
  BY <1>7, IdleIs, PartialNothing DEF PassesOK, Exclusive
<1> QED BY <1>1, <1>3, <1>6, <1>8 DEF QueueInv, Ledger

LEMMA InvStays == QueueInv /\ [QueueNext]_queueVars => QueueInv'
<1> SUFFICES ASSUME QueueInv, [QueueNext]_queueVars PROVE QueueInv'
  OBVIOUS
<1>1. CASE UNCHANGED queueVars
  <2>1. items' = items /\ rows' = rows /\ calls' = calls /\ passes' = passes /\ history' = history
    BY <1>1 DEF queueVars
  <2>2. \A pass \in Pass : PassOK(pass) => PassOK(pass)'
    BY <2>1 DEF PassOK, Lists, Held, Did, Found, Ids
  <2>3. Types' /\ Room' /\ Exclusive' /\ Ledger'
    BY <2>1 DEF QueueInv, Types, Room, Creating, Creates, Exclusive, Ledger, Ids
  <2>4. PassesOK'
    BY <2>1, <2>2 DEF QueueInv, PassesOK
  <2> QED BY <2>3, <2>4 DEF QueueInv
<1>2. ASSUME NEW c \in Phones, NEW r \in Records, NEW change \in Change, Find(c, r, change)
      PROVE  QueueInv'
  BY <1>2, FindKeeps
<1>3. ASSUME NEW c \in Phones, Create(c) \/ Replace(c) \/ RefuseEnqueue(c)
      PROVE  QueueInv'
  BY <1>3, CreateKeeps, ReplaceKeeps, RefuseEnqueueKeeps
<1>4. ASSUME NEW p \in Passes, NEW records \in SUBSET Records, StartPass(p, records)
      PROVE  QueueInv'
  BY <1>4, StartKeeps
<1>5. ASSUME NEW p \in Passes, Pick(p) \/ MarkProcessing(p) \/ Load(p)
      PROVE  QueueInv'
  BY <1>5, PickKeeps, MarkKeeps, LoadKeeps
<1>6. ASSUME NEW p \in Passes, Apply(p) \/ Refuse(p) \/ Commit(p)
      PROVE  QueueInv'
  BY <1>6, ApplyKeeps, RefuseKeeps, CommitKeeps
<1>7. ASSUME NEW p \in Passes, Crash(p)
      PROVE  QueueInv'
  BY <1>7, AbortKeeps DEF Crash
<1>8. ASSUME NEW records \in SUBSET Records, ClearEntity(records)
      PROVE  QueueInv'
  BY <1>8, ClearEntityKeeps
<1>9. ASSUME NEW i \in Ids, CleanUp(i)
      PROVE  QueueInv'
  BY <1>9, CleanUpKeeps
<1> QED BY <1>1, <1>2, <1>3, <1>4, <1>5, <1>6, <1>7, <1>8, <1>9 DEF QueueNext

(* The invariant holds in every reachable state.                           *)
THEOREM QueueInvAlways == QueueSpec => []QueueInv
BY InvHoldsAtFirst, InvStays, PTL DEF QueueSpec

(* Rows, items, requests and passes stay well formed, however many passes  *)
(* and phones there are.                                                   *)
THEOREM QueueTypes == QueueSpec => []QueueTypeOK
<1>1. QueueInv => QueueTypeOK
  <2> SUFFICES ASSUME QueueInv PROVE QueueTypeOK
    OBVIOUS
  <2>1. items \in Seq(Item) /\ rows \in [Records -> Row \cup {NoRow}] /\ Len(items) <= MaxItems
    BY CreatingIs, Words, SequenceIs DEF QueueInv, Types, Room
  <2>2. DOMAIN history = Ids /\ Range(history) \subseteq Past
    BY SequenceIs DEF QueueInv, Types, Ids, Range
  <2>3. ASSUME NEW p \in Passes
        PROVE  PassType(p)
    <3> DEFINE pass == passes[p]
    <3>1. pass \in Pass /\ PassOK(pass)
      BY DEF QueueInv, Types, PassesOK
    <3>2. PassType(p) <=>
            /\ pass.phase \in {"idle", "pick", "lock", "load", "store"}
            /\ \A k \in DOMAIN pass.todo : pass.todo[k] \in [id: Ids, change: Change]
            /\ DOMAIN pass.ownItems \subseteq Ids /\ Range(pass.ownItems) \subseteq Item
            /\ DOMAIN pass.ownRows \subseteq Records /\ Range(pass.ownRows) \subseteq Row
            /\ pass.copy \in Row \cup {NoRow}
      BY DEF PassType
    <3> HIDE DEF pass
    <3>3. \A k \in DOMAIN pass.todo : pass.todo[k] \in [id: Ids, change: Change]
      <4>1. \A k \in DOMAIN pass.todo : pass.todo[k] \in Todo /\ pass.todo[k].id \in Ids
        BY <3>1, PassIs, SequenceIs DEF PassOK, Lists
      <4> QED BY <4>1 DEF Todo
    <3>4. pass.phase \in {"idle", "pick", "lock", "load", "store"} /\ DOMAIN pass.ownItems \subseteq Ids
      BY <3>1 DEF Pass, PassOK
    <3>5. /\ Range(pass.ownItems) \subseteq Item /\ pass.copy \in Row \cup {NoRow}
          /\ DOMAIN pass.ownRows \subseteq Records /\ Range(pass.ownRows) \subseteq Row
      BY <3>1, PassIs DEF Range
    <3> QED BY <3>2, <3>3, <3>4, <3>5
  <2> QED BY <2>1, <2>2, <2>3 DEF QueueTypeOK
<1> QED BY <1>1, QueueInvAlways, PTL

(* No way a pass can end leaves an item in processing.                     *)
THEOREM NothingStranded == QueueSpec => []NoneStranded
<1>1. QueueInv => NoneStranded
  BY DEF QueueInv, Ledger, Settled, NoneStranded
<1> QED BY <1>1, QueueInvAlways, PTL

(* Completed and failed items have had what these words say.               *)
THEOREM SettledIsTrue == QueueSpec => []SettledIsEarned
<1>1. QueueInv => SettledIsEarned
  BY DEF QueueInv, Ledger, Settled, SettledIsEarned
<1> QED BY <1>1, QueueInvAlways, PTL

(* A completed item's change was applied as the phone last gave it, unless *)
(* it was replaced while a pass had the item.                              *)
THEOREM AcceptedIsApplied == QueueSpec => []UncontestedIsApplied
<1>1. QueueInv => UncontestedIsApplied
  BY DEF QueueInv, Ledger, Settled, UncontestedIsApplied
<1> QED BY <1>1, QueueInvAlways, PTL
================================================================================
