---------------------------- MODULE SenderProofs -----------------------------
(***************************************************************************)
(* Proofs about Sender, for any files, directories, chunk sizes, requests  *)
(* and failures.                                                           *)
(***************************************************************************)
EXTENDS Sender, ChunkMathProofs, Recursion

\* The receiver was told the name that row i of table l has.
Announced(i, l, S) ==
  \E p \in S : p.kind = "Manifest" /\ p.id = i /\ p.name = l[i].name

\* A file of this name may be sent unasked in this state.
Fitting(n, st) ==
  \/ st = "Auto"
  \/ st = "Debug" /\ \E d \in DOMAIN DebugDirs : n \in DebugDirs[d]

ItemOK(x, l, st) == x.id \in DOMAIN l /\ (x.auto => Fitting(l[x.id].name, st))

\* A manifest of the same file is ahead of item k.
Ahead(q, k) == \E j \in 1 .. k - 1 : q[j].kind = "Manifest" /\ q[j].id = q[k].id

\* The queue q over table l, in state st, after the packets S: the data items
\* come after a manifest that was sent or is ahead of them.
QueueOK(q, l, st, S) ==
  /\ q \in Seq(Items)
  /\ \A k \in 1 .. Len(q) :
       /\ ItemOK(q[k], l, st)
       /\ q[k].kind = "Data" => Announced(q[k].id, l, S) \/ Ahead(q, k)

\* TypeOK without its part about the queue, which QueueOK implies.
Shape ==
  /\ DOMAIN disk \subseteq Names /\ \A n \in DOMAIN disk : disk[n] \in Nat
  /\ ledger \in Seq(Rows)
  /\ state \in States
  /\ payload \in PayloadSizes
  /\ half \in {"send", "topup"}
  /\ process \in {"running", "exited", "failed", "killed"}
  /\ sent \subseteq [kind : {"Manifest", "Data", "Retransmit"}, id : Nat \ {0},
                     name : Names, chunk : Nat, num : Nat]
  /\ requests \in 0 .. MaxRequests

SenderInv == Shape /\ QueueOK(queue, ledger, state, sent) /\ NameFirst
-----------------------------------------------------------------------------
(* The queue's operations.                                                 *)

\* The empty queue.
LEMMA EmptyOK == ASSUME NEW l, NEW st, NEW S PROVE QueueOK(<<>>, l, st, S)
  BY DEF QueueOK

\* Rows that are added, and packets that are sent, do no harm.
LEMMA GrowOK ==
  ASSUME NEW q, NEW l, NEW m, NEW st, NEW S, NEW T,
         QueueOK(q, l, st, S), S \subseteq T,
         DOMAIN l \subseteq DOMAIN m,
         \A i \in DOMAIN l : m[i].name = l[i].name
  PROVE  QueueOK(q, m, st, T)
<1>1. ASSUME NEW k \in 1 .. Len(q)
      PROVE  /\ ItemOK(q[k], m, st)
             /\ q[k].kind = "Data" => Announced(q[k].id, m, T) \/ Ahead(q, k)
  <2>1. ItemOK(q[k], l, st) /\ q[k].id \in DOMAIN l
    BY DEF QueueOK, ItemOK
  <2>2. ItemOK(q[k], m, st)
    BY <2>1 DEF ItemOK
  <2>3. Announced(q[k].id, l, S) => Announced(q[k].id, m, T)
    BY <2>1 DEF Announced
  <2>4. QED
    BY <2>2, <2>3 DEF QueueOK
<1>2. QED
  BY <1>1 DEF QueueOK

\* push_back of an item whose file was or will be announced.
LEMMA BackOK ==
  ASSUME NEW q, NEW l, NEW st, NEW S, NEW x \in Items,
         QueueOK(q, l, st, S), ItemOK(x, l, st),
         x.kind = "Data" => \/ Announced(x.id, l, S)
                            \/ \E j \in 1 .. Len(q) : q[j].kind = "Manifest"
                                                      /\ q[j].id = x.id
  PROVE  QueueOK(Append(q, x), l, st, S)
<1> DEFINE r == Append(q, x)
<1>1. /\ q \in Seq(Items) /\ Len(q) \in Nat
      /\ r \in Seq(Items) /\ Len(r) = Len(q) + 1
      /\ r[Len(q) + 1] = x /\ \A j \in 1 .. Len(q) : r[j] = q[j]
  BY DEF QueueOK
<1> HIDE DEF r
<1>2. ASSUME NEW k \in 1 .. Len(r)
      PROVE  /\ ItemOK(r[k], l, st)
             /\ r[k].kind = "Data" => Announced(r[k].id, l, S) \/ Ahead(r, k)
  <2>1. CASE k \in 1 .. Len(q)
    <3>1. r[k] = q[k] /\ \A j \in 1 .. k - 1 : r[j] = q[j]
      BY <1>1, <2>1
    <3>2. Ahead(q, k) => Ahead(r, k)
      BY <3>1 DEF Ahead
    <3>3. QED
      BY <2>1, <3>1, <3>2 DEF QueueOK
  <2>2. CASE k = Len(q) + 1
    BY <1>1, <2>2 DEF Ahead
  <2>3. QED
    BY <1>1, <2>1, <2>2
<1>3. QED
  BY <1>1, <1>2 DEF QueueOK, r

\* push_front of an item that needs no manifest ahead of it.
LEMMA FrontOK ==
  ASSUME NEW q, NEW l, NEW st, NEW S, NEW x \in Items,
         QueueOK(q, l, st, S), ItemOK(x, l, st),
         x.kind = "Data" => Announced(x.id, l, S)
  PROVE  QueueOK(<<x>> \o q, l, st, S)
<1> DEFINE r == <<x>> \o q
<1>1. /\ q \in Seq(Items) /\ Len(q) \in Nat
      /\ r \in Seq(Items) /\ Len(r) = Len(q) + 1
      /\ r[1] = x /\ \A j \in 1 .. Len(q) : r[j + 1] = q[j]
  BY DEF QueueOK
<1> HIDE DEF r
<1>2. ASSUME NEW k \in 1 .. Len(r)
      PROVE  /\ ItemOK(r[k], l, st)
             /\ r[k].kind = "Data" => Announced(r[k].id, l, S) \/ Ahead(r, k)
  <2>1. CASE k = 1
    BY <1>1, <2>1
  <2>2. CASE k # 1
    <3>1. k - 1 \in 1 .. Len(q) /\ r[k] = q[k - 1]
      <4>1. k - 1 \in 1 .. Len(q)
        BY <1>1, <2>2
      <4>2. r[(k - 1) + 1] = q[k - 1]
        BY <1>1, <4>1
      <4>3. QED
        BY <4>1, <4>2
    <3>2. ASSUME Ahead(q, k - 1) PROVE Ahead(r, k)
      <4>1. PICK j \in 1 .. k - 2 : q[j].kind = "Manifest" /\ q[j].id = q[k - 1].id
        BY <3>2 DEF Ahead
      <4>2. j + 1 \in 1 .. k - 1 /\ r[j + 1] = q[j]
        BY <1>1, <3>1, <4>1
      <4>3. QED
        BY <3>1, <4>1, <4>2 DEF Ahead
    <3>3. QED
      BY <3>1, <3>2 DEF QueueOK
  <2>3. QED
    BY <2>1, <2>2
<1>3. QED
  BY <1>1, <1>2 DEF QueueOK, r

\* The front item leaves; if it was a manifest, it was sent.
LEMMA TailOK ==
  ASSUME NEW q, NEW l, NEW st, NEW S, NEW T,
         QueueOK(q, l, st, S), S \subseteq T, q # <<>>,
         Head(q).kind = "Manifest" => Announced(Head(q).id, l, T)
  PROVE  QueueOK(Tail(q), l, st, T)
<1> DEFINE r == Tail(q)
<1>1. /\ q \in Seq(Items) /\ Len(q) \in Nat \ {0} /\ Head(q) = q[1]
      /\ r \in Seq(Items) /\ Len(r) = Len(q) - 1
      /\ \A j \in 1 .. Len(q) - 1 : r[j] = q[j + 1]
  BY DEF QueueOK
<1> HIDE DEF r
<1>2. ASSUME NEW k \in 1 .. Len(r)
      PROVE  /\ ItemOK(r[k], l, st)
             /\ r[k].kind = "Data" => Announced(r[k].id, l, T) \/ Ahead(r, k)
  <2>1. k + 1 \in 1 .. Len(q) /\ r[k] = q[k + 1]
    BY <1>1
  <2>2. /\ ItemOK(r[k], l, st)
        /\ r[k].kind = "Data" => Announced(r[k].id, l, S) \/ Ahead(q, k + 1)
    BY <2>1 DEF QueueOK
  <2>3. Announced(r[k].id, l, S) => Announced(r[k].id, l, T)
    BY DEF Announced
  <2>4. ASSUME Ahead(q, k + 1) PROVE Announced(r[k].id, l, T) \/ Ahead(r, k)
    <3>1. PICK j \in 1 .. k : q[j].kind = "Manifest" /\ q[j].id = q[k + 1].id
      BY <2>4 DEF Ahead
    <3>2. CASE j = 1
      BY <1>1, <2>1, <3>1, <3>2
    <3>3. CASE j # 1
      <4>1. j - 1 \in 1 .. k - 1 /\ j - 1 \in 1 .. Len(q) - 1
        BY <1>1, <3>3
      <4>2. r[j - 1] = q[(j - 1) + 1]
        BY <1>1, <4>1
      <4>3. r[j - 1] = q[j]
        BY <4>2
      <4>4. QED
        BY <2>1, <3>1, <4>1, <4>3 DEF Ahead
    <3>4. QED
      BY <3>2, <3>3
  <2>5. QED
    BY <2>2, <2>3, <2>4
<1>3. QED
  BY <1>1, <1>2 DEF QueueOK, r

\* A full send at the front: the manifest on top of its data.
LEMMA FrontFullOK ==
  ASSUME NEW q, NEW l, NEW st, NEW S, NEW x \in Items, NEW y \in Items,
         QueueOK(q, l, st, S), ItemOK(x, l, st), ItemOK(y, l, st),
         x.kind = "Manifest", y.id = x.id
  PROVE  QueueOK(<<x, y>> \o q, l, st, S)
<1> DEFINE r == <<x, y>> \o q
<1>1. /\ q \in Seq(Items) /\ Len(q) \in Nat
      /\ r \in Seq(Items) /\ Len(r) = Len(q) + 2
      /\ r[1] = x /\ r[2] = y /\ \A j \in 1 .. Len(q) : r[j + 2] = q[j]
  BY DEF QueueOK
<1> HIDE DEF r
<1>2. ASSUME NEW k \in 1 .. Len(r)
      PROVE  /\ ItemOK(r[k], l, st)
             /\ r[k].kind = "Data" => Announced(r[k].id, l, S) \/ Ahead(r, k)
  <2>1. CASE k = 1
    BY <1>1, <2>1
  <2>2. CASE k = 2
    <3>1. 1 \in 1 .. k - 1
      BY <2>2
    <3>2. QED
      BY <1>1, <2>2, <3>1 DEF Ahead
  <2>3. CASE k > 2
    <3>1. k - 2 \in 1 .. Len(q)
      BY <1>1, <2>3
    <3>2. r[(k - 2) + 2] = q[k - 2]
      BY <1>1, <3>1
    <3>3. r[k] = q[k - 2]
      BY <3>2
    <3>4. ASSUME Ahead(q, k - 2) PROVE Ahead(r, k)
      <4>1. PICK j \in 1 .. k - 3 : q[j].kind = "Manifest" /\ q[j].id = q[k - 2].id
        BY <3>4 DEF Ahead
      <4>2. j + 2 \in 1 .. k - 1 /\ r[j + 2] = q[j]
        BY <1>1, <3>1, <4>1
      <4>3. QED
        BY <3>3, <4>1, <4>2 DEF Ahead
    <3>5. QED
      BY <3>1, <3>3, <3>4 DEF QueueOK
  <2>4. QED
    BY <1>1, <2>1, <2>2, <2>3
<1>3. QED
  BY <1>1, <1>2 DEF QueueOK, r
-----------------------------------------------------------------------------
(* The sender's operations.                                                *)

\* What the inductive invariant is for.
LEMMA InvImplies == SenderInv => TypeOK /\ QueueMatchesState
<1> SUFFICES ASSUME SenderInv PROVE TypeOK /\ QueueMatchesState
  OBVIOUS
<1>1. queue \in Seq(Items) /\ DOMAIN queue = 1 .. Len(queue)
  BY DEF SenderInv, QueueOK
<1>2. \A k \in DOMAIN queue : ItemOK(queue[k], ledger, state)
  BY <1>1 DEF SenderInv, QueueOK
<1>3. TypeOK
  BY <1>1, <1>2 DEF SenderInv, Shape, TypeOK, ItemOK
<1>4. QueueMatchesState
  BY <1>2 DEF QueueMatchesState, ItemOK, Fitting
<1>5. QED
  BY <1>3, <1>4

\* A file's chunk count is a natural number.
LEMMA TotalNat == ASSUME Shape, NEW z \in Nat PROVE Total(z) \in Nat
  BY ChunksNat, SenderAssumption DEF Shape, Total

\* Writing and deleting files leaves a file system.
LEMMA DiskShape ==
  ASSUME Shape, NEW n \in Names, NEW z \in Nat
  PROVE  /\ DOMAIN Put(disk, n, z) \subseteq Names
         /\ \A m \in DOMAIN Put(disk, n, z) : Put(disk, n, z)[m] \in Nat
         /\ DOMAIN Unlinked(disk, n) \subseteq Names
         /\ \A m \in DOMAIN Unlinked(disk, n) : Unlinked(disk, n)[m] \in Nat
  BY DEF Shape, Put, Unlinked

\* upsert_file keeps every row and returns the id of the file's row.
LEMMA UpsertKeeps ==
  ASSUME Shape, NEW n \in Names, NEW z \in Nat
  PROVE  /\ Upserted(n, z) \in Seq(Rows)
         /\ DOMAIN ledger \subseteq DOMAIN Upserted(n, z)
         /\ \A i \in DOMAIN ledger : Upserted(n, z)[i] = ledger[i]
         /\ UpsertedId(n) \in DOMAIN Upserted(n, z)
         /\ UpsertedId(n) \in Nat \ {0}
         /\ Upserted(n, z)[UpsertedId(n)].name = n
<1> DEFINE row == [name |-> n, size |-> z, still_exists |-> TRUE]
<1>1. /\ ledger \in Seq(Rows) /\ Len(ledger) \in Nat
      /\ DOMAIN ledger = 1 .. Len(ledger) /\ row \in Rows
  BY DEF Shape, Rows
<1>2. CASE IdsOf(n) # {}
  <2>1. UpsertedId(n) \in IdsOf(n)
    BY <1>2 DEF UpsertedId
  <2>2. QED
    BY <1>1, <1>2, <2>1 DEF Upserted, IdsOf
<1>3. CASE IdsOf(n) = {}
  <2>1. Upserted(n, z) = Append(ledger, row) /\ UpsertedId(n) = Len(ledger) + 1
    BY <1>3 DEF Upserted, UpsertedId
  <2> HIDE DEF row
  <2>2. /\ Append(ledger, row) \in Seq(Rows)
        /\ DOMAIN Append(ledger, row) = 1 .. Len(ledger) + 1
        /\ \A i \in 1 .. Len(ledger) : Append(ledger, row)[i] = ledger[i]
        /\ Append(ledger, row)[Len(ledger) + 1] = row
    BY <1>1
  <2>3. row.name = n
    BY DEF row
  <2>4. QED
    BY <1>1, <2>1, <2>2, <2>3
<1>4. QED
  BY <1>2, <1>3

\* mark_gone keeps every row's name.
LEMMA MarkKeeps ==
  ASSUME Shape, NEW k \in DOMAIN ledger
  PROVE  /\ MarkedGone(k) \in Seq(Rows) /\ DOMAIN MarkedGone(k) = DOMAIN ledger
         /\ \A i \in DOMAIN ledger : MarkedGone(k)[i].name = ledger[i].name
<1>1. /\ ledger \in Seq(Rows) /\ DOMAIN ledger = 1 .. Len(ledger)
      /\ Len(ledger) \in Nat /\ \A i \in 1 .. Len(ledger) : ledger[i] \in Rows
  BY DEF Shape
<1> DEFINE row == [ledger[k] EXCEPT !.still_exists = FALSE]
<1>2. row \in Rows /\ row.name = ledger[k].name
  BY <1>1 DEF Rows
<1>3. MarkedGone(k) = [ledger EXCEPT ![k] = row]
  BY DEF MarkedGone
<1> HIDE DEF row
<1>4. QED
  BY <1>1, <1>2, <1>3

\* push_full_file, at either end, over a table that may have grown.
LEMMA FullSendOK ==
  ASSUME QueueOK(queue, ledger, state, sent), NEW m,
         DOMAIN ledger \subseteq DOMAIN m,
         \A j \in DOMAIN ledger : m[j].name = ledger[j].name,
         NEW i \in Nat \ {0}, i \in DOMAIN m, NEW total \in Nat,
         NEW auto \in BOOLEAN, auto => Fitting(m[i].name, state),
         NEW interrupt \in BOOLEAN
  PROVE  QueueOK(PushedFull(i, total, auto, interrupt), m, state, sent)
<1> DEFINE x == NameItem(i, auto)
           y == Item("Data", i, 0, total, total, auto)
<1>1. /\ x \in Items /\ y \in Items /\ x.kind = "Manifest" /\ x.id = i
      /\ y.id = i /\ ItemOK(x, m, state) /\ ItemOK(y, m, state)
  BY DEF NameItem, Item, Items, ItemOK
<1>2. QueueOK(queue, m, state, sent)
  BY GrowOK
<1>3. PushedFull(i, total, auto, interrupt)
        = IF interrupt THEN <<x, y>> \o queue ELSE queue \o <<x, y>>
  BY DEF PushedFull
<1> HIDE DEF x, y
<1>4. CASE interrupt
  BY <1>1, <1>2, <1>3, <1>4, FrontFullOK
<1>5. CASE ~interrupt
  <2>1. queue \in Seq(Items) /\ Len(queue) \in Nat
    BY DEF QueueOK
  <2>2. queue \o <<x, y>> = Append(Append(queue, x), y)
    BY <1>1, <2>1
  <2>3. QueueOK(Append(queue, x), m, state, sent)
    BY <1>1, <1>2, BackOK
  <2>4. /\ Len(queue) + 1 \in 1 .. Len(Append(queue, x))
        /\ Append(queue, x)[Len(queue) + 1] = x
    BY <1>1, <2>1
  <2>5. QueueOK(Append(Append(queue, x), y), m, state, sent)
    BY <1>1, <2>3, <2>4, BackOK
  <2>6. QED
    BY <1>3, <1>5, <2>2, <2>5
<1>6. QED
  BY <1>4, <1>5

\* A single item, at either end, that is not data.
LEMMA PushOK ==
  ASSUME QueueOK(queue, ledger, state, sent), NEW x \in Items,
         ItemOK(x, ledger, state), x.kind # "Data", NEW interrupt \in BOOLEAN
  PROVE  QueueOK(Pushed(x, interrupt), ledger, state, sent)
  BY FrontOK, BackOK DEF Pushed

\* Initially nothing is queued and nothing was sent.
LEMMA SenderInit == Init => SenderInv
<1> SUFFICES ASSUME Init PROVE SenderInv
  OBVIOUS
<1>1. Shape
  BY SenderAssumption DEF Init, Shape
<1>2. QueueOK(queue, ledger, state, sent)
  BY EmptyOK DEF Init
<1>3. NameFirst
  BY DEF Init, NameFirst
<1>4. QED
  BY <1>1, <1>2, <1>3 DEF SenderInv

\* Typing facts the steps below use.
LEMMA InvFacts ==
  ASSUME Shape
  PROVE  /\ ledger \in Seq(Rows) /\ DOMAIN ledger = 1 .. Len(ledger)
         /\ Len(ledger) \in Nat
         /\ \A i \in DOMAIN ledger : /\ i \in Nat \ {0}
                                     /\ ledger[i].size \in Nat
                                     /\ ledger[i].name \in Names
         /\ requests \in Nat /\ MaxRequests \in Nat
<1>1. ledger \in Seq(Rows) /\ DOMAIN ledger = 1 .. Len(ledger) /\ Len(ledger) \in Nat
  BY DEF Shape
<1>2. \A i \in DOMAIN ledger : i \in Nat \ {0} /\ ledger[i] \in Rows
  BY <1>1
<1>3. requests \in Nat /\ MaxRequests \in Nat
  BY SenderAssumption DEF Shape
<1>4. QED
  BY <1>1, <1>2, <1>3 DEF Rows

\* Control requests.
LEMMA RequestsKeep == SenderInv /\ Requests => SenderInv'
<1> SUFFICES ASSUME SenderInv, Requests PROVE SenderInv'
  OBVIOUS
<1>0. /\ Shape /\ QueueOK(queue, ledger, state, sent) /\ NameFirst
      /\ ledger \in Seq(Rows) /\ DOMAIN ledger = 1 .. Len(ledger)
      /\ Len(ledger) \in Nat
      /\ \A i \in DOMAIN ledger : i \in Nat \ {0} /\ ledger[i].size \in Nat
      /\ requests \in Nat /\ MaxRequests \in Nat
  BY InvFacts DEF SenderInv
<1>1. ASSUME NEW i \in DOMAIN ledger, NEW interrupt \in BOOLEAN,
             EnqueueFile(i, interrupt)
      PROVE  SenderInv'
  <2>1. Shape'
    BY <1>0, <1>1 DEF Shape, EnqueueFile, Serving, Served
  <2>2. QueueOK(PushedFull(i, Total(ledger[i].size), FALSE, interrupt),
                ledger, state, sent)
    BY <1>0, TotalNat, FullSendOK
  <2>3. QED
    BY <1>0, <1>1, <2>1, <2>2 DEF SenderInv, NameFirst, EnqueueFile
<1>2. ASSUME NEW i \in DOMAIN ledger, NEW interrupt \in BOOLEAN,
             NEW start \in Nat, NEW count \in Nat,
             EnqueueRange(i, start, count, interrupt)
      PROVE  SenderInv'
  <2> DEFINE total == Total(ledger[i].size)
             x == Item("Retransmit", i, start, Clamped(count, total - start), total, FALSE)
  <2>1. Shape'
    BY <1>0, <1>2 DEF Shape, EnqueueRange, Serving, Served
  <2>2. total \in Nat /\ start < total
    BY <1>0, <1>2, TotalNat DEF EnqueueRange
  <2>3. Clamped(count, total - start) \in Nat
    BY <2>2 DEF Clamped
  <2>4. x \in Items /\ ItemOK(x, ledger, state) /\ x.kind # "Data"
    BY <1>0, <2>2, <2>3 DEF Item, Items, ItemOK
  <2>5. QueueOK(Pushed(x, interrupt), ledger, state, sent)
    BY <1>0, <2>4, PushOK
  <2>6. QED
    BY <1>0, <1>2, <2>1, <2>5 DEF SenderInv, NameFirst, EnqueueRange
<1>3. ASSUME NEW n \in Names, NEW interrupt \in BOOLEAN, Submit(n, interrupt)
      PROVE  SenderInv'
  <2>1. disk[n] \in Nat
    BY <1>0, <1>3 DEF Shape, Submit
  <2> DEFINE m == Upserted(n, disk[n])
             i == UpsertedId(n)
  <2>2. /\ m \in Seq(Rows) /\ DOMAIN ledger \subseteq DOMAIN m
        /\ \A j \in DOMAIN ledger : m[j] = ledger[j]
        /\ i \in DOMAIN m /\ i \in Nat \ {0}
    BY <1>0, <2>1, UpsertKeeps
  <2>3. /\ ledger' = m
        /\ queue' = PushedFull(i, Total(disk[n]), FALSE, interrupt)
        /\ UNCHANGED <<disk, state, payload, half, process, sent>>
        /\ requests < MaxRequests /\ requests' = requests + 1
    BY <1>3 DEF Submit, Serving, Served
  <2> HIDE DEF m, i
  <2>4. Shape'
    BY <1>0, <2>2, <2>3 DEF Shape
  <2>5. QueueOK(PushedFull(i, Total(disk[n]), FALSE, interrupt), m, state, sent)
    BY <1>0, <2>1, <2>2, TotalNat, FullSendOK
  <2>6. QED
    BY <1>0, <2>3, <2>4, <2>5 DEF SenderInv, NameFirst
<1>4. ASSUME NEW i \in DOMAIN ledger, ResendName(i) PROVE SenderInv'
  <2> DEFINE x == NameItem(i, FALSE)
  <2>1. Shape'
    BY <1>0, <1>4 DEF Shape, ResendName, Serving, Served
  <2>2. x \in Items /\ ItemOK(x, ledger, state) /\ x.kind # "Data"
    BY <1>0 DEF NameItem, Item, Items, ItemOK
  <2>3. QueueOK(Pushed(x, TRUE), ledger, state, sent)
    BY <1>0, <2>2, PushOK
  <2>4. QED
    BY <1>0, <1>4, <2>1, <2>3 DEF SenderInv, NameFirst, ResendName
<1>5. ASSUME NEW st \in States, SetState(st) PROVE SenderInv'
  <2>1. Shape'
    BY <1>0, <1>5 DEF Shape, SetState
  <2>2. QueueOK(queue', ledger, st, sent)
    <3>1. CASE st \in {"Manual", "Paused", "Debug"}
      BY <1>5, <3>1, EmptyOK DEF SetState
    <3>2. CASE st = "Auto"
      <4>1. queue' = queue
        BY <1>5, <3>2 DEF SetState
      <4>2. QueueOK(queue, ledger, st, sent)
        BY <1>0, <3>2 DEF QueueOK, ItemOK, Fitting
      <4>3. QED
        BY <4>1, <4>2
    <3>3. QED
      BY <3>1, <3>2 DEF States
  <2>3. QED
    BY <1>0, <1>5, <2>1, <2>2 DEF SenderInv, NameFirst, SetState
<1>6. CASE Flush
  <2>1. Shape'
    BY <1>0, <1>6 DEF Shape, Flush
  <2>2. QED
    BY <1>0, <1>6, <2>1, EmptyOK DEF SenderInv, NameFirst, Flush
<1>7. ASSUME NEW p \in PayloadSizes, ChangeChunkSize(p) PROVE SenderInv'
  <2>1. Shape'
    BY <1>0, <1>7 DEF Shape, ChangeChunkSize
  <2>2. QED
    BY <1>0, <1>7, <2>1 DEF SenderInv, NameFirst, ChangeChunkSize
<1>8. MaxIndex \in Nat
  BY SenderAssumption
<1>9. QED
  BY <1>1, <1>2, <1>3, <1>4, <1>5, <1>6, <1>7, <1>8 DEF Requests

\* The head of the queue is about a known file, and if it is data, that
\* file's manifest was sent.
LEMMA HeadFacts ==
  ASSUME SenderInv, queue # <<>>
  PROVE  /\ Head(queue) \in Items /\ Head(queue).id \in DOMAIN ledger
         /\ ItemOK(Head(queue), ledger, state)
         /\ HeadName \in Names
         /\ Head(queue).kind = "Data" => Announced(Head(queue).id, ledger, sent)
<1>1. /\ queue \in Seq(Items) /\ 1 \in 1 .. Len(queue)
      /\ Head(queue) = queue[1] /\ queue[1] \in Items
  BY DEF SenderInv, QueueOK
<1>2. /\ ItemOK(queue[1], ledger, state)
      /\ queue[1].kind = "Data" => Announced(queue[1].id, ledger, sent)
  BY <1>1 DEF SenderInv, QueueOK, Ahead
<1>3. QED
  BY <1>1, <1>2, InvFacts DEF SenderInv, ItemOK, HeadName

\* What is left of a range is an item of the same file.
LEMMA RestIsItem ==
  ASSUME NEW x \in Items, x.count > 1
  PROVE  LET rest == Item(x.kind, x.id, x.start + 1, x.count - 1, x.cut, x.auto) IN
         /\ rest \in Items /\ rest.kind = x.kind
         /\ rest.id = x.id /\ rest.auto = x.auto
<1>1. /\ x.kind \in {"Manifest", "Data", "Retransmit"} /\ x.id \in Nat \ {0}
      /\ x.start \in Nat /\ x.count \in Nat /\ x.auto \in BOOLEAN
  BY DEF Items
<1>2. x.start + 1 \in Nat /\ x.count - 1 \in Nat
  BY <1>1
<1>3. Item(x.kind, x.id, x.start + 1, x.count - 1, x.cut, x.auto) \in Items
  BY <1>1, <1>2 DEF NameItem, Item, Items
<1>4. QED
  BY <1>3 DEF Item

\* First half of a tick.
LEMMA SendNextKeeps == SenderInv /\ SendNext => SenderInv'
<1> SUFFICES ASSUME SenderInv, SendNext PROVE SenderInv'
  OBVIOUS
<1> DEFINE h == Head(queue)
<1>0. Shape /\ QueueOK(queue, ledger, state, sent) /\ NameFirst
  BY DEF SenderInv
<1>1. CASE NothingToSend
  <2>1. Shape'
    BY <1>0, <1>1 DEF Shape, NothingToSend
  <2>2. QED
    BY <1>0, <1>1, <2>1 DEF SenderInv, NameFirst, NothingToSend
<1>2. CASE SendManifest
  <2> DEFINE p == Packet("Manifest", h.id, 0, Total(disk[HeadName]))
  <2>1. queue # <<>> /\ h.kind = "Manifest" /\ HeadName \in DOMAIN disk
    BY <1>2 DEF SendManifest, Popping
  <2>2. h \in Items /\ h.id \in DOMAIN ledger /\ HeadName \in Names
    BY <2>1, HeadFacts
  <2>3. Total(disk[HeadName]) \in Nat
    BY <1>0, <2>1, TotalNat DEF Shape
  <2>4. /\ p \in [kind : {"Manifest", "Data", "Retransmit"}, id : Nat \ {0},
                  name : Names, chunk : Nat, num : Nat]
        /\ p.kind = "Manifest" /\ p.id = h.id /\ p.name = ledger[h.id].name
    BY <2>2, <2>3 DEF Packet, Items, HeadName
  <2>5. /\ sent' = sent \cup {p} /\ queue' = Tail(queue)
        /\ UNCHANGED <<disk, ledger, state, payload, half, process, requests>>
    BY <1>2 DEF SendManifest
  <2> HIDE DEF p
  <2>6. Shape'
    BY <1>0, <2>4, <2>5 DEF Shape
  <2>7. Announced(h.id, ledger, sent')
    BY <2>4, <2>5 DEF Announced
  <2>8. QueueOK(Tail(queue), ledger, state, sent')
    BY <1>0, <2>1, <2>5, <2>7, TailOK
  <2>9. NameFirst'
    BY <1>0, <2>4, <2>5 DEF NameFirst
  <2>10. QED
    BY <2>5, <2>6, <2>8, <2>9 DEF SenderInv
<1>3. CASE ManifestFileGone \/ SendNextFails
  <2>1. Shape'
    BY <1>0, <1>3 DEF Shape, ManifestFileGone, SendNextFails, Stopped
  <2>2. QED
    BY <1>0, <1>3, <2>1, EmptyOK
    DEF SenderInv, NameFirst, ManifestFileGone, SendNextFails, Stopped
<1>4. CASE SendChunk
  <2> DEFINE num == Total(disk[HeadName])
             p == Packet(h.kind, h.id, h.start, num)
             rest == Item(h.kind, h.id, h.start + 1, h.count - 1, h.cut, h.auto)
  <2>1. queue # <<>> /\ h.kind \in {"Data", "Retransmit"} /\ HeadName \in DOMAIN disk
    BY <1>4 DEF SendChunk, Popping
  <2>2. /\ h \in Items /\ h.id \in DOMAIN ledger /\ HeadName \in Names
        /\ ItemOK(h, ledger, state)
        /\ h.kind = "Data" => Announced(h.id, ledger, sent)
    BY <2>1, HeadFacts
  <2>3. num \in Nat
    BY <1>0, <2>1, TotalNat DEF Shape
  <2>4. /\ p \in [kind : {"Manifest", "Data", "Retransmit"}, id : Nat \ {0},
                  name : Names, chunk : Nat, num : Nat]
        /\ p.kind = h.kind /\ p.id = h.id /\ p.name = ledger[h.id].name
    BY <2>2, <2>3 DEF Packet, Items, HeadName
  <2>5. /\ sent' = sent \cup {p}
        /\ queue' = IF h.count > 1 THEN <<rest>> \o Tail(queue) ELSE Tail(queue)
        /\ UNCHANGED <<disk, ledger, state, payload, half, process, requests>>
    BY <1>4 DEF SendChunk
  <2>6. h.count > 1 => /\ rest \in Items /\ rest.kind = h.kind
                       /\ rest.id = h.id /\ rest.auto = h.auto
    BY <2>2, RestIsItem
  <2> HIDE DEF p, rest, num
  <2>7. Shape'
    BY <1>0, <2>4, <2>5 DEF Shape
  <2>8. QueueOK(Tail(queue), ledger, state, sent')
    BY <1>0, <2>1, <2>5, TailOK
  <2>9. QueueOK(queue', ledger, state, sent')
    <3>1. CASE h.count > 1
      <4>1. rest.kind = "Data" => Announced(rest.id, ledger, sent')
        BY <2>2, <2>5, <2>6, <3>1 DEF Announced
      <4>2. ItemOK(rest, ledger, state)
        BY <2>2, <2>6, <3>1 DEF ItemOK
      <4>3. QueueOK(<<rest>> \o Tail(queue), ledger, state, sent')
        BY <2>6, <2>8, <3>1, <4>1, <4>2, FrontOK
      <4>4. QED
        BY <2>5, <3>1, <4>3
    <3>2. CASE ~(h.count > 1)
      BY <2>5, <2>8, <3>2
    <3>3. QED
      BY <3>1, <3>2
  <2>10. NameFirst'
    BY <1>0, <2>2, <2>4, <2>5 DEF NameFirst, Announced
  <2>11. QED
    BY <2>5, <2>7, <2>9, <2>10 DEF SenderInv
<1>5. CASE ChunkOutOfRange
  <2>1. Shape'
    BY <1>0, <1>5 DEF Shape, ChunkOutOfRange, Stopped
  <2>2. QED
    BY <1>0, <1>5, <2>1, EmptyOK DEF SenderInv, NameFirst, ChunkOutOfRange, Stopped
<1>6. CASE ChunkFileGone
  <2>1. queue # <<>> /\ h.kind \in {"Data", "Retransmit"}
    BY <1>6 DEF ChunkFileGone, Popping
  <2>2. h.id \in DOMAIN ledger
    BY <2>1, HeadFacts
  <2> DEFINE m == MarkedGone(h.id)
  <2>3. /\ m \in Seq(Rows) /\ DOMAIN m = DOMAIN ledger
        /\ \A i \in DOMAIN ledger : m[i].name = ledger[i].name
    BY <1>0, <2>2, MarkKeeps
  <2>4. /\ ledger' = m /\ queue' = Tail(queue) /\ half' = "topup"
        /\ UNCHANGED <<disk, state, payload, process, sent, requests>>
    BY <1>6 DEF ChunkFileGone
  <2> HIDE DEF m
  <2>5. Shape'
    BY <1>0, <2>3, <2>4 DEF Shape
  <2>6. QueueOK(Tail(queue), ledger, state, sent)
    BY <1>0, <2>1, TailOK
  <2>7. QueueOK(Tail(queue), m, state, sent)
    BY <2>3, <2>6, GrowOK
  <2>8. QED
    BY <1>0, <2>4, <2>5, <2>7 DEF SenderInv, NameFirst
<1>7. QED
  BY <1>1, <1>2, <1>3, <1>4, <1>5, <1>6 DEF SendNext

\* A candidate is a watched file that exists, of a directory of the state.
LEMMA CandidateFacts ==
  ASSUME Shape, Scanning, NEW n \in Candidates
  PROVE  n \in Names /\ n \in DOMAIN disk /\ disk[n] \in Nat /\ Fitting(n, state)
<1> DEFINE dirs == IF state = "Debug" THEN DebugDirs ELSE PriorityDirs
<1>1. PICK d \in DOMAIN dirs : n \in Unsent(dirs[d])
  BY DEF Candidates
<1>2. n \in Names /\ n \in DOMAIN disk /\ n \in dirs[d]
  BY <1>1 DEF Candidates, Unsent
<1>3. Fitting(n, state)
  BY <1>2 DEF Scanning, Fitting
<1>4. QED
  BY <1>2, <1>3 DEF Shape

\* Second half of a tick.
LEMMA TopUpKeeps ==
  ASSUME SenderInv, NEW recheck \in BOOLEAN, NEW dump \in BOOLEAN,
         TopUp(recheck, dump)
  PROVE  SenderInv'
<1>0. Shape /\ QueueOK(queue, ledger, state, sent) /\ NameFirst
  BY DEF SenderInv
<1>1. half' = "send" /\ UNCHANGED <<state, payload, process, sent, requests>>
  BY DEF TopUp
<1>2. DOMAIN disk' \subseteq Names /\ \A n \in DOMAIN disk' : disk'[n] \in Nat
  <2>1. CASE dump
    <3>1. PICK n \in Snapshots \ DOMAIN disk, z \in Sizes : disk' = Put(disk, n, z)
      BY <2>1 DEF TopUp, Dumped
    <3>2. n \in Names /\ z \in Nat
      BY SenderAssumption
    <3>3. QED
      BY <1>0, <3>1, <3>2, DiskShape
  <2>2. CASE ~dump
    BY <1>0, <2>2 DEF TopUp, Shape
  <2>3. QED
    BY <2>1, <2>2
<1>3. ledger' \in Seq(Rows) /\ QueueOK(queue', ledger', state, sent)
  <2>1. CASE UNCHANGED <<ledger, queue>>
    BY <1>0, <2>1 DEF Shape
  <2>2. CASE Scanning /\ Candidates # {} /\ Scanned
    <3>1. PICK n \in Candidates :
            /\ ledger' = Upserted(n, disk[n])
            /\ queue' = PushedFull(UpsertedId(n), Total(disk[n]), TRUE, FALSE)
      BY <2>2 DEF Scanned
    <3>2. n \in Names /\ disk[n] \in Nat /\ Fitting(n, state)
      BY <1>0, <2>2, CandidateFacts
    <3> DEFINE m == Upserted(n, disk[n])
               i == UpsertedId(n)
    <3>3. /\ m \in Seq(Rows) /\ DOMAIN ledger \subseteq DOMAIN m
          /\ \A j \in DOMAIN ledger : m[j] = ledger[j]
          /\ i \in DOMAIN m /\ i \in Nat \ {0} /\ m[i].name = n
      BY <1>0, <3>2, UpsertKeeps
    <3>4. Total(disk[n]) \in Nat
      BY <1>0, <3>2, TotalNat
    <3> HIDE DEF m, i
    <3>5. QueueOK(PushedFull(i, Total(disk[n]), TRUE, FALSE), m, state, sent)
      BY <1>0, <3>2, <3>3, <3>4, FullSendOK
    <3>6. QED
      BY <3>1, <3>3, <3>5 DEF m, i
  <2>3. QED
    BY <2>1, <2>2 DEF TopUp, Scanned
<1>4. Shape'
  BY <1>0, <1>1, <1>2, <1>3 DEF Shape
<1>5. QED
  BY <1>0, <1>1, <1>3, <1>4 DEF SenderInv, NameFirst

\* A top-up that fails leaves a row or a dump, and nothing in the queue.
LEMMA TopUpFailsKeeps == SenderInv /\ TopUpFails => SenderInv'
<1> SUFFICES ASSUME SenderInv, TopUpFails PROVE SenderInv'
  OBVIOUS
<1>0. Shape /\ NameFirst
  BY DEF SenderInv
<1>1. /\ queue' = <<>> /\ half' = "send" /\ process' = "failed"
      /\ UNCHANGED <<state, payload, sent, requests>>
  BY DEF TopUpFails, Stopped
<1>2. DOMAIN disk' \subseteq Names /\ \A n \in DOMAIN disk' : disk'[n] \in Nat
  <2>1. CASE UNCHANGED disk
    BY <1>0, <2>1 DEF Shape
  <2>2. CASE Dumped
    BY <1>0, <2>2, DiskShape, SenderAssumption DEF Dumped
  <2>3. QED
    BY <2>1, <2>2 DEF TopUpFails
<1>3. ledger' \in Seq(Rows)
  <2>1. CASE UNCHANGED ledger
    BY <1>0, <2>1 DEF Shape
  <2>2. ASSUME Scanning, NEW n \in Candidates, ledger' = Upserted(n, disk[n])
        PROVE  ledger' \in Seq(Rows)
    BY <1>0, <2>2, CandidateFacts, UpsertKeeps
  <2>3. QED
    BY <2>1, <2>2 DEF TopUpFails
<1>4. Shape'
  BY <1>0, <1>1, <1>2, <1>3 DEF Shape
<1>5. QED
  BY <1>0, <1>1, <1>4, EmptyOK DEF SenderInv, NameFirst

\* Other programs, failures and restarts, and the scan that loses its file.
LEMMA WorldKeeps == SenderInv /\ (World \/ ScanLosesFile) => SenderInv'
<1> SUFFICES ASSUME SenderInv, World \/ ScanLosesFile PROVE SenderInv'
  OBVIOUS
<1>0. Shape /\ QueueOK(queue, ledger, state, sent) /\ NameFirst
  BY DEF SenderInv
<1>1. ASSUME NEW n \in Names, NEW z \in Nat,
             \/ disk' = Put(disk, n, z)
             \/ disk' = Unlinked(disk, n),
             UNCHANGED <<ledger, queue, state, payload, half, process, sent, requests>>
      PROVE  SenderInv'
  <2>1. Shape'
    BY <1>0, <1>1, DiskShape DEF Shape
  <2>2. QED
    BY <1>0, <1>1, <2>1 DEF SenderInv, NameFirst
<1>2. ASSUME NEW n \in Names, NEW z \in Sizes, WriteFile(n, z) \/ ResizeFile(n, z)
      PROVE  SenderInv'
  BY <1>1, <1>2, SenderAssumption DEF WriteFile, ResizeFile
<1>3. ASSUME NEW n \in Names, DeleteFile(n) PROVE SenderInv'
  BY <1>1, <1>3 DEF DeleteFile
<1>4. CASE Kill
  <2>1. Shape'
    BY <1>0, <1>4 DEF Shape, Kill, Stopped
  <2>2. QED
    BY <1>0, <1>4, <2>1, EmptyOK DEF SenderInv, NameFirst, Kill, Stopped
<1>5. CASE OsCrash
  <2>1. ledger' \in Seq(Rows)
    BY <1>0, <1>5 DEF Shape, OsCrash
  <2>2. Shape'
    BY <1>0, <1>5, <2>1 DEF Shape, OsCrash, Stopped
  <2>3. QED
    BY <1>0, <1>5, <2>2, EmptyOK DEF SenderInv, NameFirst, OsCrash, Stopped
<1>6. CASE Restart
  <2>1. payload' \in PayloadSizes /\ InitialState \in States
    BY <1>0, <1>6, SenderAssumption DEF Shape, Restart
  <2>2. Shape'
    BY <1>0, <1>6, <2>1 DEF Shape, Restart
  <2>3. QED
    BY <1>0, <1>6, <2>2, EmptyOK DEF SenderInv, NameFirst, Restart
<1>7. CASE ScanLosesFile
  <2>1. PICK n \in Candidates : disk' = Unlinked(disk, n)
    BY <1>7 DEF ScanLosesFile
  <2>2. n \in Names
    BY DEF Candidates
  <2>3. Shape'
    BY <1>0, <1>7, <2>1, <2>2, DiskShape DEF Shape, ScanLosesFile, Stopped
  <2>4. QED
    BY <1>0, <1>7, <2>3, EmptyOK DEF SenderInv, NameFirst, ScanLosesFile, Stopped
<1>8. QED
  BY <1>2, <1>3, <1>4, <1>5, <1>6, <1>7 DEF World

\* Every step keeps the inductive invariant.
LEMMA SenderNext == SenderInv /\ [Next]_vars => SenderInv'
<1> SUFFICES ASSUME SenderInv, [Next]_vars PROVE SenderInv'
  OBVIOUS
<1>1. CASE UNCHANGED vars
  BY <1>1 DEF vars, SenderInv, Shape, NameFirst
<1>2. CASE Next
  BY <1>2, RequestsKeep, SendNextKeeps, TopUpKeeps, TopUpFailsKeeps, WorldKeeps DEF Next
<1>3. QED
  BY <1>1, <1>2

\* No id in the queue is unknown to the ledger, whatever the requests, the
\* scans and the failures: the sender's state is well typed.
THEOREM TypeCorrect == Spec => []TypeOK
<1>1. QED
  BY SenderInit, SenderNext, InvImplies, PTL DEF Spec

\* The receiver is told a file's name before it gets any of its data, for all
\* interleavings of requests, file system changes, crashes and restarts.
THEOREM NamesComeFirst == Spec => []NameFirst
<1>1. SenderInv => NameFirst
  BY DEF SenderInv
<1>2. QED
  BY <1>1, SenderInit, SenderNext, PTL DEF Spec

\* What the scan queued is never left over in a state it was not meant for.
THEOREM ScanRespectsState == Spec => []QueueMatchesState
<1>1. QED
  BY SenderInit, SenderNext, InvImplies, PTL DEF Spec
-----------------------------------------------------------------------------
(* File ids.                                                               *)

\* A name has one row, and every packet sent was about the row it names.
IdsOK ==
  /\ \A i, j \in DOMAIN ledger : ledger[i].name = ledger[j].name => i = j
  /\ \A p \in sent : p.id \in DOMAIN ledger /\ p.name = ledger[p.id].name

\* A step that keeps all names, and sends nothing or a packet about a row.
LEMMA SameNamesKeep ==
  ASSUME IdsOK, DOMAIN ledger' = DOMAIN ledger,
         \A i \in DOMAIN ledger : ledger'[i].name = ledger[i].name,
         \A p \in sent' \ sent : p.id \in DOMAIN ledger /\ p.name = ledger[p.id].name
  PROVE  IdsOK'
  BY DEF IdsOK

\* Registering a file keeps names apart.
LEMMA UpsertKeepsIds ==
  ASSUME Shape, IdsOK, NEW n \in Names, NEW z \in Nat,
         ledger' = Upserted(n, z), sent' = sent
  PROVE  IdsOK'
<1> DEFINE row == [name |-> n, size |-> z, still_exists |-> TRUE]
<1>1. /\ ledger \in Seq(Rows) /\ Len(ledger) \in Nat
      /\ DOMAIN ledger = 1 .. Len(ledger) /\ row \in Rows
  BY DEF Shape, Rows
<1>2. CASE IdsOf(n) # {}
  BY <1>2, SameNamesKeep DEF Upserted
<1>3. CASE IdsOf(n) = {}
  <2>1. ledger' = Append(ledger, row) /\ row.name = n
    BY <1>3 DEF Upserted
  <2> HIDE DEF row
  <2>2. /\ DOMAIN ledger' = 1 .. Len(ledger) + 1
        /\ \A i \in 1 .. Len(ledger) : ledger'[i] = ledger[i]
        /\ ledger'[Len(ledger) + 1] = row
    BY <1>1, <2>1
  <2>3. \A i \in DOMAIN ledger : ledger[i].name # n
    BY <1>3 DEF IdsOf
  <2>4. ASSUME NEW i \in DOMAIN ledger', NEW j \in DOMAIN ledger',
               ledger'[i].name = ledger'[j].name
        PROVE  i = j
    <3>1. CASE i \in DOMAIN ledger /\ j \in DOMAIN ledger
      BY <1>1, <2>2, <2>4, <3>1 DEF IdsOK
    <3>2. CASE i = Len(ledger) + 1 \/ j = Len(ledger) + 1
      BY <1>1, <2>1, <2>2, <2>3, <2>4, <3>2
    <3>3. QED
      BY <1>1, <2>2, <3>1, <3>2
  <2>5. \A p \in sent' : p.id \in DOMAIN ledger' /\ p.name = ledger'[p.id].name
    BY <1>1, <2>2 DEF IdsOK
  <2>6. QED
    BY <2>4, <2>5 DEF IdsOK
<1>4. QED
  BY <1>2, <1>3

\* Every step but an OS crash keeps ids and names together.
LEMMA IdsKept ==
  ASSUME "os_crash" \notin Events, SenderInv, IdsOK, [Next]_vars
  PROVE  IdsOK'
<1>0. Shape
  BY DEF SenderInv
<1>1. CASE UNCHANGED <<ledger, sent>>
  BY <1>1, SameNamesKeep
<1>2. ASSUME NEW n \in Names, NEW interrupt \in BOOLEAN, Submit(n, interrupt)
      PROVE  IdsOK'
  <2>1. disk[n] \in Nat
    BY <1>0, <1>2 DEF Shape, Submit
  <2>2. QED
    BY <1>0, <1>2, <2>1, UpsertKeepsIds DEF Submit
<1>3. ASSUME NEW recheck \in BOOLEAN, NEW dump \in BOOLEAN, TopUp(recheck, dump)
      PROVE  IdsOK'
  <2>1. CASE UNCHANGED ledger
    BY <1>1, <1>3, <2>1 DEF TopUp
  <2>2. CASE Scanning /\ Candidates # {} /\ Scanned
    <3>1. PICK n \in Candidates : ledger' = Upserted(n, disk[n])
      BY <2>2 DEF Scanned
    <3>2. n \in Names /\ disk[n] \in Nat
      BY <1>0, <2>2, CandidateFacts
    <3>3. sent' = sent
      BY <1>3 DEF TopUp
    <3>4. QED
      BY <1>0, <3>1, <3>2, <3>3, UpsertKeepsIds
  <2>3. QED
    BY <1>3, <2>1, <2>2 DEF TopUp, Scanned
<1>4. CASE SendManifest \/ SendChunk
  <2>1. queue # <<>> /\ ledger' = ledger
    BY <1>4 DEF SendManifest, SendChunk, Popping
  <2>2. Head(queue).id \in DOMAIN ledger
    BY <2>1, HeadFacts
  <2>3. \A p \in sent' \ sent : p.id = Head(queue).id /\ p.name = ledger[p.id].name
    BY <1>4 DEF SendManifest, SendChunk, Packet
  <2>4. QED
    BY <2>1, <2>2, <2>3, SameNamesKeep
<1>5. CASE ChunkFileGone
  <2>1. queue # <<>> /\ ledger' = MarkedGone(Head(queue).id) /\ sent' = sent
    BY <1>5 DEF ChunkFileGone, Popping
  <2>2. Head(queue).id \in DOMAIN ledger
    BY <2>1, HeadFacts
  <2>3. QED
    BY <1>0, <2>1, <2>2, MarkKeeps, SameNamesKeep
<1>6. CASE Requests
  BY <1>1, <1>2, <1>6
  DEF Requests, EnqueueFile, EnqueueRange, ResendName, SetState, Flush,
      ChangeChunkSize
<1>7. CASE SendNext
  BY <1>1, <1>4, <1>5, <1>7
  DEF SendNext, NothingToSend, ManifestFileGone, SendNextFails, ChunkOutOfRange
<1>8. CASE World \/ ScanLosesFile
  BY <1>1, <1>8
  DEF World, WriteFile, ResizeFile, DeleteFile, Kill, OsCrash, Restart, ScanLosesFile
<1>9. CASE TopUpFails
  <2>1. sent' = sent
    BY <1>9 DEF TopUpFails
  <2>2. CASE UNCHANGED ledger
    BY <1>1, <2>1, <2>2
  <2>3. ASSUME Scanning, NEW n \in Candidates, ledger' = Upserted(n, disk[n])
        PROVE  IdsOK'
    BY <1>0, <2>1, <2>3, CandidateFacts, UpsertKeepsIds
  <2>4. QED
    BY <1>9, <2>2, <2>3 DEF TopUpFails
<1>10. CASE UNCHANGED vars
  BY <1>1, <1>10 DEF vars
<1>11. QED
  BY <1>3, <1>6, <1>7, <1>8, <1>9, <1>10 DEF Next

\* As long as the ledger's transactions survive, a file_id means one file and
\* a file has one file_id in everything the sender ever sent.
THEOREM IdsAreStable ==
  ASSUME "os_crash" \notin Events
  PROVE  Spec => []OneFilePerId
<1>1. Init => IdsOK
  BY DEF Init, IdsOK
<1>2. IdsOK => OneFilePerId
  BY DEF IdsOK, OneFilePerId
<1>3. SenderInv /\ IdsOK /\ [Next]_vars => IdsOK'
  BY IdsKept
<1>4. QED
  BY <1>1, <1>2, <1>3, SenderInit, SenderNext, PTL DEF Spec
-----------------------------------------------------------------------------
(* The queue as the ground sees it.                                        *)

\* An item's range lies within what its file was taken to have when it was queued,
\* and is empty only if that was nothing.
InCut(x) == x.start + x.count <= x.cut /\ (x.count = 0 => x.cut = 0)

\* A manifest item stands for one packet.
Whole(x) == InCut(x) /\ (x.kind = "Manifest" => x.start = 0 /\ x.count = 1)

\* What one request, or one scan, pushes: a manifest, a range to retransmit, or
\* a full send.
Single(x) ==
  /\ InCut(x)
  /\ \/ x.kind = "Manifest" /\ x.start = 0 /\ x.count = 1
     \/ x.kind = "Retransmit" /\ x.count > 0

Full(x, y) ==
  /\ InCut(x) /\ InCut(y)
  /\ x.kind = "Manifest" /\ x.start = 0 /\ x.count = 1
  /\ y.kind = "Data" /\ y.start = 0 /\ y.id = x.id

PushStep ==
  /\ sent' = sent
  /\ \/ \E x \in Items : Single(x) /\ (queue' = <<x>> \o queue \/ queue' = queue \o <<x>>)
     \/ \E x, y \in Items : Full(x, y) /\ (queue' = <<x, y>> \o queue
                                           \/ queue' = queue \o <<x, y>>)

\* What a packet that was sent does to the queue.
RestOf(h) == Item(h.kind, h.id, h.start + 1, h.count - 1, h.cut, h.auto)

PacketStep ==
  /\ queue # <<>>
  /\ LET h == Head(queue) IN
       /\ \E p : /\ p.kind = h.kind /\ p.id = h.id
                 /\ p.chunk = IF h.kind = "Manifest" THEN 0 ELSE h.start
                 /\ sent' = sent \cup {p}
       /\ queue' = IF h.kind # "Manifest" /\ h.count > 1
                   THEN <<RestOf(h)>> \o Tail(queue) ELSE Tail(queue)

DropStep == queue # <<>> /\ queue' = Tail(queue) /\ sent' = sent

ClearStep == queue' = <<>> /\ sent' = sent

QueueStep ==
  PushStep \/ PacketStep \/ DropStep \/ ClearStep \/ UNCHANGED <<queue, sent>>

\* push_full_file pushes a full send.
LEMMA PushedFullStep ==
  ASSUME SenderInv, NEW i \in Nat \ {0}, NEW total \in Nat, NEW auto \in BOOLEAN,
         NEW interrupt \in BOOLEAN,
         queue' = PushedFull(i, total, auto, interrupt), sent' = sent
  PROVE  PushStep
<1> DEFINE x == NameItem(i, auto)
           y == Item("Data", i, 0, total, total, auto)
<1>1. x \in Items /\ y \in Items /\ Full(x, y)
  BY DEF NameItem, Item, Items, Full, InCut
<1>2. queue' = IF interrupt THEN <<x, y>> \o queue ELSE queue \o <<x, y>>
  BY DEF PushedFull
<1> HIDE DEF x, y
<1>3. QED
  BY <1>1, <1>2 DEF PushStep

\* push_front or push_back of one item.
LEMMA PushedStep ==
  ASSUME SenderInv, NEW x \in Items, Single(x), NEW interrupt \in BOOLEAN,
         queue' = Pushed(x, interrupt), sent' = sent
  PROVE  PushStep
<1>1. queue \in Seq(Items)
  BY DEF SenderInv, QueueOK
<1>2. Append(queue, x) = queue \o <<x>>
  BY <1>1
<1>3. QED
  BY <1>2 DEF PushStep, Pushed

\* A request changes the queue by what it pushes, or empties it.
LEMMA RequestsQueue == SenderInv /\ Requests => QueueStep
<1> SUFFICES ASSUME SenderInv, Requests PROVE QueueStep
  OBVIOUS
<1>0. /\ Shape
      /\ \A i \in DOMAIN ledger : i \in Nat \ {0} /\ ledger[i].size \in Nat
  BY InvFacts DEF SenderInv
<1>1. ASSUME NEW i \in DOMAIN ledger, NEW interrupt \in BOOLEAN,
             EnqueueFile(i, interrupt)
      PROVE  PushStep
  BY <1>0, <1>1, TotalNat, PushedFullStep DEF EnqueueFile
<1>2. ASSUME NEW i \in DOMAIN ledger, NEW interrupt \in BOOLEAN,
             NEW start \in Nat, NEW count \in Nat,
             EnqueueRange(i, start, count, interrupt)
      PROVE  PushStep
  <2> DEFINE total == Total(ledger[i].size)
             c == Clamped(count, total - start)
             x == Item("Retransmit", i, start, c, total, FALSE)
  <2>1. total \in Nat /\ start < total
    BY <1>0, <1>2, TotalNat DEF EnqueueRange
  <2>2. c \in Nat /\ c > 0 /\ start + c <= total
    BY <2>1 DEF Clamped
  <2>3. x \in Items /\ Single(x)
    BY <1>0, <2>1, <2>2 DEF Item, Items, Single, InCut
  <2>4. QED
    BY <1>2, <2>3, PushedStep DEF EnqueueRange
<1>3. ASSUME NEW n \in Names, NEW interrupt \in BOOLEAN, Submit(n, interrupt)
      PROVE  PushStep
  <2>1. disk[n] \in Nat
    BY <1>0, <1>3 DEF Shape, Submit
  <2>2. UpsertedId(n) \in Nat \ {0} /\ Total(disk[n]) \in Nat
    BY <1>0, <2>1, UpsertKeeps, TotalNat
  <2>3. QED
    BY <1>3, <2>2, PushedFullStep DEF Submit
<1>4. ASSUME NEW i \in DOMAIN ledger, ResendName(i) PROVE PushStep
  <2> DEFINE x == NameItem(i, FALSE)
  <2>1. x \in Items /\ Single(x)
    BY <1>0 DEF NameItem, Item, Items, Single, InCut
  <2>2. QED
    BY <1>4, <2>1, PushedStep DEF ResendName
<1>5. ASSUME NEW s \in States, SetState(s)
      PROVE  ClearStep \/ UNCHANGED <<queue, sent>>
  BY <1>5 DEF SetState, ClearStep
<1>6. CASE Flush \/ \E p \in PayloadSizes : ChangeChunkSize(p)
  BY <1>6 DEF Flush, ChangeChunkSize, ClearStep, QueueStep
<1>7. QED
  <2>1. 0 .. MaxIndex \subseteq Nat
    BY SenderAssumption
  <2>2. QED
    BY <1>1, <1>2, <1>3, <1>4, <1>5, <1>6, <2>1 DEF Requests, QueueStep

\* send_next sends the head's first packet, drops the head, or ends the process.
LEMMA SendNextQueue == SenderInv /\ SendNext => QueueStep
<1> SUFFICES ASSUME SenderInv, SendNext PROVE QueueStep
  OBVIOUS
<1>1. CASE NothingToSend
  BY <1>1 DEF NothingToSend, QueueStep
<1>2. CASE SendManifest
  <2> DEFINE h == Head(queue)
             p == Packet("Manifest", h.id, 0, Total(disk[HeadName]))
  <2>1. queue # <<>> /\ h.kind = "Manifest" /\ queue' = Tail(queue)
        /\ sent' = sent \cup {p}
    BY <1>2 DEF SendManifest, Popping
  <2>2. p.kind = "Manifest" /\ p.id = h.id /\ p.chunk = 0
    BY DEF Packet
  <2> HIDE DEF p
  <2>3. QED
    BY <2>1, <2>2 DEF PacketStep, QueueStep
<1>3. CASE SendChunk
  <2> DEFINE h == Head(queue)
             p == Packet(h.kind, h.id, h.start, Total(disk[HeadName]))
  <2>1. /\ queue # <<>> /\ h.kind \in {"Data", "Retransmit"}
        /\ sent' = sent \cup {p}
        /\ queue' = IF h.count > 1 THEN <<RestOf(h)>> \o Tail(queue) ELSE Tail(queue)
    BY <1>3 DEF SendChunk, Popping, RestOf
  <2>2. p.kind = h.kind /\ p.id = h.id /\ p.chunk = h.start
    BY DEF Packet
  <2>3. h.kind # "Manifest"
    BY <2>1
  <2> HIDE DEF p
  <2>4. QED
    BY <2>1, <2>2, <2>3 DEF PacketStep, QueueStep
<1>4. CASE ChunkFileGone
  BY <1>4 DEF ChunkFileGone, Popping, DropStep, QueueStep
<1>5. CASE ManifestFileGone \/ SendNextFails \/ ChunkOutOfRange
  BY <1>5
  DEF ManifestFileGone, SendNextFails, ChunkOutOfRange, Stopped, ClearStep, QueueStep
<1>6. QED
  BY <1>1, <1>2, <1>3, <1>4, <1>5 DEF SendNext

\* Every step of the sender is one of these on its queue.
LEMMA StepsOfQueue == SenderInv /\ [Next]_vars => QueueStep
<1> SUFFICES ASSUME SenderInv, [Next]_vars PROVE QueueStep
  OBVIOUS
<1>1. ASSUME NEW recheck \in BOOLEAN, NEW dump \in BOOLEAN, TopUp(recheck, dump)
      PROVE  PushStep \/ UNCHANGED <<queue, sent>>
  <2>1. CASE UNCHANGED queue
    BY <1>1, <2>1 DEF TopUp
  <2>2. CASE Scanning /\ Candidates # {} /\ Scanned
    <3>1. PICK n \in Candidates :
            queue' = PushedFull(UpsertedId(n), Total(disk[n]), TRUE, FALSE)
      BY <2>2 DEF Scanned
    <3>2. n \in Names /\ disk[n] \in Nat
      BY <2>2, CandidateFacts DEF SenderInv
    <3>3. UpsertedId(n) \in Nat \ {0} /\ Total(disk[n]) \in Nat
      BY <3>2, UpsertKeeps, TotalNat DEF SenderInv
    <3>4. QED
      BY <1>1, <3>1, <3>3, PushedFullStep DEF TopUp
  <2>3. QED
    BY <1>1, <2>1, <2>2 DEF TopUp, Scanned
<1>2. CASE World \/ ScanLosesFile \/ TopUpFails
  BY <1>2
  DEF World, WriteFile, ResizeFile, DeleteFile, Kill, OsCrash, Restart,
      ScanLosesFile, TopUpFails, Stopped, ClearStep, QueueStep
<1>3. CASE UNCHANGED vars
  BY <1>3 DEF vars, QueueStep
<1>4. QED
  BY <1>1, <1>2, <1>3, RequestsQueue, SendNextQueue DEF Next, QueueStep

\* Every manifest item in the queue stands for one packet.
AllWhole == \A k \in 1 .. Len(queue) : Whole(queue[k])

\* Pushing and taking items keeps them so.
LEMMA ConcatWhole ==
  ASSUME NEW q \in Seq(Items), NEW r \in Seq(Items),
         \A k \in 1 .. Len(q) : Whole(q[k]), \A k \in 1 .. Len(r) : Whole(r[k])
  PROVE  \A k \in 1 .. Len(q \o r) : Whole((q \o r)[k])
<1> DEFINE s == q \o r
<1>1. /\ Len(q) \in Nat /\ Len(r) \in Nat /\ Len(s) = Len(q) + Len(r)
      /\ \A k \in 1 .. Len(s) : s[k] = IF k <= Len(q) THEN q[k] ELSE r[k - Len(q)]
  OBVIOUS
<1> HIDE DEF s
<1>2. ASSUME NEW k \in 1 .. Len(s) PROVE Whole(s[k])
  <2>1. CASE k <= Len(q)
    BY <1>1, <2>1
  <2>2. CASE ~(k <= Len(q))
    <3>1. k - Len(q) \in 1 .. Len(r) /\ s[k] = r[k - Len(q)]
      BY <1>1, <2>2
    <3>2. QED
      BY <3>1
  <2>3. QED
    BY <2>1, <2>2
<1>3. QED
  BY <1>2 DEF s

LEMMA WholeKept == SenderInv /\ AllWhole /\ [Next]_vars => AllWhole'
<1> SUFFICES ASSUME SenderInv, AllWhole, [Next]_vars PROVE AllWhole'
  OBVIOUS
<1>0. queue \in Seq(Items) /\ QueueStep
  BY StepsOfQueue DEF SenderInv, QueueOK
<1>1. ASSUME NEW x \in Items, Whole(x)
      PROVE  <<x>> \in Seq(Items) /\ \A k \in 1 .. Len(<<x>>) : Whole(<<x>>[k])
  BY <1>1
<1>2. ASSUME NEW x \in Items, NEW y \in Items, Whole(x), Whole(y)
      PROVE  /\ <<x, y>> \in Seq(Items)
             /\ \A k \in 1 .. Len(<<x, y>>) : Whole(<<x, y>>[k])
  BY <1>2
<1>3. queue # <<>> => /\ Tail(queue) \in Seq(Items) /\ Head(queue) \in Items
                      /\ \A k \in 1 .. Len(Tail(queue)) : Whole(Tail(queue)[k])
  <2> SUFFICES ASSUME queue # <<>>
               PROVE  /\ Tail(queue) \in Seq(Items) /\ Head(queue) \in Items
                      /\ \A k \in 1 .. Len(Tail(queue)) : Whole(Tail(queue)[k])
    OBVIOUS
  <2>1. /\ Tail(queue) \in Seq(Items) /\ Head(queue) \in Items
        /\ Len(queue) \in Nat \ {0} /\ Len(Tail(queue)) = Len(queue) - 1
        /\ \A k \in 1 .. Len(Tail(queue)) : Tail(queue)[k] = queue[k + 1]
    BY <1>0
  <2>2. \A k \in 1 .. Len(Tail(queue)) : k + 1 \in 1 .. Len(queue)
    BY <2>1
  <2>3. QED
    BY <2>1, <2>2 DEF AllWhole
<1>4. CASE PushStep
  <2>1. ASSUME NEW x \in Items, Single(x),
               queue' = <<x>> \o queue \/ queue' = queue \o <<x>>
        PROVE  AllWhole'
    <3>1. Whole(x)
      BY <2>1 DEF Single, Whole
    <3>2. <<x>> \in Seq(Items) /\ \A k \in 1 .. Len(<<x>>) : Whole(<<x>>[k])
      BY <1>1, <3>1
    <3> DEFINE r == <<x>>
    <3> HIDE DEF r
    <3>3. /\ \A k \in 1 .. Len(r \o queue) : Whole((r \o queue)[k])
          /\ \A k \in 1 .. Len(queue \o r) : Whole((queue \o r)[k])
      BY <1>0, <3>2, ConcatWhole DEF r, AllWhole
    <3>4. QED
      BY <2>1, <3>3 DEF r, AllWhole
  <2>2. ASSUME NEW x \in Items, NEW y \in Items, Full(x, y),
               queue' = <<x, y>> \o queue \/ queue' = queue \o <<x, y>>
        PROVE  AllWhole'
    <3>1. Whole(x) /\ Whole(y)
      BY <2>2 DEF Full, Whole
    <3> DEFINE r == <<x, y>>
    <3>2. r \in Seq(Items) /\ \A k \in 1 .. Len(r) : Whole(r[k])
      BY <1>2, <3>1
    <3> HIDE DEF r
    <3>3. /\ \A k \in 1 .. Len(r \o queue) : Whole((r \o queue)[k])
          /\ \A k \in 1 .. Len(queue \o r) : Whole((queue \o r)[k])
      BY <1>0, <3>2, ConcatWhole DEF AllWhole
    <3>4. QED
      BY <2>2, <3>3 DEF r, AllWhole
  <2>3. QED
    BY <1>4, <2>1, <2>2 DEF PushStep
<1>5. CASE PacketStep
  <2> DEFINE h == Head(queue)
  <2>1. CASE h.kind # "Manifest" /\ h.count > 1
    <3>1. RestOf(h) \in Items /\ RestOf(h).kind = h.kind
      BY <1>3, <1>5, <2>1, RestIsItem DEF PacketStep, RestOf
    <3>2. Whole(RestOf(h))
      <4>1. h \in Items /\ InCut(h)
        <5>1. h = queue[1] /\ 1 \in 1 .. Len(queue) /\ h \in Items
          BY <1>0, <1>5 DEF PacketStep
        <5>2. QED
          BY <5>1 DEF AllWhole, Whole
      <4>2. /\ h.start \in Nat /\ h.count \in Nat /\ h.cut \in Nat
            /\ RestOf(h).start = h.start + 1 /\ RestOf(h).count = h.count - 1
            /\ RestOf(h).cut = h.cut
        BY <4>1 DEF Items, RestOf, Item
      <4> HIDE DEF h
      <4>3. InCut(RestOf(h))
        BY <2>1, <4>1, <4>2 DEF InCut
      <4>4. QED
        BY <2>1, <3>1, <4>3 DEF Whole
    <3> DEFINE r == <<RestOf(h)>>
               t == Tail(queue)
    <3>3. r \in Seq(Items) /\ \A k \in 1 .. Len(r) : Whole(r[k])
      BY <1>1, <3>1, <3>2
    <3>4. t \in Seq(Items) /\ \A k \in 1 .. Len(t) : Whole(t[k])
      BY <1>3, <1>5 DEF PacketStep
    <3>5. queue' = r \o t
      BY <1>5, <2>1 DEF PacketStep
    <3> HIDE DEF r, t
    <3>6. \A k \in 1 .. Len(r \o t) : Whole((r \o t)[k])
      BY <3>3, <3>4, ConcatWhole
    <3>7. QED
      BY <3>5, <3>6 DEF AllWhole
  <2>2. CASE ~(h.kind # "Manifest" /\ h.count > 1)
    BY <1>3, <1>5, <2>2 DEF PacketStep, AllWhole
  <2>3. QED
    BY <2>1, <2>2
<1>6. CASE DropStep
  BY <1>3, <1>6 DEF DropStep, AllWhole
<1>7. CASE ClearStep \/ UNCHANGED <<queue, sent>>
  BY <1>7 DEF ClearStep, AllWhole
<1>8. QED
  BY <1>0, <1>4, <1>5, <1>6, <1>7 DEF QueueStep

\* An item, a queue and a packet without what only the sender knows.
Plain(x) == [kind |-> x.kind, id |-> x.id, start |-> x.start, count |-> x.count]
View(q) == [k \in DOMAIN q |-> Plain(q[k])]
OnWire(p) == [names |-> p.kind = "Manifest", id |-> p.id, chunk |-> p.chunk, num |-> p.num]

PlainItems == [kind : {"Manifest", "Data", "Retransmit"}, id : Nat \ {0},
               start : Nat, count : Nat]

\* The view of a queue is a queue of the same length, with the same head.
LEMMA ViewFacts ==
  ASSUME NEW q \in Seq(Items)
  PROVE  /\ View(q) \in Seq(PlainItems) /\ Len(View(q)) = Len(q)
         /\ \A k \in 1 .. Len(q) : View(q)[k] = Plain(q[k])
<1>1. \A x \in Items : Plain(x) \in PlainItems
  BY DEF Items, Plain, PlainItems
<1>2. Len(q) \in Nat /\ DOMAIN q = 1 .. Len(q) /\ \A k \in 1 .. Len(q) : q[k] \in Items
  OBVIOUS
<1>3. View(q) = [k \in 1 .. Len(q) |-> Plain(q[k])]
  BY <1>2 DEF View
<1>4. \A k \in 1 .. Len(q) : Plain(q[k]) \in PlainItems
  BY <1>1, <1>2
<1>5. QED
  BY <1>2, <1>3, <1>4

\* The view of a concatenation and of a tail.
LEMMA ViewConcat ==
  ASSUME NEW q \in Seq(Items), NEW r \in Seq(Items)
  PROVE  View(q \o r) = View(q) \o View(r)
<1> DEFINE s == q \o r
           x == View(q)
           y == View(r)
           v == x \o y
<1>1. /\ s \in Seq(Items) /\ Len(s) = Len(q) + Len(r)
      /\ Len(q) \in Nat /\ Len(r) \in Nat
      /\ \A k \in 1 .. Len(s) : s[k] = IF k <= Len(q) THEN q[k] ELSE r[k - Len(q)]
  OBVIOUS
<1>2. /\ x \in Seq(PlainItems) /\ Len(x) = Len(q)
      /\ \A k \in 1 .. Len(q) : x[k] = Plain(q[k])
      /\ y \in Seq(PlainItems) /\ Len(y) = Len(r)
      /\ \A k \in 1 .. Len(r) : y[k] = Plain(r[k])
  BY ViewFacts
<1> HIDE DEF x, y
<1>3. /\ v \in Seq(PlainItems) /\ Len(v) = Len(q) + Len(r)
      /\ \A k \in 1 .. Len(v) :
           v[k] = IF k <= Len(q) THEN x[k] ELSE y[k - Len(q)]
  <2>1. x \in Seq(PlainItems) /\ y \in Seq(PlainItems) /\ Len(x) = Len(q) /\ Len(y) = Len(r)
    BY <1>2
  <2>2. /\ v \in Seq(PlainItems) /\ Len(v) = Len(x) + Len(y)
        /\ \A k \in 1 .. Len(v) :
             v[k] = IF k <= Len(x) THEN x[k] ELSE y[k - Len(x)]
    BY <2>1
  <2> QED BY <2>1, <2>2
<1> HIDE DEF s, v
<1>4. /\ View(s) \in Seq(PlainItems) /\ Len(View(s)) = Len(s)
      /\ \A k \in 1 .. Len(s) : View(s)[k] = Plain(s[k])
  BY <1>1, ViewFacts
<1>5. ASSUME NEW k \in 1 .. Len(s) PROVE View(s)[k] = v[k]
  <2>1. CASE k <= Len(q)
    <3>1. k \in 1 .. Len(q) /\ k \in 1 .. Len(v)
      BY <1>1, <1>3, <2>1
    <3>2. View(s)[k] = Plain(s[k]) /\ s[k] = q[k]
      BY <1>1, <1>4, <2>1
    <3>3. v[k] = x[k] /\ x[k] = Plain(q[k])
      BY <1>2, <1>3, <2>1, <3>1
    <3>4. QED
      BY <3>2, <3>3
  <2>2. CASE ~(k <= Len(q))
    <3>1. k - Len(q) \in 1 .. Len(r)
      BY <1>1, <2>2
    <3>2. QED
      BY <1>1, <1>2, <1>3, <1>4, <2>2, <3>1
  <2>3. QED
    BY <2>1, <2>2
<1>6. View(s) = v
  BY <1>1, <1>3, <1>4, <1>5
<1>7. QED
  BY <1>6 DEF s, v, x, y

LEMMA ViewTail ==
  ASSUME NEW q \in Seq(Items), q # <<>>
  PROVE  /\ View(q) # <<>> /\ Head(View(q)) = Plain(Head(q))
         /\ View(Tail(q)) = Tail(View(q))
<1> DEFINE t == Tail(q)
           v == View(q)
<1>1. /\ t \in Seq(Items) /\ Len(q) \in Nat \ {0} /\ Len(t) = Len(q) - 1
      /\ \A k \in 1 .. Len(t) : t[k] = q[k + 1]
      /\ Head(q) = q[1]
  OBVIOUS
<1>2. /\ v \in Seq(PlainItems) /\ Len(v) = Len(q)
      /\ \A k \in 1 .. Len(q) : v[k] = Plain(q[k])
  BY ViewFacts
<1> HIDE DEF t, v
<1>3. /\ View(t) \in Seq(PlainItems) /\ Len(View(t)) = Len(t)
      /\ \A k \in 1 .. Len(t) : View(t)[k] = Plain(t[k])
  BY <1>1, ViewFacts
<1>4. /\ v # <<>> /\ Head(v) = v[1] /\ Tail(v) \in Seq(PlainItems)
      /\ Len(Tail(v)) = Len(t)
      /\ \A k \in 1 .. Len(t) : Tail(v)[k] = v[k + 1]
  BY <1>1, <1>2
<1>5. \A k \in 1 .. Len(t) : k + 1 \in 1 .. Len(q)
  BY <1>1
<1>6. \A k \in 1 .. Len(t) : View(t)[k] = Tail(v)[k]
  BY <1>1, <1>2, <1>3, <1>4, <1>5
<1>7. View(t) = Tail(v)
  BY <1>3, <1>4, <1>6
<1>8. Head(v) = Plain(Head(q))
  BY <1>1, <1>2, <1>4
<1>9. QED
  BY <1>4, <1>7, <1>8 DEF t, v

\* What was pushed, at either end, is work that SendQueue lets in.
LEMMA WorkPushed ==
  ASSUME NEW items \in Seq(PlainItems), Outgoing!Work(items), Len(items) \in {1, 2},
         queue \in Seq(Items), queue' \in Seq(Items), sent' = sent,
         \/ View(queue') = items \o View(queue)
         \/ View(queue') = View(queue) \o items
  PROVE  Outgoing!PushWork
<1> DEFINE v == View(queue)
           w == View(queue')
<1>1. w = items \o v \/ w = v \o items
  OBVIOUS
<1>2. v \in Seq(PlainItems) /\ Len(v) \in Nat
  BY ViewFacts
<1>3. \E n \in {1, 2} :
        /\ Len(w) = Len(v) + n
        /\ \/ /\ Outgoing!Work(SubSeq(w, 1, n))
              /\ w = SubSeq(w, 1, n) \o v
           \/ /\ Outgoing!Work(SubSeq(w, Len(v) + 1, Len(w)))
              /\ w = v \o SubSeq(w, Len(v) + 1, Len(w))
  <2> HIDE DEF v, w
  <2>1. CASE w = items \o v
    <3>1. Len(w) = Len(items) + Len(v) /\ SubSeq(w, 1, Len(items)) = items
      BY <1>2, <2>1, Prefixed
    <3>2. Len(w) = Len(v) + Len(items)
      BY <1>2, <3>1
    <3>3. QED
      BY <2>1, <3>1, <3>2
  <2>2. CASE w = v \o items
    <3>1. Len(w) = Len(v) + Len(items) /\ SubSeq(w, Len(v) + 1, Len(w)) = items
      BY <1>2, <2>2, Prefixed
    <3>2. QED
      BY <2>2, <3>1
  <2>3. QED
    BY <1>1, <2>1, <2>2
<1>4. QED
  BY <1>3 DEF View, Plain, Outgoing!PushWork, Outgoing!Push

\* A packet that was sent is a packet of the head's, and the rest stays ahead.
LEMMA PacketMaps ==
  ASSUME SenderInv, AllWhole, PacketStep PROVE Outgoing!Send
<1> DEFINE h == Head(queue)
           v == View(queue)
<1>1. queue \in Seq(Items) /\ queue # <<>>
  BY DEF SenderInv, QueueOK, PacketStep
<1>2. /\ v # <<>> /\ Head(v) = Plain(h) /\ View(Tail(queue)) = Tail(v)
      /\ Tail(queue) \in Seq(Items)
  BY <1>1, ViewTail
<1>3. h \in Items /\ Whole(h)
  <2>1. h = queue[1] /\ 1 \in 1 .. Len(queue) /\ h \in Items
    BY <1>1
  <2>2. QED
    BY <2>1 DEF AllWhole
<1>4. PICK p : /\ p.kind = h.kind /\ p.id = h.id
               /\ p.chunk = IF h.kind = "Manifest" THEN 0 ELSE h.start
               /\ sent' = sent \cup {p}
  BY DEF PacketStep
<1>5. p.chunk = h.start
  BY <1>3, <1>4 DEF Whole
<1>6. View(queue') = IF h.count > 1
                     THEN <<[kind |-> h.kind, id |-> h.id, start |-> h.start + 1,
                             count |-> h.count - 1]>> \o Tail(v)
                     ELSE Tail(v)
  <2>1. CASE h.kind # "Manifest" /\ h.count > 1
    <3>1. RestOf(h) \in Items
      BY <1>3, <2>1, RestIsItem DEF RestOf
    <3>2. queue' = <<RestOf(h)>> \o Tail(queue)
      BY <2>1 DEF PacketStep
    <3>3. <<RestOf(h)>> \in Seq(Items) /\ View(<<RestOf(h)>>) = <<Plain(RestOf(h))>>
      BY <3>1 DEF View
    <3>4. View(queue') = <<Plain(RestOf(h))>> \o Tail(v)
      BY <1>2, <3>2, <3>3, ViewConcat
    <3>5. Plain(RestOf(h)) = [kind |-> h.kind, id |-> h.id, start |-> h.start + 1,
                              count |-> h.count - 1]
      BY DEF Plain, RestOf, Item
    <3>6. QED
      BY <2>1, <3>4, <3>5
  <2>2. CASE ~(h.kind # "Manifest" /\ h.count > 1)
    <3>1. ~(h.count > 1)
      BY <1>3, <2>2 DEF Whole
    <3>2. QED
      BY <1>2, <2>2, <3>1 DEF PacketStep
  <2>3. QED
    BY <2>1, <2>2
<1>7. View(queue') = IF Head(v).count > 1
                     THEN <<Outgoing!Item(Head(v).kind, Head(v).id, Head(v).start + 1,
                                          Head(v).count - 1)>> \o Tail(v)
                     ELSE Tail(v)
  <2>1. /\ Head(v).kind = h.kind /\ Head(v).id = h.id
        /\ Head(v).start = h.start /\ Head(v).count = h.count
    BY <1>2 DEF Plain
  <2>2. QED
    BY <1>6, <2>1 DEF Outgoing!Item
<1>8. /\ {OnWire(m) : m \in sent'} = {OnWire(m) : m \in sent} \cup {OnWire(p)}
      /\ OnWire(p) \in {OnWire(m) : m \in sent'}
  BY <1>4
<1>9. Outgoing!Carries(OnWire(p), Head(v))
  BY <1>2, <1>4, <1>5 DEF Outgoing!Carries, OnWire, Plain
<1>10. QED
  <2>1. v # <<>> /\ \E o \in {OnWire(m) : m \in sent'} :
                      /\ Outgoing!Carries(o, Head(v))
                      /\ {OnWire(m) : m \in sent'} = {OnWire(m) : m \in sent} \cup {o}
    BY <1>2, <1>8, <1>9
  <2>2. QED
    BY <1>7, <2>1 DEF View, Plain, OnWire, Outgoing!Send, Outgoing!Rest

\* What a request or a scan pushes is work.
LEMMA PushMaps ==
  ASSUME SenderInv, SenderInv', PushStep PROVE Outgoing!PushWork
<1>1. queue \in Seq(Items) /\ queue' \in Seq(Items) /\ sent' = sent
  BY DEF SenderInv, QueueOK, PushStep
<1>2. ASSUME NEW x \in Items, Single(x),
             queue' = <<x>> \o queue \/ queue' = queue \o <<x>>
      PROVE  Outgoing!PushWork
  <2> DEFINE items == <<Plain(x)>>
  <2>1. <<x>> \in Seq(Items) /\ View(<<x>>) = items
    BY DEF View
  <2>2. View(queue') = items \o View(queue) \/ View(queue') = View(queue) \o items
    BY <1>1, <1>2, <2>1, ViewConcat
  <2>3. Plain(x) \in PlainItems /\ Plain(x).id \in Nat \ {0}
    BY DEF Plain, PlainItems, Items
  <2>4. items \in Seq(PlainItems) /\ Len(items) = 1 /\ items[1] = Plain(x)
    BY <2>3
  <2>5. \/ Plain(x) = Outgoing!Item("Manifest", Plain(x).id, 0, 1)
        \/ Plain(x).kind = "Retransmit" /\ Plain(x).count > 0
    BY <1>2 DEF Single, Plain, Outgoing!Item
  <2>6. Outgoing!Work(items)
    BY <2>3, <2>4, <2>5 DEF Outgoing!Work
  <2> HIDE DEF items
  <2>7. QED
    BY <1>1, <2>2, <2>4, <2>6, WorkPushed
<1>3. ASSUME NEW x \in Items, NEW y \in Items, Full(x, y),
             queue' = <<x, y>> \o queue \/ queue' = queue \o <<x, y>>
      PROVE  Outgoing!PushWork
  <2> DEFINE items == <<Plain(x), Plain(y)>>
  <2>1. <<x, y>> \in Seq(Items) /\ View(<<x, y>>) = items
    BY DEF View
  <2>2. View(queue') = items \o View(queue) \/ View(queue') = View(queue) \o items
    BY <1>1, <1>3, <2>1, ViewConcat
  <2>3. Plain(x) \in PlainItems /\ Plain(x).id \in Nat \ {0} /\ Plain(y) \in PlainItems
    BY DEF Plain, PlainItems, Items
  <2>4. /\ items \in Seq(PlainItems) /\ Len(items) = 2
        /\ items[1] = Plain(x) /\ items[2] = Plain(y)
    BY <2>3
  <2>5. /\ Plain(x) = Outgoing!Item("Manifest", Plain(x).id, 0, 1)
        /\ Plain(y) = Outgoing!Item("Data", Plain(x).id, 0, Plain(y).count)
    BY <1>3 DEF Full, Plain, Outgoing!Item
  <2>6. Outgoing!Work(items)
    BY <2>3, <2>4, <2>5 DEF Outgoing!Work, Outgoing!FullSend
  <2> HIDE DEF items
  <2>7. QED
    BY <1>1, <2>2, <2>4, <2>6, WorkPushed
<1>4. QED
  BY <1>2, <1>3 DEF PushStep

\* Each step of the sender is a step of SendQueue, or none.
LEMMA QueueNext ==
  SenderInv /\ SenderInv' /\ AllWhole /\ [Next]_vars => [Outgoing!Next]_(Outgoing!vars)
<1> SUFFICES ASSUME SenderInv, SenderInv', AllWhole, [Next]_vars
             PROVE  [Outgoing!Next]_(Outgoing!vars)
  OBVIOUS
<1>1. QueueStep /\ queue \in Seq(Items)
  BY StepsOfQueue DEF SenderInv, QueueOK
<1>2. CASE PushStep
  BY <1>2, PushMaps DEF Outgoing!Next
<1>3. CASE PacketStep
  BY <1>3, PacketMaps DEF Outgoing!Next
<1>4. CASE DropStep
  <2>1. View(queue) # <<>> /\ View(queue') = Tail(View(queue))
    BY <1>1, <1>4, ViewTail DEF DropStep
  <2>2. Outgoing!Skip
    BY <1>4, <2>1 DEF DropStep, View, Plain, Outgoing!Skip
  <2>3. QED
    BY <2>2 DEF Outgoing!Next
<1>5. CASE ClearStep
  <2>1. View(queue') = <<>>
    BY <1>5 DEF ClearStep, View
  <2>2. Outgoing!Clear
    BY <1>5, <2>1 DEF ClearStep, View, Plain, Outgoing!Clear
  <2>3. QED
    BY <2>2 DEF Outgoing!Next
<1>6. CASE UNCHANGED <<queue, sent>>
  BY <1>6 DEF Outgoing!vars
<1>7. QED
  BY <1>1, <1>2, <1>3, <1>4, <1>5, <1>6 DEF QueueStep

\* The ground can rely on the queue it reads: between two looks at it, it was
\* only extended by whole requests, served from its head, or dropped, and all
\* that was sent had been at its head.
THEOREM QueueRefined == Spec => ImplementsQueue
<1>1. Init => AllWhole
  BY DEF Init, AllWhole
<1>2. Init => Outgoing!Init
  BY DEF Init, Outgoing!Init
<1>3. QED
  BY <1>1, <1>2, SenderInit, SenderNext, WholeKept, QueueNext, PTL
  DEF Spec, ImplementsQueue, Outgoing!Spec
-----------------------------------------------------------------------------
(* What ends the loop.                                                     *)

\* A chunk that is out of range is out of what its file was taken to have.
LEMMA OutOfRangeForCause ==
  ASSUME SenderInv, AllWhole, ChunkOutOfRange
  PROVE  /\ HeadName \in DOMAIN disk
         /\ Total(disk[HeadName]) < Head(queue).cut \/ Total(disk[HeadName]) = 0
<1> DEFINE h == Head(queue)
           total == Total(disk[HeadName])
<1>1. queue # <<>> /\ HeadName \in DOMAIN disk /\ h.start >= total
  BY DEF ChunkOutOfRange, Popping
<1>2. h \in Items /\ InCut(h)
  <2>1. queue \in Seq(Items)
    BY DEF SenderInv, QueueOK
  <2>2. h = queue[1] /\ 1 \in 1 .. Len(queue) /\ h \in Items
    BY <1>1, <2>1
  <2>3. QED
    BY <2>2 DEF AllWhole, Whole
<1>3. total \in Nat
  BY <1>1, TotalNat DEF SenderInv, Shape
<1>4. h.start \in Nat /\ h.count \in Nat /\ h.cut \in Nat
  BY <1>2 DEF Items
<1> HIDE DEF total, h
<1>5. total < h.cut \/ total = 0
  BY <1>1, <1>2, <1>3, <1>4 DEF InCut
<1>6. QED
  BY <1>1, <1>5 DEF total, h

\* The three ways out of run() over a file, and no other.
LEMMA ExitSteps ==
  ASSUME [Next]_vars, process = "running", process' = "exited"
  PROVE  ManifestFileGone \/ ChunkOutOfRange \/ ScanLosesFile
<1>1. CASE Requests
  BY <1>1 DEF Requests, EnqueueFile, EnqueueRange, Submit, ResendName, SetState, Flush,
              ChangeChunkSize
<1>2. CASE SendNext
  BY <1>2 DEF SendNext, NothingToSend, SendManifest, SendNextFails, SendChunk,
              ChunkFileGone, Stopped
<1>3. CASE (\E recheck, dump \in BOOLEAN : TopUp(recheck, dump)) \/ TopUpFails
  BY <1>3 DEF TopUp, TopUpFails, Stopped
<1>4. CASE World
  BY <1>4 DEF World, WriteFile, ResizeFile, DeleteFile, Kill, OsCrash, Restart, Stopped
<1>5. CASE UNCHANGED vars
  BY <1>5 DEF vars
<1>6. QED
  BY <1>1, <1>2, <1>3, <1>4, <1>5 DEF Next

\* Whatever is asked of the sender, its loop ends over a file only when others took
\* the file or made it shorter in chunks; what it queued itself it can send.
THEOREM LoopEndsForCause == Spec => EndsForCause
<1> DEFINE Cause ==
      process = "running" /\ process' = "exited" =>
        \/ \E n \in DOMAIN disk : n \notin DOMAIN disk'
        \/ HeadName \notin DOMAIN disk /\ Head(queue).kind = "Manifest"
        \/ /\ HeadName \in DOMAIN disk
           /\ Total(disk[HeadName]) < Head(queue).cut \/ Total(disk[HeadName]) = 0
<1>1. Init => AllWhole
  BY DEF Init, AllWhole
<1>2. SenderInv /\ AllWhole /\ [Next]_vars => [Cause]_vars
  <2> SUFFICES ASSUME SenderInv, AllWhole, [Next]_vars,
                      process = "running", process' = "exited"
               PROVE  Cause
    OBVIOUS
  <2>1. CASE ManifestFileGone
    BY <2>1 DEF ManifestFileGone, Popping
  <2>2. CASE ChunkOutOfRange
    BY <2>2, OutOfRangeForCause
  <2>3. CASE ScanLosesFile
    <3>1. PICK n \in Candidates : disk' = Unlinked(disk, n) /\ Scanning
      BY <2>3 DEF ScanLosesFile
    <3>2. n \in DOMAIN disk
      BY <3>1, CandidateFacts DEF SenderInv
    <3>3. n \notin DOMAIN disk'
      BY <3>1 DEF Unlinked
    <3>4. QED
      BY <3>2, <3>3
  <2>4. QED
    BY <2>1, <2>2, <2>3, ExitSteps
<1>3. QED
  BY <1>1, <1>2, SenderInit, SenderNext, WholeKept, PTL DEF Spec, EndsForCause
=============================================================================
