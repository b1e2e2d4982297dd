------------------------------ MODULE SendQueue ------------------------------
(***************************************************************************)
(* The sender as the ground sees it through SenderStatus and the link: a   *)
(* queue of work, from whose head one packet at a time goes on the wire.   *)
(* The cleaner reads the queue and acts on it later; this is what can have *)
(* happened to it in between.                                              *)
(***************************************************************************)
EXTENDS Integers, Sequences

CONSTANT Files    \* file ids

VARIABLES
  queue,          \* items [kind, id, start, count]
  wire            \* packets [names, id, chunk, num] that have been sent; the
                  \* receiver tells those that name a file from those with a
                  \* chunk, but not a first sending from a retransmission

vars == <<queue, wire>>

Item(kind, i, start, count) == [kind |-> kind, id |-> i, start |-> start, count |-> count]

FullSend(i, n) == <<Item("Manifest", i, 0, 1), Item("Data", i, 0, n)>>

\* What a request or the directory scan adds.
Work(items) ==
  /\ items[1].id \in Files
  /\ \/ items = <<Item("Manifest", items[1].id, 0, 1)>>
     \/ Len(items) = 1 /\ items[1].kind = "Retransmit" /\ items[1].count > 0
     \/ Len(items) = 2 /\ items = FullSend(items[1].id, items[2].count)

\* The queue after the head's first packet is sent.
Rest ==
  LET h == Head(queue) IN
  IF h.count > 1 THEN <<Item(h.kind, h.id, h.start + 1, h.count - 1)>> \o Tail(queue)
  ELSE Tail(queue)

\* p is the first packet of item h; its chunk count is the file's at that moment.
Carries(p, h) == p.names = (h.kind = "Manifest") /\ p.id = h.id /\ p.chunk = h.start

Init == queue = <<>> /\ wire = {}

Push(items, interrupt) ==
  /\ queue' = IF interrupt THEN items \o queue ELSE queue \o items
  /\ UNCHANGED wire

\* Some work is pushed.
PushWork ==
  \E n \in {1, 2} :
    /\ Len(queue') = Len(queue) + n
    /\ \/ Work(SubSeq(queue', 1, n)) /\ Push(SubSeq(queue', 1, n), TRUE)
       \/ LET items == SubSeq(queue', Len(queue) + 1, Len(queue'))
          IN  Work(items) /\ Push(items, FALSE)

Send ==
  /\ queue # <<>>
  /\ queue' = Rest
  /\ \E p \in wire' : Carries(p, Head(queue)) /\ wire' = wire \cup {p}

\* The file is gone: its item is dropped.
Skip ==
  /\ queue # <<>>
  /\ queue' = Tail(queue)
  /\ UNCHANGED wire

\* A flush, a change of state, or the end of the process.
Clear ==
  /\ queue' = <<>>
  /\ UNCHANGED wire

Next == PushWork \/ Send \/ Skip \/ Clear

Spec == Init /\ [][Next]_vars
=============================================================================
