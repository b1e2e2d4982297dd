------------------------------- MODULE Cleaner -------------------------------
(***************************************************************************)
(* The cleaner daemon's repair pass (run_pass of cleaner/mod.rs) and its   *)
(* TTL dedup table, between the receiver's holding directory and the       *)
(* sender's queue.                                                         *)
(*                                                                         *)
(* The pass takes no lock across its awaits and file reads: `status`,      *)
(* `ids` and `planned` are what it read, possibly long ago.  Around it are *)
(* the two daemons as it can see them, Holding (which Reassembler          *)
(* implements) and SendQueue (which Sender implements), and the link       *)
(* between them, which loses, delays and repeats packets.  Time is counted *)
(* in seconds left to an expiry, so there is no clock.                     *)
(***************************************************************************)
EXTENDS ManifestFile

CONSTANTS
  Files,          \* file ids, numbers
  Cuts,           \* for every chunk size in use, [Files -> number of chunks]
  max_in_flight,  \* of the active link's budget
  Ttl,            \* dedup_ttl_secs
  I31,            \* 2^31: `start as i32`
  None,           \* no status: the sender could not be asked
  Faults,         \* what may go wrong, see FaultKinds
  MaxIncidents,   \* bound: incidents, see there
  MaxQueue,       \* bound: items in the sender's queue when more is asked for
  MaxWire         \* bound: packets on the link

FaultKinds ==
  {"refused",      \* a request has no effect: an error, or a connection that fails
   "timeout",      \* no answer: no status, or a request that is carried out
   "kill",         \* the cleaner is stopped, in a pass or between two
   "delete",       \* the payload's copy of a file is deleted
   "chunk_size",   \* the sender is given another chunk size
   "operator",     \* someone else queues a file
   "again"}        \* a late packet of a landed file makes a new assembly

ASSUME CleanerAssumption ==
  /\ Files \subseteq Nat /\ IsFiniteSet(Files)
  /\ Cuts \subseteq [Files -> Nat \ {0}] /\ Cuts # {} /\ IsFiniteSet(Cuts)
  /\ max_in_flight \in Nat /\ Ttl \in Nat \ {0} /\ I31 \in Nat \ {0}
  /\ Faults \subseteq FaultKinds
  /\ MaxIncidents \in Nat /\ MaxQueue \in Nat \ {0} /\ MaxWire \in Nat \ {0}

VARIABLES
  holding,        \* id -> [num, named, bits], the manifests (see Holding)
  landed,         \* ids that were finalized
  queue,          \* the sender's queue (see SendQueue)
  wire,           \* packets on the link
  known,          \* ids in the sender's ledger
  gone,           \* ids whose file was deleted on the payload
  cut,            \* the chunk counts at the sender's present chunk size
  pc,             \* where the cleaner is
  status,         \* the queue as SenderStatus reported it, or None
  ids,            \* what is left of the listing of the holding directory
  planned,        \* the requests of this pass still to be considered
  acked,          \* `sent`: requests of this pass answered with Ok
  dedup,          \* DedupTable.entries: request -> seconds until it expires
  saved,          \* state_path
  asked,          \* history: request -> what is left of Ttl since it was taken
                  \* up, less a second for every restart (save rounds down);
                  \* if a pass is cut short, what the state file says
  incidents,      \* history: how many there were
  disturbed       \* history: a whole file was queued since `status`, by the scan,
                  \* by someone else, or for a request that wraps

daemon == <<pc, status, ids, planned, acked, dedup, saved>>
payload == <<known, gone, cut>>
others == <<holding, landed, queue, wire, payload>>
vars == <<others, daemon, asked, disturbed, incidents>>

PCs == {"idle", "list", "name", "ranges", "consider", "call", "save", "down"}

Rx == INSTANCE Holding WITH Counts <- [i \in Files |-> {c[i] : c \in Cuts}]
Tx == INSTANCE SendQueue

MaxCount == CHOOSE n \in {c[i] : c \in Cuts, i \in Files} :
              \A c \in Cuts, i \in Files : c[i] <= n

ChunkRange(i, start, count) == [kind |-> "Retransmit", id |-> i, start |-> start, count |-> count]
Name(i) == [kind |-> "ResendName", id |-> i, start |-> 0, count |-> 0]

Requests == {ChunkRange(i, s, c) : i \in Files, s \in 0 .. MaxCount - 1, c \in 1 .. MaxCount}
            \cup {Name(i) : i \in Files}

Init ==
  /\ Rx!Init /\ Tx!Init
  /\ landed = {} /\ known = {} /\ gone = {} /\ cut \in Cuts
  /\ pc = "idle"
  /\ status = None
  /\ ids = <<>> /\ planned = <<>>
  /\ acked = 0
  /\ dedup = <<>> /\ saved = <<>> /\ asked = <<>>
  /\ disturbed = FALSE /\ incidents = 0

\* What happens now and then, and not MaxIncidents times.
Incident(kind) ==
  /\ kind \in Faults
  /\ incidents < MaxIncidents
  /\ incidents' = incidents + 1
-----------------------------------------------------------------------------
(* Manifests and ranges.                                                   *)

Overlap(r, e) == r.start < e.start + e.count /\ e.start < r.start + r.count

\* A set of numbers in ascending order.
Ascending(S) ==
  [k \in 1 .. Cardinality(S) |-> CHOOSE x \in S : Cardinality({y \in S : y <= x}) = k]

\* Mutated form: a run is pushed when a set bit ends it, not at the end.
MissingRangesOpenEnd(i, m) ==
  LET ranges == SelectSeq(MissingRangesOf(Bitmap(m.bits, m.num), m.num),
                          LAMBDA r : r[1] + r[2] # m.num)
  IN  [k \in DOMAIN ranges |-> ChunkRange(i, ranges[k][1], ranges[k][2])]

\* Manifest::missing_ranges, as requests for file i.
MissingRanges(i, m) ==
  LET ranges == MissingRangesOf(Bitmap(m.bits, m.num), m.num)
  IN  [k \in DOMAIN ranges |-> ChunkRange(i, ranges[k][1], ranges[k][2])]

\* Mutated form: the ends of ranges are taken as inclusive on one side only.
IsAlreadyPendingOffByOne(r) ==
  /\ status # None
  /\ \E k \in DOMAIN status :
       /\ status[k].id = r.id
       /\ IF r.kind = "ResendName" THEN status[k].kind = "Manifest"
          ELSE /\ status[k].kind # "Manifest"
               /\ r.start + 1 < status[k].start + status[k].count
               /\ status[k].start < r.start + r.count

\* is_already_pending, on the snapshot the queue made of itself.
IsAlreadyPending(r) ==
  /\ status # None
  /\ \E k \in DOMAIN status :
       /\ status[k].id = r.id
       /\ IF r.kind = "ResendName" THEN status[k].kind = "Manifest"
          ELSE status[k].kind # "Manifest" /\ Overlap(r, status[k])
-----------------------------------------------------------------------------
(* Dedup table: a function from requests to the seconds (at least one) until
   they expire.  try_insert cannot tell an expired entry from none, so an
   entry goes when it expires and gc has nothing left to do.               *)

Insert(table, r) ==
  [q \in DOMAIN table \cup {r} |-> IF q = r THEN Ttl ELSE table[q]]

\* A second passes.
Aged(table) == [q \in {p \in DOMAIN table : table[p] > 1} |-> table[q] - 1]

\* Mutated form: the expiry is saved as an instant of the old process.
PersistedInstants(table) == <<>>

\* save: the whole seconds that remain, rounded down.
Persisted(table) == Aged(table)
-----------------------------------------------------------------------------
(* The pass.                                                               *)

\* The timer, or CleanerRunNow, starts a pass: the sender is asked for its queue.
AskStatus ==
  /\ pc = "idle"
  /\ \/ status' = queue
     \/ "timeout" \in Faults /\ status' = None
  /\ disturbed' = FALSE
  /\ pc' = "list"
  /\ UNCHANGED <<others, ids, planned, acked, dedup, saved, asked, incidents>>

NextFile(left) == IF left = <<>> THEN "consider" ELSE "name"

\* in_flight: the ids in ascending order.
ListHolding ==
  /\ pc = "list"
  /\ ids' = Ascending(DOMAIN holding)
  /\ pc' = NextFile(ids')
  /\ UNCHANGED <<others, status, planned, acked, dedup, saved, asked, disturbed, incidents>>

\* has_name(id).unwrap_or(false): no manifest, no name.
ReadName ==
  /\ pc = "name"
  /\ LET i == Head(ids)
         named == i \in DOMAIN holding /\ holding[i].named
     IN  planned' = IF named THEN planned ELSE Append(planned, Name(i))
  /\ pc' = "ranges"
  /\ UNCHANGED <<others, status, ids, acked, dedup, saved, asked, disturbed, incidents>>

\* missing_ranges(id): the manifest is opened a second time.
ReadRanges ==
  /\ pc = "ranges"
  /\ LET i == Head(ids) IN
     planned' = IF i \in DOMAIN holding
                  THEN planned \o MissingRanges(i, holding[i]) ELSE planned
  /\ ids' = Tail(ids)
  /\ pc' = NextFile(ids')
  /\ UNCHANGED <<others, status, acked, dedup, saved, asked, disturbed, incidents>>

\* Mutated form: one request too many.
ExhaustedLate == acked > max_in_flight

Exhausted == acked >= max_in_flight

\* The plan is done or the budget is spent: what the pass has read is dropped.
EndOfPlan ==
  /\ pc = "consider"
  /\ planned = <<>> \/ Exhausted
  /\ planned' = <<>> /\ status' = None /\ acked' = 0
  /\ disturbed' = FALSE
  /\ pc' = "save"
  /\ UNCHANGED <<others, ids, dedup, saved, asked, incidents>>

Considering == pc = "consider" /\ planned # <<>> /\ ~Exhausted

SkipRequest ==
  /\ Considering
  /\ IsAlreadyPending(Head(planned)) \/ Head(planned) \in DOMAIN dedup
  /\ planned' = Tail(planned)
  /\ UNCHANGED <<others, pc, status, ids, acked, dedup, saved, asked, disturbed, incidents>>

\* try_insert, before the pause of min_period_ms and the call.
TakeRequest ==
  /\ Considering
  /\ ~IsAlreadyPending(Head(planned)) /\ Head(planned) \notin DOMAIN dedup
  /\ dedup' = Insert(dedup, Head(planned))
  /\ asked' = Insert(asked, Head(planned))
  /\ pc' = "call"
  /\ UNCHANGED <<others, status, ids, planned, acked, saved, disturbed, incidents>>

\* From chunk 2^31 on, `start as i32` is negative, which asks for the whole file.
Wraps(r) == r.kind = "Retransmit" /\ r.start >= I31

\* What enqueue and resend_name make of r.
Enqueued(r) ==
  LET left == cut[r.id] - r.start IN
  IF r.kind = "ResendName" THEN <<Tx!Item("Manifest", r.id, 0, 1)>>
  ELSE IF Wraps(r) THEN Tx!FullSend(r.id, cut[r.id])
  ELSE <<Tx!Item("Retransmit", r.id, r.start, IF r.count < left THEN r.count ELSE left)>>

Room == Len(queue) < MaxQueue

\* enqueue's OutOfRange: the request is numbered for another chunk size.
OutOfRange(r) == r.kind = "Retransmit" /\ ~Wraps(r) /\ r.start >= cut[r.id]

\* The call, as the cleaner sees its answer (ok) and as the sender did it.
Call(ok, done) ==
  /\ pc = "call"
  /\ LET r == Head(planned) IN
     IF done THEN ~OutOfRange(r) /\ Room /\ Tx!Push(Enqueued(r), TRUE)
     ELSE UNCHANGED <<queue, wire>>
  /\ acked' = IF ok THEN acked + 1 ELSE acked
  /\ planned' = Tail(planned)
  /\ pc' = "consider"
  /\ disturbed' = (disturbed \/ (done /\ status # None /\ Wraps(Head(planned))))
  /\ UNCHANGED <<holding, landed, payload, status, ids, dedup, saved, asked>>

CallOk == Call(TRUE, TRUE) /\ UNCHANGED incidents
CallTimesOut == Call(FALSE, TRUE) /\ Incident("timeout")
CallFails ==
  /\ pc = "call"
  /\ "refused" \in Faults \/ OutOfRange(Head(planned))
  /\ Call(FALSE, FALSE)
  /\ UNCHANGED incidents

\* gc and save (write, then rename); the pass ends here.
Save ==
  /\ pc = "save"
  /\ saved' = Persisted(dedup)
  /\ pc' = "idle"
  /\ UNCHANGED <<others, status, ids, planned, acked, dedup, asked, disturbed, incidents>>

\* SIGTERM, SIGINT (both process::exit) or a crash.
Stop ==
  /\ Incident("kill") /\ pc # "down"
  /\ pc' = "down"
  /\ status' = None /\ ids' = <<>> /\ planned' = <<>> /\ acked' = 0
  /\ dedup' = <<>>
  /\ asked' = IF pc = "idle" THEN Aged(asked) ELSE saved
  /\ disturbed' = FALSE
  /\ UNCHANGED <<others, saved>>

\* DedupTable::load, and the first pass of the loop.
Start ==
  /\ pc = "down"
  /\ dedup' = saved
  /\ pc' = "idle"
  /\ UNCHANGED <<others, status, ids, planned, acked, saved, asked, disturbed, incidents>>
-----------------------------------------------------------------------------
(* Time, and the daemons around the cleaner.                               *)

Tick ==
  /\ DOMAIN dedup \cup DOMAIN asked # {}
  /\ dedup' = Aged(dedup)
  /\ asked' = Aged(asked)
  /\ UNCHANGED <<others, pc, status, ids, planned, acked, saved, disturbed, incidents>>

\* scan_for_work takes up a new file once the queue is empty.
Scan(i) ==
  /\ queue = <<>>
  /\ i \notin known \cup gone
  /\ known' = known \cup {i}
  /\ Tx!Push(Tx!FullSend(i, cut[i]), FALSE)
  /\ disturbed' = (status # None)
  /\ UNCHANGED <<holding, landed, gone, cut, daemon, asked, incidents>>

\* The reconciler or `ctl` queues a file.
Operator(i) ==
  /\ Incident("operator")
  /\ i \in known /\ Room
  /\ Tx!Push(Tx!FullSend(i, cut[i]), FALSE)
  /\ disturbed' = (status # None)
  /\ UNCHANGED <<holding, landed, payload, daemon, asked>>

\* The first packet of the head of the queue.
HeadPacket ==
  [names |-> Head(queue).kind = "Manifest", id |-> Head(queue).id,
   chunk |-> Head(queue).start, num |-> cut[Head(queue).id]]

SendNext ==
  /\ queue # <<>> /\ Head(queue).id \notin gone
  /\ HeadPacket.chunk < HeadPacket.num
  /\ Cardinality(wire) < MaxWire
  /\ wire' = wire \cup {HeadPacket}
  /\ Tx!Send
  /\ UNCHANGED <<holding, landed, payload, daemon, asked, disturbed, incidents>>

\* A chunk of a file that is gone is dropped.
SendGone ==
  /\ queue # <<>> /\ Head(queue).id \in gone
  /\ Head(queue).kind # "Manifest"
  /\ Tx!Skip
  /\ UNCHANGED <<holding, landed, payload, daemon, asked, disturbed, incidents>>

\* The sender exits and loses its queue: the manifest of a file that is gone, or
\* a chunk number beyond the file's last at the present chunk size.
SenderExits ==
  /\ queue # <<>>
  /\ IF Head(queue).id \in gone THEN Head(queue).kind = "Manifest"
     ELSE HeadPacket.chunk >= HeadPacket.num
  /\ Tx!Clear
  /\ UNCHANGED <<holding, landed, payload, daemon, asked, disturbed, incidents>>

\* The payload deletes its copy.
Delete(i) ==
  /\ Incident("delete")
  /\ i \notin gone
  /\ gone' = gone \cup {i}
  /\ UNCHANGED <<holding, landed, queue, wire, known, cut, daemon, asked, disturbed>>

ChangeChunkSize ==
  /\ Incident("chunk_size")
  /\ cut' \in Cuts \ {cut}
  /\ UNCHANGED <<holding, landed, queue, wire, known, gone, daemon, asked, disturbed>>

Lose(p) ==
  /\ p \in wire
  /\ wire' = wire \ {p}
  /\ UNCHANGED <<holding, landed, queue, payload, daemon, asked, disturbed, incidents>>

\* What ingest does with a packet it does not drop: a chunk's assembly is made,
\* a step before its bit is set; the packet is still in hand then.
Opens(p) ==
  /\ IF p.id \in landed THEN Incident("again") ELSE UNCHANGED incidents
  /\ p.id \notin DOMAIN holding /\ Rx!Open(p.id, p.num, p.names)
Updates(p) ==
  /\ p.id \in DOMAIN holding
  /\ p.num = holding[p.id].num
  /\ IF p.names THEN Rx!LearnName(p.id) ELSE Rx!LearnChunk(p.id, p.chunk)

\* The tail of a file of several chunks is dropped while the chunk size is not
\* known: in a new file, and perhaps in one without a bit.
Tail1(p) == ~p.names /\ p.num > 1 /\ p.chunk = p.num - 1

Arrive(p) ==
  /\ p \in wire
  /\ \/ Opens(p) /\ ~Tail1(p)
     \/ Updates(p) /\ UNCHANGED incidents
  /\ UNCHANGED <<landed, queue, wire, payload, daemon, asked, disturbed>>

\* finalize
Finalize(i) ==
  /\ Rx!Leave(i)
  /\ landed' = landed \cup {i}
  /\ UNCHANGED <<queue, wire, payload, daemon, asked, disturbed, incidents>>
-----------------------------------------------------------------------------
Pass ==
  \/ AskStatus \/ ListHolding \/ ReadName \/ ReadRanges
  \/ EndOfPlan \/ SkipRequest \/ TakeRequest
  \/ CallOk \/ CallTimesOut \/ CallFails
  \/ Save

Link == \E p \in wire : Lose(p) \/ Arrive(p)

Next ==
  \/ Pass \/ Stop \/ Start
  \/ Tick
  \/ \E i \in Files : Scan(i) \/ Operator(i) \/ Delete(i) \/ Finalize(i)
  \/ SendNext \/ SendGone \/ SenderExits \/ ChangeChunkSize
  \/ Link

Spec == Init /\ [][Next]_vars

\* The daemons run and time passes.  A control call about a file succeeds if it
\* is made over and over; and if packets that the file still needs are sent over
\* and over, one arrives.
FairSpec ==
  /\ Spec
  /\ WF_vars(Pass) /\ WF_vars(Start) /\ WF_vars(Tick)
  /\ WF_vars(SendNext \/ SendGone \/ SenderExits)
  /\ WF_vars(\E p \in wire : Lose(p))
  /\ \A i \in Files :
       /\ WF_vars(Finalize(i))
       /\ SF_vars(pc = "call" /\ Head(planned).id = i /\ CallOk)
       /\ SF_vars((\E p \in wire : p.id = i /\ Arrive(p)) /\ holding' # holding)
-----------------------------------------------------------------------------
Table(t) == DOMAIN t \subseteq Requests /\ \A r \in DOMAIN t : t[r] \in 1 .. Ttl

\* Type invariant.
TypeOK ==
  /\ DOMAIN holding \subseteq known
  /\ \A i \in DOMAIN holding :
       /\ holding[i].num \in 1 .. MaxCount /\ holding[i].named \in BOOLEAN
       /\ holding[i].bits \subseteq 0 .. holding[i].num - 1
  /\ landed \subseteq known /\ known \subseteq Files /\ gone \subseteq Files /\ cut \in Cuts
  /\ \A k \in DOMAIN queue : queue[k].id \in known /\ queue[k].count > 0
  /\ \A p \in wire : p.id \in known /\ p.chunk < p.num
  /\ pc \in PCs
  /\ ToSet(ids) \subseteq Files /\ ToSet(planned) \subseteq Requests
  /\ pc = "call" => planned # <<>>
  /\ pc \in {"name", "ranges"} => ids # <<>>
  /\ acked \in 0 .. max_in_flight
  /\ Table(dedup) /\ Table(saved) /\ Table(asked)
  /\ disturbed \in BOOLEAN

\* The sender has r, or some of it, in its queue.
Queued(r) ==
  \E k \in DOMAIN queue :
    /\ queue[k].id = r.id
    /\ IF r.kind = "ResendName" THEN queue[k].kind = "Manifest"
       ELSE queue[k].kind # "Manifest" /\ Overlap(r, queue[k])

\* "never re-request something already pending": a pass that could read the
\* sender's queue asks for nothing that is in it, although the queue is drained
\* and filled by its own requests while the pass runs, and whatever an earlier
\* pass that was killed, or was told of a timeout, left in it; unless the
\* directory scan or someone else queues a file after the status was read, or
\* the pass itself by asking for a range past chunk 2^31.
NeverDoubled ==
  [][pc = "call" /\ pc' = "consider" /\ queue' # queue =>
       status = None \/ disturbed \/ ~Queued(Head(planned))]_vars

\* "Duplicates are dropped": the same range is not taken up again within
\* dedup_ttl_secs (less a second for every restart), whether or not the sender
\* can be asked for its queue, and a "cleaner restart does not immediately
\* re-fire requests it sent seconds before", those of a pass that was cut short
\* and never saved its table excepted.
NoRefire ==
  [][pc = "consider" /\ pc' = "call" =>
       Head(planned) \notin DOMAIN asked]_vars

\* "finds gaps in in-flight assemblies, and asks the sender to retransmit them":
\* when a pass opens an assembly's sidecar, while the receiver goes on writing it,
\* each chunk that is missing at that moment is in exactly one of the ranges it
\* adds to its plan, and no chunk that was received is in any.
PlansTheGaps ==
  [][pc = "ranges" /\ ids' # ids /\ pc' # "down" /\ Head(ids) \in DOMAIN holding =>
       LET m == holding[Head(ids)]
           added == Len(planned) + 1 .. Len(planned')
           asks(k, c) == /\ planned'[k].kind = "Retransmit" /\ planned'[k].id = Head(ids)
                         /\ c \in planned'[k].start .. planned'[k].start + planned'[k].count - 1
       IN  \A c \in 0 .. m.num - 1 :
             IF c \in m.bits THEN \A k \in added : ~asks(k, c)
             ELSE \E k \in added : asks(k, c) /\ \A j \in added \ {k} : ~asks(j, c)]_vars

\* The bitmap is a set of chunks, over the ends of its bytes and with bits set in
\* the padding of the last one: a file counts as complete exactly when every chunk
\* of it was marked, what is asked for again are the runs of chunks that were
\* not, in order, and the number reported as received is that of those that were.
\* So whenever there is an assembly, its sidecar may be taken for `bits`, for all
\* counts up to MaxChunks.
BitmapIsASet == holding # <<>> => Marking /\ Membership /\ Ranges /\ Counting

\* The sender cuts files the way the assemblies under way were cut.
SameCut == \A i \in DOMAIN holding : holding[i].num = cut[i]

\* Every file the ground knows of is completed in the end, "the cleaner already
\* chases its gaps", whatever is lost or refused and wherever in a pass the
\* cleaner is killed, also a file that lands and is begun again.  It takes the
\* sender to return to the chunk size an assembly was begun with: until then
\* requests are refused, or answered with packets that do not fit.  And no
\* assembly may be left of a file deleted on the payload: asked for in every
\* pass, it can take up the budget for good, or end the sender, and its queue,
\* each time.
Repaired ==
  <>[](SameCut /\ DOMAIN holding \cap gone = {}) => <>[](holding = <<>>)
=============================================================================
