------------------------------- MODULE Sender --------------------------------
(***************************************************************************)
(* The sender daemon: the SQLite ledger, the in-memory packet queue, the   *)
(* control requests that change them and the main loop that drains the     *)
(* queue and tops it up from the watched directories.                      *)
(*                                                                         *)
(* Every control request and either half of SenderRuntime::tick holds the  *)
(* runtime's mutex from start to end, so each is one action; between the   *)
(* two halves the lock is free.  The filesystem belongs to other programs  *)
(* and changes at any moment.  A request the sender refuses changes        *)
(* nothing and is not a step.  The link packets go to and the rate are in  *)
(* LinkSettings and RateLimiter; here only the payload size matters.       *)
(***************************************************************************)
EXTENDS ChunkMath, Sequences

CONSTANTS
  Names,          \* absolute paths on the payload
  Snapshots,      \* those of the ledger dumps, files_sent_list_<unix>.csv
  PriorityDirs,   \* [sender] priority_dirs: the names below each, in order
  DebugDirs,      \* [sender] priority_dirs_debug
  Stem,           \* path of a .bz2/.gz file -> its path without the suffix
  Allowed,        \* names that pass the extension filter
  Sizes,          \* file sizes
  PayloadSizes,   \* chunk_size - HEADER_LEN, for every chunk_size in use
  InitialState,   \* [sender] initial_state
  Events,         \* what may happen around the sender, see EventKinds
  MaxRequests,    \* bound: enqueue, submit and resend_name requests served
  MaxIndex        \* bound: largest start and count a request names

States == {"Auto", "Manual", "Paused", "Debug"}

EventKinds == {"resize", "delete", "chunk_size", "set_state", "flush",
               "kill", "os_crash", "io_error"}

ASSUME SenderAssumption ==
  /\ Snapshots \subseteq Names /\ Allowed \subseteq Names
  /\ PriorityDirs \in Seq(SUBSET Names) /\ DebugDirs \in Seq(SUBSET Names)
  /\ Stem \in [DOMAIN Stem -> Names]
  /\ Sizes \subseteq Nat /\ PayloadSizes \subseteq Nat \ {0}
  /\ InitialState \in States
  /\ Events \subseteq EventKinds
  /\ MaxRequests \in Nat /\ MaxIndex \in Nat

VARIABLES
  disk,           \* the payload's files: name -> size, for those that exist
  ledger,         \* the `files` table; a file_id is a row's position
  queue,          \* PacketQueue.items
  state,          \* SenderRuntime.state
  payload,        \* current_chunk_size() - HEADER_LEN
  half,           \* the half of tick() that runs next: "send" or "topup"
  process,        \* "running", or how run() was left: "exited" over what it found
                  \* of a file, "failed" in a call to the system, or "killed"
  sent,           \* history: the packets put on the wire so far
  requests        \* how many requests were served

vars == <<disk, ledger, queue, state, payload, half, process, sent, requests>>

Rows == [name : Names, size : Nat, still_exists : BOOLEAN]

\* History, for the properties: `cut` is how many chunks the file was taken to have
\* when the item was queued, `auto` whether the directory scan queued it.
Items == [kind : {"Manifest", "Data", "Retransmit"}, id : Nat \ {0},
          start : Nat, count : Nat, cut : Nat, auto : BOOLEAN]

Init ==
  /\ disk = <<>>
  /\ ledger = <<>>
  /\ queue = <<>>
  /\ state = InitialState
  /\ payload \in PayloadSizes
  /\ half = "send"
  /\ process = "running"
  /\ sent = {}
  /\ requests = 0
-----------------------------------------------------------------------------
(* Ledger.                                                                 *)

\* Mutated form: rows of files that are gone are passed over.
IdsOfPresent(n) ==
  {i \in DOMAIN ledger : ledger[i].name = n /\ ledger[i].still_exists}

\* get_by_name: the ids (at most one) of the row called n.
IdsOf(n) == {i \in DOMAIN ledger : ledger[i].name = n}

\* The table after upsert_file: a known row is left as it was first written.
Upserted(n, size) ==
  IF IdsOf(n) # {} THEN ledger
  ELSE Append(ledger, [name |-> n, size |-> size, still_exists |-> TRUE])

\* Mutated form: last_insert_rowid is read before the insert.
UpsertedIdStale(n) == IF IdsOf(n) # {} THEN CHOOSE i \in IdsOf(n) : TRUE
                      ELSE Len(ledger)

\* The id upsert_file returns.
UpsertedId(n) == IF IdsOf(n) # {} THEN CHOOSE i \in IdsOf(n) : TRUE
                 ELSE Len(ledger) + 1

\* The table after mark_gone.
MarkedGone(i) == [ledger EXCEPT ![i].still_exists = FALSE]
-----------------------------------------------------------------------------
(* Queue.                                                                  *)

Item(kind, i, start, count, cut, auto) ==
  [kind |-> kind, id |-> i, start |-> start, count |-> count, cut |-> cut, auto |-> auto]

NameItem(i, auto) == Item("Manifest", i, 0, 1, 1, auto)

Pushed(item, interrupt) ==
  IF interrupt THEN <<item>> \o queue ELSE Append(queue, item)

\* Mutated form: both ends pushed in the same order.
PushedFullDataFirst(i, total, auto, interrupt) ==
  LET items == <<Item("Data", i, 0, total, total, auto), NameItem(i, auto)>>
  IN  IF interrupt THEN items \o queue
      ELSE Append(Append(queue, items[2]), items[1])

\* The queue after push_full_file.
PushedFull(i, total, auto, interrupt) ==
  LET items == <<NameItem(i, auto), Item("Data", i, 0, total, total, auto)>>
  IN  IF interrupt THEN items \o queue ELSE queue \o items

Total(size) == chunks_for_size(size, payload)
-----------------------------------------------------------------------------
(* Control requests (ControlAdapter::handle).                              *)

Serving == process = "running" /\ requests < MaxRequests

Served == requests' = requests + 1

\* enqueue with start < 0: a full send, sized by the ledger.
EnqueueFile(i, interrupt) ==
  /\ Serving /\ i \in DOMAIN ledger
  /\ queue' = PushedFull(i, Total(ledger[i].size), FALSE, interrupt)
  /\ Served
  /\ UNCHANGED <<disk, ledger, state, payload, half, process, sent>>

\* count.max(1).min(total - s)
Clamped(count, left) ==
  LET c == IF count < 1 THEN 1 ELSE count IN IF c < left THEN c ELSE left

\* Mutated form: only start > total is refused.
EnqueueRangeOffByOne(i, start, count, interrupt) ==
  /\ Serving /\ i \in DOMAIN ledger
  /\ LET total == Total(ledger[i].size) IN
       /\ start <= total
       /\ queue' = Pushed(Item("Retransmit", i, start,
                               Clamped(count, total - start), total, FALSE), interrupt)
  /\ Served
  /\ UNCHANGED <<disk, ledger, state, payload, half, process, sent>>

\* enqueue with start >= 0: a range of retransmits; start >= total is refused.
EnqueueRange(i, start, count, interrupt) ==
  /\ Serving /\ i \in DOMAIN ledger
  /\ LET total == Total(ledger[i].size) IN
       /\ start < total
       /\ queue' = Pushed(Item("Retransmit", i, start,
                               Clamped(count, total - start), total, FALSE), interrupt)
  /\ Served
  /\ UNCHANGED <<disk, ledger, state, payload, half, process, sent>>

\* submit: registers the file if need be; sized by the file, not the ledger.
Submit(n, interrupt) ==
  /\ Serving /\ n \in DOMAIN disk
  /\ ledger' = Upserted(n, disk[n])
  /\ queue' = PushedFull(UpsertedId(n), Total(disk[n]), FALSE, interrupt)
  /\ Served
  /\ UNCHANGED <<disk, state, payload, half, process, sent>>

ResendName(i) ==
  /\ Serving /\ i \in DOMAIN ledger
  /\ queue' = Pushed(NameItem(i, FALSE), TRUE)
  /\ Served
  /\ UNCHANGED <<disk, ledger, state, payload, half, process, sent>>

\* Mutated form: only pausing drops the queue.
SetStateKeepsQueue(s) ==
  /\ process = "running" /\ "set_state" \in Events
  /\ state' = s
  /\ queue' = IF s = "Paused" THEN <<>> ELSE queue
  /\ UNCHANGED <<disk, ledger, payload, half, process, sent, requests>>

SetState(s) ==
  /\ process = "running" /\ "set_state" \in Events
  /\ state' = s
  /\ queue' = IF s \in {"Manual", "Paused", "Debug"} THEN <<>> ELSE queue
  /\ UNCHANGED <<disk, ledger, payload, half, process, sent, requests>>

Flush ==
  /\ process = "running" /\ "flush" \in Events
  /\ queue' = <<>>
  /\ UNCHANGED <<disk, ledger, state, payload, half, process, sent, requests>>

\* An override or a reload of the config file changes the chunk size.
ChangeChunkSize(p) ==
  /\ process = "running" /\ "chunk_size" \in Events
  /\ payload' = p
  /\ UNCHANGED <<disk, ledger, queue, state, half, process, sent, requests>>
-----------------------------------------------------------------------------
(* First half of tick: send_next.                                          *)

Sending == process = "running" /\ half = "send"

\* The process ends, and its memory with it.
Stopped(how) == process' = how /\ queue' = <<>> /\ half' = "send"

\* The file the head of the queue is about.
HeadName == ledger[Head(queue).id].name

NothingToSend ==
  /\ Sending
  /\ state = "Paused" \/ queue = <<>>
  /\ half' = "topup"
  /\ UNCHANGED <<disk, ledger, queue, state, payload, process, sent, requests>>

Popping(kinds) ==
  Sending /\ state # "Paused" /\ queue # <<>> /\ Head(queue).kind \in kinds

Packet(kind, i, chunk, num) ==
  [kind |-> kind, id |-> i, name |-> ledger[i].name, chunk |-> chunk, num |-> num]

SendManifest ==
  /\ Popping({"Manifest"})
  /\ HeadName \in DOMAIN disk
  /\ sent' = sent \cup {Packet("Manifest", Head(queue).id, 0, Total(disk[HeadName]))}
  /\ queue' = Tail(queue)
  /\ UNCHANGED <<disk, ledger, state, payload, half, process, requests>>

\* Chunker::open's NotFound is an error of a Manifest item: `?` leaves run().
ManifestFileGone ==
  /\ Popping({"Manifest"})
  /\ HeadName \notin DOMAIN disk
  /\ Stopped("exited")
  /\ UNCHANGED <<disk, ledger, state, payload, sent, requests>>

\* A call to the system fails (the ledger's database, reading the file, send_to for
\* want of a route or of buffers): another `?` that leaves run().
SendNextFails ==
  /\ "io_error" \in Events
  /\ Popping({"Manifest", "Data", "Retransmit"})
  /\ Stopped("failed")
  /\ UNCHANGED <<disk, ledger, state, payload, sent, requests>>

\* Mutated form: the rest of the range is forgotten.
SendChunkOnly ==
  /\ Popping({"Data", "Retransmit"})
  /\ HeadName \in DOMAIN disk
  /\ LET h == Head(queue)
         num == Total(disk[HeadName])
     IN  /\ h.start < num
         /\ sent' = sent \cup {Packet(h.kind, h.id, h.start, num)}
  /\ queue' = Tail(queue)
  /\ UNCHANGED <<disk, ledger, state, payload, half, process, requests>>

\* A chunk is sent and the rest of its range goes back to the front.
SendChunk ==
  /\ Popping({"Data", "Retransmit"})
  /\ HeadName \in DOMAIN disk
  /\ LET h == Head(queue)
         num == Total(disk[HeadName])
         rest == Item(h.kind, h.id, h.start + 1, h.count - 1, h.cut, h.auto)
     IN  /\ h.start < num
         /\ sent' = sent \cup {Packet(h.kind, h.id, h.start, num)}
         /\ queue' = IF h.count > 1 THEN <<rest>> \o Tail(queue) ELSE Tail(queue)
  /\ UNCHANGED <<disk, ledger, state, payload, half, process, requests>>

\* data_packet's OutOfRange leaves run(): the file has fewer chunks than the
\* range was made for.
ChunkOutOfRange ==
  /\ Popping({"Data", "Retransmit"})
  /\ HeadName \in DOMAIN disk
  /\ Head(queue).start >= Total(disk[HeadName])
  /\ Stopped("exited")
  /\ UNCHANGED <<disk, ledger, state, payload, sent, requests>>

\* A missing file is recorded and its item dropped; nothing was sent.
ChunkFileGone ==
  /\ Popping({"Data", "Retransmit"})
  /\ HeadName \notin DOMAIN disk
  /\ ledger' = MarkedGone(Head(queue).id)
  /\ queue' = Tail(queue)
  /\ half' = "topup"
  /\ UNCHANGED <<disk, state, payload, process, sent, requests>>
-----------------------------------------------------------------------------
(* Second half of tick: scan_for_work and dump_status_csv.                 *)

Put(f, n, z) == [m \in DOMAIN f \cup {n} |-> IF m = n THEN z ELSE f[m]]
Unlinked(f, n) == [m \in DOMAIN f \ {n} |-> f[m]]

\* is_being_compressed
BeingCompressed(n) == n \in DOMAIN Stem /\ Stem[n] \in DOMAIN disk

\* What next_candidate may return from one directory's names: files in any
\* order (mtimes are set by whoever writes the files).
Unsent(names) ==
  {n \in names \cap DOMAIN disk :
     n \in Allowed /\ ~BeingCompressed(n) /\ IdsOf(n) = {}}

\* The candidates of the first directory that has one.
Candidates ==
  LET dirs  == IF state = "Debug" THEN DebugDirs ELSE PriorityDirs
      ready == {d \in DOMAIN dirs : Unsent(dirs[d]) # {}}
  IN  {n \in Names : \E d \in ready : n \in Unsent(dirs[d])
                                      /\ \A e \in ready : d <= e}

Scanning == state \in {"Auto", "Debug"}

\* scan_for_work, once recheck_period_secs have passed.
Scanned ==
  IF Candidates = {} THEN UNCHANGED <<ledger, queue>>
  ELSE \E n \in Candidates :
         /\ ledger' = Upserted(n, disk[n])
         /\ queue' = PushedFull(UpsertedId(n), Total(disk[n]), TRUE, FALSE)

\* dump_status_csv: a new file, usually below the first priority directory.
Dumped == \E n \in Snapshots \ DOMAIN disk, z \in Sizes : disk' = Put(disk, n, z)

TopUp(recheck, dump) ==
  /\ process = "running" /\ half = "topup"
  /\ half' = "send"
  /\ IF Scanning /\ recheck THEN Scanned ELSE UNCHANGED <<ledger, queue>>
  /\ IF dump THEN Dumped ELSE UNCHANGED disk
  /\ UNCHANGED <<state, payload, process, sent, requests>>

\* The candidate disappears between the walk and its metadata(): an error that
\* leaves run().
ScanLosesFile ==
  /\ process = "running" /\ half = "topup" /\ Scanning
  /\ "delete" \in Events
  /\ \E n \in Candidates : disk' = Unlinked(disk, n)
  /\ Stopped("exited")
  /\ UNCHANGED <<ledger, state, payload, sent, requests>>

\* A call to the system fails in the scan, or after it in the dump: a row the scan
\* has committed stays without its queue items, and so does a dump cut short.
TopUpFails ==
  /\ "io_error" \in Events
  /\ process = "running" /\ half = "topup"
  /\ \/ UNCHANGED ledger
     \/ Scanning /\ \E n \in Candidates : ledger' = Upserted(n, disk[n])
  /\ UNCHANGED disk \/ Dumped
  /\ Stopped("failed")
  /\ UNCHANGED <<state, payload, sent, requests>>
-----------------------------------------------------------------------------
(* The world around the sender.                                            *)

WriteFile(n, z) ==
  /\ n \notin Snapshots /\ n \notin DOMAIN disk
  /\ disk' = Put(disk, n, z)
  /\ UNCHANGED <<ledger, queue, state, payload, half, process, sent, requests>>

ResizeFile(n, z) ==
  /\ "resize" \in Events /\ n \in DOMAIN disk
  /\ disk' = Put(disk, n, z)
  /\ UNCHANGED <<ledger, queue, state, payload, half, process, sent, requests>>

DeleteFile(n) ==
  /\ "delete" \in Events /\ n \in DOMAIN disk
  /\ disk' = Unlinked(disk, n)
  /\ UNCHANGED <<ledger, queue, state, payload, half, process, sent, requests>>

\* SIGTERM, SIGKILL: committed transactions survive.
Kill ==
  /\ process = "running" /\ "kill" \in Events
  /\ Stopped("killed")
  /\ UNCHANGED <<disk, ledger, state, payload, sent, requests>>

\* With WAL and synchronous = NORMAL "one OS crash at worst loses one
\* transaction"; the AUTOINCREMENT counter is part of the transaction.
OsCrash ==
  /\ process = "running" /\ "os_crash" \in Events
  /\ Stopped("killed")
  /\ ledger # <<>> /\ ledger' = SubSeq(ledger, 1, Len(ledger) - 1)
  /\ UNCHANGED <<disk, state, payload, sent, requests>>

\* The service manager starts the process again (Restart=on-failure): a new
\* runtime, without overrides and with the config file as it is by now.
Restart ==
  /\ process # "running"
  /\ process' = "running"
  /\ queue' = <<>> /\ half' = "send"
  /\ state' = InitialState
  /\ payload' \in IF "chunk_size" \in Events THEN PayloadSizes ELSE {payload}
  /\ UNCHANGED <<disk, ledger, sent, requests>>
-----------------------------------------------------------------------------
Requests ==
  \/ \E i \in DOMAIN ledger, interrupt \in BOOLEAN :
       \/ EnqueueFile(i, interrupt)
       \/ \E start, count \in 0 .. MaxIndex : EnqueueRange(i, start, count, interrupt)
  \/ \E n \in Names, interrupt \in BOOLEAN : Submit(n, interrupt)
  \/ \E i \in DOMAIN ledger : ResendName(i)
  \/ \E s \in States : SetState(s)
  \/ Flush
  \/ \E p \in PayloadSizes : ChangeChunkSize(p)

SendNext ==
  \/ NothingToSend
  \/ SendManifest \/ ManifestFileGone \/ SendNextFails
  \/ SendChunk \/ ChunkOutOfRange \/ ChunkFileGone

World ==
  \/ \E n \in Names, z \in Sizes : WriteFile(n, z) \/ ResizeFile(n, z)
  \/ \E n \in Names : DeleteFile(n)
  \/ Kill \/ OsCrash \/ Restart

Next ==
  \/ Requests
  \/ SendNext
  \/ \E recheck, dump \in BOOLEAN : TopUp(recheck, dump)
  \/ ScanLosesFile \/ TopUpFails
  \/ World

Spec == Init /\ [][Next]_vars

\* The loop runs, and recheck_period_secs pass again and again.
FairSpec ==
  /\ Spec
  /\ WF_vars(SendNext)
  /\ WF_vars(TopUp(FALSE, FALSE))
  /\ SF_vars(\E dump \in BOOLEAN : TopUp(TRUE, dump))
-----------------------------------------------------------------------------
\* Type invariant.  Ids in the queue are rows of the table, so that the
\* "unknown file_id" errors of send_next cannot end the process.
TypeOK ==
  /\ DOMAIN disk \subseteq Names /\ \A n \in DOMAIN disk : disk[n] \in Nat
  /\ ledger \in Seq(Rows)
  /\ queue \in Seq(Items) /\ \A k \in DOMAIN queue : queue[k].id \in DOMAIN ledger
  /\ state \in States
  /\ payload \in PayloadSizes
  /\ half \in {"send", "topup"}
  /\ process \in {"running", "exited", "failed", "killed"}
  /\ sent \subseteq [kind : {"Manifest", "Data", "Retransmit"}, id : Nat \ {0},
                     name : Names, chunk : Nat, num : Nat]
  /\ requests \in 0 .. MaxRequests

\* "The manifest packet MUST be transmitted before any data chunk so the
\* receiver learns the filename immediately" (push_full_file): whatever
\* interrupts, flushes, vanishing files and restarts come in between, no data
\* packet has left before a manifest packet of its file.
NameFirst ==
  \A p \in sent : p.kind = "Data" =>
    \E q \in sent : q.kind = "Manifest" /\ q.id = p.id /\ q.name = p.name

\* file_id is a "Stable identifier this file gets across all systems": no two
\* files were ever sent under one id and no file under two, across submits,
\* scans, vanished and rewritten files, and restarts.
OneFilePerId ==
  \A p, q \in sent : p.id = q.id <=> p.name = q.name

\* What the scan queued never outlives the state it was queued for: nothing of
\* it is left to send in Manual or Paused, and in Debug only files of the debug
\* directories are, however set_state falls between the halves of a tick.
QueueMatchesState ==
  \A k \in DOMAIN queue : queue[k].auto =>
    \/ state = "Auto"
    \/ state = "Debug" /\ \E d \in DOMAIN DebugDirs :
                            ledger[queue[k].id].name \in DebugDirs[d]

\* The queue and the packets without what only the sender and its history know.
Outgoing == INSTANCE SendQueue WITH
  Files <- Nat \ {0},
  queue <- [k \in DOMAIN queue |->
              [kind |-> queue[k].kind, id |-> queue[k].id,
               start |-> queue[k].start, count |-> queue[k].count]],
  wire  <- {[names |-> p.kind = "Manifest", id |-> p.id, chunk |-> p.chunk, num |-> p.num] : p \in sent}

\* The sender implements SendQueue: the queue that SenderStatus reports grows only
\* by whole requests, shrinks only from its head, a packet at a time, or all at
\* once, and nothing is sent that was not at its head, through vanishing and
\* rewritten files, changed chunk sizes, failed sends and restarts.
ImplementsQueue == Outgoing!Spec

\* run() is left over a file only for what others did to that file: it was removed
\* as the scan or a manifest came to it, or it has fewer chunks, being shorter
\* or cut by a larger chunk size, than it was taken to have when the range at
\* the head was queued (by its size then or, for an enqueue, its size in the
\* ledger).  No range that a request names, no rest of one and no file that has
\* vanished before its data ends the loop.  (A chunk count that wraps to zero
\* does.)
EndsForCause ==
  [][process = "running" /\ process' = "exited" =>
       \/ \E n \in DOMAIN disk : n \notin DOMAIN disk'
       \/ HeadName \notin DOMAIN disk /\ Head(queue).kind = "Manifest"
       \/ /\ HeadName \in DOMAIN disk
          /\ Total(disk[HeadName]) < Head(queue).cut \/ Total(disk[HeadName]) = 0]_vars

\* Drop a new file into a watched directory and all of it is sent, its manifest and
\* each of its chunks, without any request, unless the sender is stopped or taken
\* out of Auto before that (which loses the queue, and the row that keeps the
\* scan from queueing the file again stays).
Watched(n) == n \in Allowed /\ \E d \in DOMAIN PriorityDirs : n \in PriorityDirs[d]

SentInFull(n) ==
  \E i \in IdsOf(n) :
    /\ \E p \in sent : p.kind = "Manifest" /\ p.id = i
    /\ \A c \in 0 .. Total(disk[n]) - 1 :
         \E p \in sent : p.kind = "Data" /\ p.id = i /\ p.chunk = c

FilesSent ==
  \A n \in Names :
    n \in DOMAIN disk /\ IdsOf(n) = {} /\ Watched(n) /\ ~BeingCompressed(n)
      ~> SentInFull(n) \/ process # "running" \/ state # "Auto"
=============================================================================
