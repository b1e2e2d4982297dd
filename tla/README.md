# Parachuter: a TLA+ verification project

Parachuter moves files from a payload (a balloon, a satellite) to the ground over
a one-way, lossy UDP link. This directory holds TLA+ models of its daemons, TLC
configurations that check them on small instances, and TLAPS proofs of the
properties that matter most. Paths are relative to `src/crates/parachuter/src/`
unless they say otherwise; `PROJECT.json` maps every definition to its lines.

    tlc -workers 2 -config Reassembly.cfg MCReassembler     # one run
    tlapm SenderProofs.tla                                  # one proof module

## 1. The system

| Part | State | Operations | Talks to |
|---|---|---|---|
| Chunker (`chunker.rs`) | none (a file on disk) | split a file into data, retransmit and manifest packets | used by the sender |
| Sender (`sender/`) | packet queue, run state, overrides, rate limiter, all behind one mutex | `tick`: send the head of the queue; scan the priority directories; dump the ledger as CSV. Control requests: enqueue, submit, resend name, set state, flush, configure | ledger, config, UDP, control socket |
| Ledger (`ledger.rs`) | SQLite table of files: id, name, size, `still_exists`, `queued_at` | `upsert_file`, `mark_gone`, `mark_queued`, `dump_csv` | sender |
| Rate limiter (`rate_limiter.rs`) | tokens, rate | `acquire`, `set_kbps` | sender |
| Live configuration (`config.rs`) | current config, watch thread | load, validate, reload on change | every daemon |
| Receiver (`receiver.rs`, `reassembler.rs`) | holding directory (data file and sidecar per file), final directory | ingest a packet, finalize a file | UDP, disk |
| Cleaner (`cleaner/mod.rs`, `dedup.rs`) | TTL dedup table, on disk too | repair pass: read the holding directory, request what is missing | receiver's disk, sender's control socket |
| Reconciler (`cleaner/reconciler.rs`, `reconcile.rs`) | schedule and request memory, on disk too | compare the newest ledger snapshot that landed with the ground, request files that were lost whole | both directories, sender's control socket |
| Control plane (`control/`) | sockets, one task per connection, a mutex around the handler and one around the sender's runtime | request and reply, a 5-second time-out in the client | all daemons, `ctl` |

There is no acknowledgement on the link. What the ground lacks is requested over
a separate control connection: the cleaner asks for missing ranges and names, the
reconciler for whole files. Three daemons therefore share no lock: the receiver and
the cleaner meet on disk, the cleaner and the sender over calls that can fail, be
refused, or be served and time out.

**What is hard here.** Packets are lost, duplicated and reordered and the first one of a
file may not tell the chunk size. The receiver has several durable steps per packet and
can die between any two. The sender's queue is in memory only, its lock is free between
the two halves of a tick, its files belong to other programs, and its chunk size changes
under ranges that are already queued. The cleaner and the reconciler act on reads that
are old by the time they are used, and save what they did only at the end of a pass. A
control call goes through two locks, one of which the sender's loop holds while it waits
for the rate limiter, so it can time out and take effect later. The ledger reaches the
ground as a text file that may have been cut short. `PROJECT.json` lists these as
hazards, line by line.

**What makes each part correct.**

- Chunker: offsets and lengths tile the file exactly, and the tail is marked.
- Receiver: a bit in a sidecar vouches for bytes on disk; what is in the final
  directory is a payload file byte for byte; nothing waits with nothing to ask for;
  every file lands in the end.
- Rate limiter: never more than one burst above a rate while it is in force; `acquire`
  returns.
- Sender: the name goes out before any data; an id means one file for ever; scanned
  work does not outlive the state it was queued in; nothing that is asked of the loop
  ends it; a new file is sent in full.
- Configuration and control plane: the settings in force are usable; each packet leaves
  as configured at that moment and paced for its link; a client's calls take effect in
  order, and in the end; edits of the file go live.
- Cleaner: asks for nothing that is queued, nothing twice within the TTL, no more
  than the budget; completes every file it knows of.
- Reconciler: reads the ledger the payload wrote, or a part of it; asks for a file once
  per period, and brings back every lost file.

## 2. Modules

| Module | Models | Abstracts |
|---|---|---|
| `ChunkMath`, `Chunker` | `chunks_for_size` with its `u32` truncation, packets as records | a byte is the pair (source, offset), so a byte in the wrong place is seen; encoding and CRC are left out, a datagram that does not decode is a lost one |
| `Reassembler` | `ingest_chunk`, `ingest_manifest`, `finalize`, `receive_loop` | the disk is three functions from names to contents; `pc` is the next durable step; `Interrupt` cuts the handler short before it (a crash with a restart, or an I/O error that `?` returns), after a partial write too. A sidecar is its fields: its save is an atomic rename |
| `ManifestFile` | the sidecar's bitmap byte by byte: `is_set`, `set`, `is_complete`, `missing_ranges`, `stats` | a byte is the set of its bits; the loops are recursive functions |
| `RateLimiter` | `acquire`, `refill`, `set_kbps` | time is ticks, `Hz` of them per second, and tokens are counted in `Hz`-ths of a byte, so that they are exact where the code has floating point |
| `Sender` | `SenderRuntime`'s requests, `tick` in two halves, `send_next` by outcome, the scan, the dump, the ledger's rows, the loop's ends (over a file, or in a call to the system that fails: the ledger, a file, the link, the dump), kill, OS crash, restart | every handler holds the mutex, so each is one action; the order of files in a directory is free (mtimes are whatever other programs make them) |
| `LinkSettings` | `apply_override` by where it returns, `current_link`, the watch thread and its end | TOML parsing is a choice of contents |
| `ControlPlane` | on top of `LinkSettings`: clients, connection tasks, both mutexes, time-outs, and the loop's reads of chunk size and link and its wait in `acquire`, with reloads and requests anywhere | a mutex is the queue of who has it and who waits (tokio's is fair); `SenderConfigure` stands for all requests; framing is left out |
| `Cleaner` | `run_pass` by its awaits and file reads, `DedupTable` with rounding on save, kill and restart, between the receiver, the sender and a lossy link | seconds until expiry in place of a clock; the other two daemons by their abstract specifications |
| `SnapshotCsv` | `dump_csv`, `csv_escape`, `parse_snapshot`, `split_csv_line`, character by character, the loops as recursive functions | the columns that decide nothing are left out |
| `Reconciler` | the pass, `classify`, schedule, memory, force, kill, on snapshots that may be cut short or malformed | a file is queued, held or landed as a whole; ages in place of times, counted up to the largest that matters |
| `FileDelivery`, `Holding`, `SendQueue` | abstract specifications, see below | |
| `MC*` | instances for TLC | |
| `Recursion` | no code: induction, recursive functions and sequence lemmas that several proofs use | |
| `*Proofs` | theorems, section 6 | |

**Abstract specifications, and how the parts are put together.** The daemons share no
lock and run on two machines. What one relies on in another is written down as a small
specification of its own, which the detailed module is shown to implement:

- `FileDelivery`: what a reader of the final directory is promised. Pieces are collected
  out of sight, none is given up, and a file appears under its name in one step, whole.
  `Reassembler!ImplementsDelivery`, in the run `Reassembly`, and proved.
- `Holding`: the holding directory as other processes see it. Assemblies are opened with
  a chunk count that stays, learn chunks and their name, and leave when they are whole.
  `Reassembler!ImplementsHolding`, in `ReassemblyLanding`, where every step can be the
  last one before a crash, and proved.
- `SendQueue`: the sender as its status requests and its packets show it. Work is pushed
  to either end, the head is sent packet by packet, dropped if its file is gone, or all
  is cleared. `Sender!ImplementsQueue`, in `SenderQueue`, and proved.

`Cleaner` composes them: its state is `Holding`'s, `SendQueue`'s and its own, and a
packet goes from the one to the other through `wire`, which loses, delays and repeats.
The receiver's and the sender's actions there are those of the abstract specifications
with the guards of the code that decide which happens (the chunk count of a packet, the
dropped tail of a file whose chunk size is not known, a file that is gone, a range past
the end). `ReceiverAsPromised` and `SenderAsPromised` prove that those actions do nothing
the abstract specifications would not allow, so what is checked of a pass rests on no other
sender or receiver than the ones above.

Operators called "Mutated form" sit before the definition they alter: each is a
plausible bug of that code, and the property named in `PROJECT.json` fails when it
replaces the original. They are not part of any specification.

## 3. Runs

Passing runs:

| Run | Shows |
|---|---|
| `Reassembly` | Two files (5 bytes and 1), chunk sizes 2 and 3, any packet at any time, interruption before any step up to `finalize`: `BitsBacked`, `LandedIntact`, `CompleteIsFinalized`, `AssembliesProgress`, `ImplementsDelivery` |
| `ReassemblyLanding` | Holding and final directory on different filesystems, a file with a short tail and an empty one, interruption anywhere: a data file is given up only when the final directory holds the same bytes (`NoByteLost`), other processes see what `Holding` allows (`ImplementsHolding`), and every file lands (`FilesLand`) unless its assembly was cut short when it was already complete |
| `RateLimiter` | Rates that go up, down and to zero, after idle spells of any length: `Paced` from any change of the rate on, `GrantFitsBurst`, and `FittingAcquireReturns` |
| `SenderQueue` | Two files, one being the compressed form of the other, with deletes, rewrites, resizes, chunk size changes, interrupting requests, flushes, and calls to the system that fail anywhere: `NameFirst`, `OneFilePerId`, `ImplementsQueue`, and `EndsForCause`: `run()` is left over a file only because the file was taken away or has fewer chunks than it was taken to have |
| `SenderLoop` | Undisturbed files (one of them a ledger dump), state changes anywhere, kills, an OS crash that loses a transaction, failing scans and dumps cut short: `QueueMatchesState`, `FilesSent` |
| `ControlPlane` | Two clients, one of which calls twice, a file with one link, one with two and one that does not validate, messages that are accepted, rejected, and rejected half way: `SettingsUsable`, `EffectsInOrder`, `AsConfigured`, and every request is carried out (`Served`) |
| `CleanerPass` | One file of one chunk or two, another client, deletes, chunk size changes, lost answers and kills: `NeverDoubled`, `NoRefire`, the budget (in `TypeOK`). `PlansTheGaps`: of a sidecar that the receiver goes on writing, the pass plans each missing chunk once and no other |
| `CleanerRepairs` | The same file over the lossy link, a sender that refuses, a chunk size that changes and changes back, a file begun again, the cleaner killed anywhere in a pass: `Repaired`. `BitmapIsASet`: for all files of up to nine chunks and every set of chunks received, the bytes of the sidecar give what `Reassembler` and `Cleaner` take them for |
| `Reconciler` | All faults at once: `OncePerPeriod`, `Recovered`. `ReadsBack`, `CutShort`: all ledgers of up to two rows with names of commas, quotes and line breaks, and every place where the dump can end |

Violation runs, where the code does not do what the repository says of it:

| Run | Shows |
|---|---|
| `ReassemblyDropCrash` | `finalize` renames the data file, then removes the sidecar. After a crash in between the sidecar says "complete" and the data is gone: later packets of the file build a mostly empty one and finalize it over the landed file |
| `RateLimiterSlowLink` | The bucket holds one second of the rate. A datagram larger than that is waited for forever, under the sender's mutex; the default chunk on the default 30 kbit/s link is one |
| `LinkReload` | The watch thread ends at the first 5 seconds without an event, so later edits never go live |

**Bounds, and why they are enough.** Sizes are chosen so that a file has full chunks
and a short tail, one chunk, or none; two chunk sizes give different counts for the
same file. Two files are enough for one to get in the way of another (ids, names,
queue order). `MaxRequests` is 1: requests interleave with scans and with
packets already queued, and the proofs have no such bound. `MaxQueue` caps the queue in
the guards. The limiter is observed from a change of its rate (`set_kbps` opens a window)
for `MaxGranted` bytes, enough for a burst and more; its clocks saturate, `elapsed` at
`MaxIdle`, where the bucket is full and every sleep over, `since` at `MaxWindow`, where
a rate other than zero has earned all that the window can grant. `SenderQueue` has no
kills: a call that fails can end the process at the same moments as far as queue, ledger
and packets tell, and `SenderLoop` has both. `CleanerRepairs` has no time-outs, which
with their late effects are in `CleanerPass`. A TTL of 2 lets an entry survive a restart (which rounds
a second away) and expire after it; a period of 2 and a grace of 1 tell "this pass",
"within the period" and "after it" apart. `U32` and `I31` stand for 2^32 and 2^31;
`CleanerPass` sets the latter to 1 so that the wrap happens.

`Cleaner` runs with one file: with a second one only instances without incidents are
within reach. A file with a name and two chunks already gives a pass three requests for
a budget of one. `MaxQueue` 2 lets a request find half a file in the queue;
`MaxIncidents` 2 lets a chunk size change and change back, or a file be begun again and
then deleted. In `CleanerPass` it is 1, and the sender's status may be unknown in any
pass besides; with `MaxWire` 1 chunks arrive in every order through loss and
retransmission, and a packet may arrive again much later. `MaxCalls` gives one client
two calls: the second can be made while the first, which timed out, still waits for a
lock, and that is all that an order of effects can go wrong with (the theorem has no
bound). `MaxChunks` 9 is one more than a byte, so that there is a whole byte, a partial
one and padding. `MaxNameLen` 2 holds a doubled quote and a quote next to a comma;
`MaxRows` 2 has a row before and after; numbers of two digits (`NumberLens`) can lose one.
The theorems about the bitmap and the dump (section 6) hold for every value of these.

`BitmapIsASet`, `ReadsBack` and `CutShort` are about operators, for all the bounded
inputs at once; the state only says when the code uses them (there is an assembly, a
snapshot has landed).

**Deadlock** is checked in every run.

## 4. Fairness

- `Reassembler`: the receive thread runs (WF on its steps); a packet that is asked for
  over and over is received over and over (SF). What is asked for is what the cleaner
  and the reconciler ask for (`Requested`), not every packet. `FilesLand` supposes that
  interruptions cease.
- `RateLimiter`: time goes on, a sleep ends and the loop is resumed.
- `Sender`: the loop in `run()` goes round; `recheck_period_secs` pass again and again
  (SF, because a tick may come too early for the scan any number of times).
- `LinkSettings`: the watch thread takes an event while it is alive. Nothing is assumed
  of the moment when its 5 seconds are over.
- `ControlPlane`: the connection tasks and the loop are polled (WF on each group, no
  more: which task comes next is free), and `acquire` returns. `RateLimiterSlowLink`
  shows when it does not; then nothing is served.
- `Cleaner`: the loop, the clock and the sender run and a packet does not stay on the
  link (WF); of the calls about one file that the sender could serve one gets through,
  and of the packets it still needs one arrives (SF: the link is lossy, not dead).
- `Reconciler`: SF for its reads, its calls and a file's first packet, which may be lost
  any number of times; passes may be forced for ever, so the clock is given SF. A file
  that was begun lands, and an up-to-date snapshot lands, if nothing comes in between
  (WF; the cleaner sees to it). `Recovered` supposes that dumps are not cut short for
  ever.

## 5. Observations

Behaviour met while modelling that the models reproduce but no run is spent on. Each
is a boundary of a property above: the property is stated so that it holds, and this
is what lies just outside it.

Receiver
- Interrupted after the last bit is saved and before the rename, an assembly is complete,
  nobody asks for anything of it, and it stays in the holding directory
  (`receiver.rs:68`; add `"finalize"` to `InterruptAt` in `Reassembly.cfg`:
  `CompleteIsFinalized` fails). `FilesLand` has it as a premise.
- Two chunk sizes that give a file the same number of chunks are mixed in one assembly,
  which lands corrupt (`reassembler.rs:172`; a file of 4 bytes, chunk sizes 2 and 3:
  `LandedIntact` fails). `docs/DESIGN.md:209-210` says the check guards against it.
- A file of 2^32 chunks is announced with 0 of them and lands truncated
  (`chunker.rs:153`; a small `U32` shows it).
- Across filesystems a prefix is visible under the final name while `fs::copy` runs
  (`reassembler.rs:323`), contrary to `reconcile.rs:13-14`.
- A retransmit of an unknown file opens an assembly (`reassembler.rs:145`), contrary to
  `chunker.rs:109-111`.

Sender
- `state.rs:296` says "Run the loop forever". The loop ends when the manifest packet of a
  queued file that is gone comes up (`state.rs:351`), when a queued range is past the end
  of a file that was cut short or is cut larger by now (`state.rs:373`), when a file
  vanishes during the scan (`scanner.rs:77`), and at every `?` on the ledger, a file,
  `send_to` (`state.rs:355`) or the dump (`state.rs:331`). The process ends with it, and the
  queue is lost. In `SenderQueue` the invariant `process \notin {"exited", "failed"}`
  fails within a few steps. `EndsForCause` says that these are the causes and that
  there is no other.
- A top-up whose dump fails, after its scan has committed a row, leaves a file that is in
  the ledger and in no queue (`state.rs:324`, `:331`; action `TopUpFails`): no scan takes
  it up again. It takes the reconciler, or a request.
- A paused sender queues new work (`state.rs:156`; `config.rs:105` says it drops it),
  and entering Debug drops queued retransmits (`state.rs:144`; `config.rs:107`).
- A request that falls between the halves of a tick does not keep the scan from queueing
  a file behind it (`state.rs:319`; `sender/mod.rs:10`: "When the queue is empty").
- After an OS crash that loses a transaction, an id that is already on the air goes to
  another file (`ledger.rs:92`; add `"os_crash"` in `SenderQueue.cfg`: `OneFilePerId`
  fails). The theorem `IdsAreStable` assumes it away.

Rate limiter
- `set_kbps` (`rate_limiter.rs:43-46`) neither refills nor moves `last`: the next refill
  credits all time since the last one, whatever the rate was in it, at the new rate
  (`:63-67`). After a second at 0 kbit/s the first refill at 30 fills the bucket, although
  "tokens accrue at the configured rate" (`rate_limiter.rs:14`) and none did. So over
  several rates the sum of what they earned does not bound what is let through; what
  bounds it is the rim of the bucket, and `Paced` says by how much, rate by rate: each
  change is worth at most one second of the new rate.

Configuration and control plane
- Overrides of address, port or rate outlive a switch of the link (`state.rs:88`;
  `README.md:495-496`: "switches ... atomically").
- A configure message rejected for its chunk size has already switched the link
  (`state.rs:119`; action `RejectChunkSize`), and the limiter keeps the old rate until the
  next packet. `AsConfigured` holds all the same, because `send_next` sets the rate again.
- A reload takes effect between the reads of chunk size and link (`state.rs:345`) and while
  `acquire` waits: a packet may be cut for one file and sent over the link of another.
- A call that timed out takes effect nevertheless (`control/client.rs:30`).
- `bind` removes the socket it finds (`control/server.rs:37`), also that of a daemon that
  is running: a second one takes its place, and the first one serves nobody any more.

Cleaner and reconciler
- A pass that is cut short forgets what it asked for (`cleaner/mod.rs:236`, `:103`): the
  history variables of `NoRefire` and `OncePerPeriod` are set back by such a kill.
- A call that times out is not counted against the budget (`cleaner/mod.rs:224`), and
  the budget is per pass while `config.rs:174` says "at any time".
- What the scan or another client queues after the status was read is asked for again
  (`cleaner/mod.rs:156`): a file taken up, and of which a packet arrived, before the
  listing is requested in the first pass. `NeverDoubled` excepts it by `disturbed`.
- A range that starts past chunk 2^31 is sent as `start as i32`, which is negative and
  queues the whole file (`cleaner/mod.rs:219`, `state.rs:171`). What the same pass asks
  for next of that file is then queued twice. `NeverDoubled` did not except this at first;
  the proof of it would not go through for files with two such ranges, which `CleanerPass`
  is too small to have.
- The dedup key is the exact range, so the rest of a range of which a part arrived is
  asked for at once (`dedup.rs:99`).
- A file that lands between the listing and `has_name` is asked for its name, which
  opens it again (`cleaner/mod.rs:172`); `Repaired` covers that it is completed once
  more.
- An assembly whose payload file is deleted is asked for in every pass: it takes the
  budget before those with larger ids (`cleaner/mod.rs:192`; `config/parachuter.toml:93`
  allows one request per pass), and its manifest packet ends the sender together with
  the queue (`state.rs:351`). With two files and a delete, the other one need not be
  completed. `Repaired` has it as a premise.
- After a change of chunk size, what was begun with the old one cannot be completed
  until the change is undone: its ranges are refused or answered with packets that do
  not fit (`state.rs:173`, `reassembler.rs:172`). `SameCut` in `Repaired`.
- The reconciler reads the holding directory before the queue, so a file that arrives in
  part and drains in between is requested in full (`reconciler.rs:86`); `queued_at` is
  the snapshot's (`reconcile.rs:228`); and a row once marked gone stays so when the file
  is written again (`ledger.rs:125`), which `Recovered` excepts.
- A line break in a single file name makes every snapshot from then on malformed
  (`reconcile.rs:130`; `ReadsBack`), and with it reconciliation stops.
- A snapshot that was cut short is not recognised as such (`ledger.rs:219` writes in
  place): the files past the cut are not missed, and the last row may lose its mark, its
  times and digits of its size, so that a deleted file is requested (`CutShort`,
  `CutAt`).

## 6. Proofs

All hold for every value of the constants that satisfies the modules' `ASSUME`s.

- **`Recursion`**. The library's induction principles take a predicate as a parameter, which
  the provers cannot instantiate. Here a predicate is the set of the numbers that satisfy
  it, and the facts are derived from the well-foundedness of the numbers: a least element,
  induction upwards and downwards, and that a function defined by recursion satisfies its
  equation (`Least`, `Induction`, `DownInduction`, `RecursiveFunction`,
  `PrimitiveRecursion`). Each recursive function of the models has a lemma with its
  equation; what it computes is then proved by one of these inductions.
- **`ChunkMathProofs`**. Lemmas on `chunks_for_size`: a chunk starts within the file
  (`ChunkStart`), all but the last are full (`ChunkExtent`), and together they cover it
  (`ChunksCover`).
- **`ReassemblerProofs!TypeCorrect`**: `Spec => []TypeOK`. Not inductive alone: the
  handler relies on files its earlier steps opened (`HandlerOK`).
- **`ReassemblerProofs!BitsAreBacked`**: if the chunk count tells the chunk size
  (`Unambiguous`), counts fit in a `u32` (`NoWrap`) and nothing comes between the move of
  a finished file and the removal of its manifest (`DropCertain`), `Spec =>
  []BitsBacked`, with one filesystem or two. The inductive invariant `DataInv` adds that
  a manifest's count and payload size are those of one (source, chunk size)
  (`AssembliesOK`), that no data file is longer than its source (`IncomingBounded`), and
  what the handler has already written at each step (`HandlerSafe`). Without the bound
  on the length, a complete bitmap would not give the exact length.
- **`ReassemblerProofs!Safety`, `LandsIntactAcross`**: on one filesystem (`AtomicFinalize`
  is `SameFs` and `DropCertain`) `LandedIntact` holds always; across two, if no copy is
  cut short either (`CopyCertain`), whenever no copy is under way. Both rest on
  `MovesContent`: what `finalize` moves is a payload file, byte for byte, to its own name.
  The assumptions are necessary: each has its counterexample in section 5 or in
  `ReassemblyDropCrash`.
- **`ReassemblerProofs!AssembliesOnlyProgress`**: from the assumptions of `BitsAreBacked`,
  an assembly's fields are never taken back, and it ends with its file in the final
  directory; the inductive part, `Landed`, is that the file is there when the manifest is
  about to go.
- **`ReassemblerProofs!CompleteAreFinalized`**: if `finalize` is not cut short, no assembly
  is left complete and named between packets. What makes this inductive is `HasData`, that
  an assembly with a bit set has a data file (otherwise `FinalizeError` would leave it
  behind), and `Finishing`, that the only complete and named one is that in hand.
- **`ReassemblerProofs!BytesAreKept`, `HoldingRefined`**: without any assumption, also
  where interruptions leave sidecars without data. The first needs only that the copy is
  whole before the data file is unlinked (`CopyDone`). The second needs that counts are
  those of a source (`Counted`) and that the packet in hand fits its assembly
  (`HandlerFits`), so that every step is one that `Holding` allows, or invisible.
- **`ReassemblerProofs!Refinement`**: under the assumptions of `Safety`, `Spec =>
  ImplementsDelivery`. The mapping takes a source to be under way when it has a
  manifest, and collected of it the slices of the set bits. `SafeInv` gives that a
  complete bitmap is the whole file (`CollectedWhole`) and that the data file then is
  the image; each action is one lemma: the first packet opens, a bit collects, the
  rename delivers, the rest is invisible.
- **`RateLimiterProofs!LimiterTypes`, `SenderIsPaced`, `GrantsFitBurst`**: for any rates,
  datagrams and clock. When a rate is set, nothing is known of the bucket, nor of how long
  ago it was refilled; `Paced` is true because nothing was granted under the rate yet. The
  first refill under it caps the bucket at the new rim, and from then on `Account` holds:
  what was granted, what is in the bucket and what the time since the last refill will
  add are at most one burst and what the rate came to since it was set. A tick adds the
  same to both sides, a refill moves or loses tokens, a grant moves them. Every grant
  follows a refill that capped the bucket at the rate now in force (`LoopBounded`).
- **`SenderProofs!TypeCorrect`, `NamesComeFirst`, `ScanRespectsState`**: from one
  invariant, `SenderInv == Shape /\ QueueOK /\ NameFirst`. `NameFirst` speaks of the
  past; what makes it inductive is `QueueOK`: each data item is preceded in the queue by
  a manifest of its file, or one was already sent. The lemmas `BackOK`, `FrontOK`,
  `TailOK` and `FrontFullOK` say that pushes to either end, pops and interrupts keep
  this.
- **`SenderProofs!IdsAreStable`**: without OS crashes, `Spec => []OneFilePerId`. The
  ledger only grows, names in it are distinct, and what was sent carries the name its
  row has.
- **`SenderProofs!QueueRefined`**: `Spec => ImplementsQueue`. Every action of the sender is
  shown to push, to send the head's next packet, to drop the head, to clear the queue, or
  to leave it alone (`QueueStep`), and each of these is one of `SendQueue`'s under the map
  from work items to what status shows of them (`View`). The invariant it needs,
  `AllWhole`, is that a queued manifest is one packet, and that the range of an item lies
  within what its file was taken to have when it was queued (`InCut`).
- **`SenderProofs!LoopEndsForCause`**: `Spec => EndsForCause`, without assumptions. Only three
  steps leave `run()` over a file (`ExitSteps`), and when the chunk at the head is out of range
  `InCut` gives that the file has fewer chunks than the item was cut for
  (`OutOfRangeForCause`). `InCut` is kept because requests clamp their ranges
  (`state.rs:173-178`), and the rest of a range that goes back to the front is shorter by
  the chunk that was sent.
- **`ControlPlaneProofs!PlaneTypes`, `AlwaysUsable`, `CallsInOrder`,
  `PacketsAsConfigured`**: for any clients, calls, files and messages. `SettingsInv` says that the file in force and an
  overridden chunk size were validated, that the loop has the runtime's mutex from its
  first read of a setting to the end of the packet (`Locks`), and so that the overrides
  are those it read (`PacketOK`). `OrderOK` says that of one client at most one request
  is unread, and that those at the handler's mutex are older than it, in order, and
  younger than what took effect; without the first part a time-out could let a later
  call overtake. `PlaneTypes` needs that a valid file has a first link to fall back on
  (`FirstKey`, `LinkHasRate`).
- **`CleanerProofs!CleanerTypes`**: the shape of a pass and its budget. Lemmas on sorting
  (`RankBijection`, `AscendingFacts`) and on the runs of clear bits say what a plan is.
- **`CleanerProofs!NeverRefired`**: `Spec => NoRefire`. `DedupInv`: the table in memory has
  every range asked for, with at least as long to go, and the saved one has it up to the
  second that rounding takes, unless a pass is running, of which a kill makes the model
  forget what was asked.
- **`CleanerProofs!NothingDoubled`**: `Spec => NeverDoubled`. While nothing from outside was
  queued since status was read, whatever is in the queue was in `status`, is a rest of
  something that was, or is a request of this pass that no request still planned overlaps
  (`PendingInv`). The latter holds because a plan has nothing twice (`OrderInv`): ids are
  listed once, and the ranges of a file lie apart.
- **`CleanerProofs!SidecarIsSet`**: `Spec => []BitmapIsASet`, for every `MaxChunks`. Marking a
  chunk in its byte is adding it to the set (`MarkingFacts`); whole bytes and the mask of the
  last one tell completeness (`CompleteFacts`); the scan for missing ranges, followed
  downwards from the last chunk, yields the maximal runs of clear bits in ascending order
  (`RunEndsFacts`, `RangesFromFacts`, `MissingRangesFacts`); the count of set bits is the
  cardinality (`ReceivedFacts`).
- **`CleanerProofs!GapsArePlanned`**: `Spec => PlansTheGaps`. A clear bit lies in one maximal run
  and in no other (`GapsCovered`), and only the step that opens the sidecar adds ranges.
- **`CleanerProofs!ReceiverAsPromised`, `SenderAsPromised`**: `Spec => Rx!Spec`, and the same for
  the queue and `SendQueue`, with a step for a packet that the link loses. The first needs
  that a packet carries a chunk count its file was cut with (`CountsInUse`), the second that
  every request a pass makes, one past chunk 2^31 included, becomes work that `SendQueue`
  knows (`EnqueuedIsWork`). With `HoldingRefined` and `QueueRefined` both sides of the two
  interfaces are proved.
- **`ReconcilerProofs!ReconcilerTypes`, `RequestedOncePerPeriod`**: `Spec => OncePerPeriod`.
  `RequestInv`: of every confirmed request that is younger than a period the memory knows,
  with the same age or a younger one, and so does the state file while no pass runs.
- **`ReconcilerProofs!SnapshotReadsBack`**: `Spec => []ReadsBack`, for ledgers of any number of
  rows and names of any length. The parser's loop is followed over what the writer makes of
  a field, quoted or not, then over a row, the header and the dump. Only a line break in a
  name makes the snapshot malformed.
- **`ReconcilerProofs!SnapshotCutShort`**: `Spec => []CutShort`. The same lemmas, stopped
  anywhere: either the parser refuses what is left, or it reads all rows that were written
  whole and at most one more, whose size may lack digits and whose mark may be lost.

**Only model-checked**: liveness under fairness (`FilesLand`, `FittingAcquireReturns`,
`FilesSent`, `Served`, `Repaired`, `Recovered`) and everything that needs `ENABLED`, deadlock
freedom included, which is out of the prover's reach. Every other property of a passing run
is stated by a theorem.

## 7. Not modelled

- The wire format (`proto/`): pure encoding with a checksum, without state. A datagram that
  does not decode counts as lost.
- `ground_path`, which receiver and reconciler share. It is one to one on absolute names
  without `..`, which is what the scan makes of absolute directories.
- The ledger's schema migration and SQLite itself, but for the loss of the last transaction.
- JSON framing on the control socket and its size limit; the removal of another daemon's
  socket (section 5).
- `ctl`, `monitor`, process start, logging, the demo and the lossy relay: argument parsing,
  printing and demonstration.
- Status requests, which change nothing; what the cleaner and the reconciler do with an old
  answer is modelled.

## 8. Left open

1. Lemmas that liveness rests on and that are not themselves temporal: an assembly that is
   neither complete nor named always has a packet that is asked for and that fits
   (`FilesLand`), and a pass that has budget left and a missing range asks for something
   (`Repaired`).
2. `Cleaner` with more than one file under its incidents, which is beyond the model checker;
   of its properties only `Repaired` depends on it, the others are proved.
3. `ground_path` and the wire format, which are functions without state.
