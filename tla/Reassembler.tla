----------------------------- MODULE Reassembler -----------------------------
(***************************************************************************)
(* The ground receiver: reassembler.rs driven by receive_loop of           *)
(* receiver.rs.                                                            *)
(*                                                                         *)
(* The disk is three directories, functions from the names that exist to   *)
(* what they hold: `manifest` and `incoming` are the holding directory's   *)
(* <id>.parmanifest and <id>.incoming, `finals` is the final one.  The     *)
(* receive thread is `pc` and the packet `pkt` it is working on; it is     *)
(* sequential (write_lock), but its durable effects are separate steps, so *)
(* that it can be interrupted between any two of them and so that other    *)
(* processes can read the disk in between.                                 *)
(*                                                                         *)
(* The network is UDP under a sender that re-sends at will: any packet a   *)
(* Chunker can build may arrive at any time, any number of times, or       *)
(* never.                                                                  *)
(***************************************************************************)
EXTENDS Chunker

CONSTANTS
  Absent,        \* no packet in hand; the empty name of a manifest
  Hole,          \* a byte that set_len created and nothing wrote (reads as 0)
  SameFs,        \* holding and final are on one filesystem: rename works
  InterruptAt    \* pcs at which the handler may be cut short

VARIABLES
  manifest,      \* id -> manifest record
  incoming,      \* id -> file image
  finals,        \* path -> file image
  pc,            \* next durable step of the receive thread
  pkt            \* packet in hand, Absent while waiting in recv

disk == <<manifest, incoming, finals>>
vars == <<manifest, incoming, finals, pc, pkt>>

PCs == {"recv", "extend", "write", "truncate", "mark",
        "finalize", "copying", "unlink", "drop"}

Manifests == [chunk_payload_size : Nat, num_chunks : Nat,
              name : Paths \cup {Absent}, bits : SUBSET Nat]

MaxSize == CHOOSE n \in {Size[s] : s \in Sources} :
             \A s \in Sources : Size[s] <= n

ASSUME ReassemblerAssumption ==
  /\ SameFs \in BOOLEAN
  /\ InterruptAt \subseteq PCs \ {"recv"}
  /\ Absent \notin Paths
  /\ Absent \notin Packets
  /\ Hole \notin Bytes
-----------------------------------------------------------------------------
(* Directories, and files as functions from offsets to bytes.               *)

Put(dir, n, x) == [j \in DOMAIN dir \cup {n} |-> IF j = n THEN x ELSE dir[j]]
Remove(dir, n) == [j \in DOMAIN dir \ {n} |-> dir[j]]

Empty == [o \in {} |-> Hole]

\* A data file as OpenOptions::create(true).truncate(false) opens it.
Opened(dir, n) == IF n \in DOMAIN dir THEN dir[n] ELSE Empty

\* `if len < n { set_len(n) }`
Extended(d, n) ==
  [o \in DOMAIN d \cup 0 .. n - 1 |-> IF o \in DOMAIN d THEN d[o] ELSE Hole]

\* set_len(n)
SetLen(d, n) == [o \in 0 .. n - 1 |-> IF o \in DOMAIN d THEN d[o] ELSE Hole]

\* seek(at), then write_all of the first n payload bytes of packet k.
Written(d, at, k, n) ==
  [o \in DOMAIN d \cup at .. at + n - 1 |->
     IF o \in at .. at + n - 1 THEN <<k.src, k.off + (o - at)>> ELSE d[o]]

\* The first n bytes of a file.
Prefix(d, n) == [o \in DOMAIN d \cap 0 .. n - 1 |-> d[o]]
-----------------------------------------------------------------------------
(* The manifest sidecar.                                                    *)

\* Manifest::create
NewManifest(payload, num, name) ==
  [chunk_payload_size |-> payload, num_chunks |-> num,
   name |-> name, bits |-> {}]

is_complete(m) == 0 .. m.num_chunks - 1 \subseteq m.bits

\* Mutated form: a file of two chunks counts as one that needs no guard.
UnsizedTailOffByOne(k) == k.last /\ k.num_chunks > 2

\* The tail of a file of several chunks does not tell the chunk size.
UnsizedTail(k) == k.last /\ k.num_chunks > 1

\* Mutated forms: chunk numbers from one; the tail placed by its own length.
WriteAtFromOne(m, k) == (k.chunk_id - 1) * m.chunk_payload_size
WriteAtOwnLen(m, k) == k.chunk_id * k.len

\* Where chunk k goes in the data file, and how long the file is after it.
WriteAt(m, k) == k.chunk_id * m.chunk_payload_size
NeededLen(m, k) == WriteAt(m, k) + k.len
-----------------------------------------------------------------------------
Return == pc' = "recv" /\ pkt' = Absent

id == pkt.file_id

\* The manifest exists and agrees on the chunk count.
Fits(k) ==
  /\ k.file_id \in DOMAIN manifest
  /\ manifest[k.file_id].num_chunks = k.num_chunks

\* ingest_chunk up to the data file: open the manifest or cold-start it, drop
\* what does not fit, and fix the payload size of a manifest that a name
\* packet created.  A packet that is dropped changes nothing.
IngestChunk(k) ==
  /\ pc = "recv"
  /\ k \in ChunkPackets
  /\ \/ /\ k.file_id \notin DOMAIN manifest
        /\ ~UnsizedTail(k)
        /\ manifest' = Put(manifest, k.file_id,
                           NewManifest(k.len, k.num_chunks, Absent))
     \/ /\ Fits(k)
        /\ manifest[k.file_id].chunk_payload_size = 0
        /\ ~UnsizedTail(k)
        /\ manifest' = [manifest EXCEPT ![k.file_id].chunk_payload_size = k.len]
     \/ /\ Fits(k)
        /\ manifest[k.file_id].chunk_payload_size # 0
        /\ UNCHANGED manifest
  /\ pc' = "extend"
  /\ pkt' = k
  /\ UNCHANGED <<incoming, finals>>

\* Open or create the data file and grow it to hold the chunk.
ExtendData ==
  /\ pc = "extend"
  /\ incoming' = Put(incoming, id,
                     Extended(Opened(incoming, id), NeededLen(manifest[id], pkt)))
  /\ pc' = "write"
  /\ UNCHANGED <<manifest, finals, pkt>>

\* Write the payload and sync_data.
WriteData ==
  /\ pc = "write"
  /\ incoming' = [incoming EXCEPT ![id] =
                    Written(@, WriteAt(manifest[id], pkt), pkt, pkt.len)]
  /\ pc' = IF pkt.last THEN "truncate" ELSE "mark"
  /\ UNCHANGED <<manifest, finals, pkt>>

\* The last chunk locks in the file size.
TruncateData ==
  /\ pc = "truncate"
  /\ incoming' = [incoming EXCEPT ![id] =
                    SetLen(@, NeededLen(manifest[id], pkt))]
  /\ pc' = "mark"
  /\ UNCHANGED <<manifest, finals, pkt>>

\* A bit that is already set: IngestOutcome::Duplicate.
MarkDuplicate ==
  /\ pc = "mark"
  /\ pkt.chunk_id \in manifest[id].bits
  /\ Return
  /\ UNCHANGED disk

\* Mutated form: the bitmap is replaced instead of updated.
MarkChunkOverwrites ==
  /\ pc = "mark"
  /\ pkt.chunk_id \notin manifest[id].bits
  /\ manifest' = [manifest EXCEPT ![id].bits = {pkt.chunk_id}]
  /\ IF is_complete(manifest'[id]) /\ manifest[id].name # Absent
       THEN pc' = "finalize" /\ UNCHANGED pkt
       ELSE Return
  /\ UNCHANGED <<incoming, finals>>

\* Set the bit and save the manifest; Complete calls finalize.
MarkChunk ==
  /\ pc = "mark"
  /\ pkt.chunk_id \notin manifest[id].bits
  /\ manifest' = [manifest EXCEPT ![id].bits = @ \cup {pkt.chunk_id}]
  /\ IF is_complete(manifest'[id]) /\ manifest[id].name # Absent
       THEN pc' = "finalize" /\ UNCHANGED pkt
       ELSE Return
  /\ UNCHANGED <<incoming, finals>>

\* The manifest of k's file with its name filled in; a name packet may be the
\* first of its file, and then nothing is known of the payload size.
Named(k) ==
  IF k.file_id \notin DOMAIN manifest
    THEN NewManifest(0, k.num_chunks, k.name)
    ELSE LET m == manifest[k.file_id] IN
         IF m.name = Absent THEN [m EXCEPT !.name = k.name] ELSE m

\* Mutated form: only a chunk can complete an assembly.
IngestManifestNeverCompletes(k) ==
  /\ pc = "recv"
  /\ k \in ManifestPackets
  /\ k.file_id \in DOMAIN manifest => Fits(k)
  /\ manifest' = Put(manifest, k.file_id, Named(k))
  /\ UNCHANGED <<incoming, finals, pc, pkt>>

\* ingest_manifest.  An assembly that the name completes is finalized.
IngestManifest(k) ==
  /\ pc = "recv"
  /\ k \in ManifestPackets
  /\ k.file_id \in DOMAIN manifest => Fits(k)
  /\ LET m == Named(k) IN
     /\ manifest' = Put(manifest, k.file_id, m)
     /\ IF is_complete(m)
          THEN pc' = "finalize" /\ pkt' = k
          ELSE Return
  /\ UNCHANGED <<incoming, finals>>

\* finalize, same filesystem: one atomic rename over whatever is there.
FinalizeRename ==
  /\ pc = "finalize"
  /\ SameFs
  /\ id \in DOMAIN incoming
  /\ finals' = Put(finals, manifest[id].name, incoming[id])
  /\ incoming' = Remove(incoming, id)
  /\ pc' = "drop"
  /\ UNCHANGED <<manifest, pkt>>

\* Mutated form: one write is taken for the whole copy.
FinalizeCopyOnce ==
  /\ pc = "finalize"
  /\ ~SameFs
  /\ id \in DOMAIN incoming
  /\ \E n \in 0 .. MaxSize :
       finals' = Put(finals, manifest[id].name, Prefix(incoming[id], n))
  /\ pc' = "unlink"
  /\ UNCHANGED <<manifest, incoming, pkt>>

\* finalize across filesystems: rename fails, fs::copy truncates the
\* destination and fills it; any prefix is visible before it is done.
FinalizeCopy ==
  /\ pc = "finalize"
  /\ ~SameFs
  /\ id \in DOMAIN incoming
  /\ \E n \in 0 .. MaxSize :
       finals' = Put(finals, manifest[id].name, Prefix(incoming[id], n))
  /\ pc' = "copying"
  /\ UNCHANGED <<manifest, incoming, pkt>>

CopyRest ==
  /\ pc = "copying"
  /\ finals' = Put(finals, manifest[id].name, incoming[id])
  /\ pc' = "unlink"
  /\ UNCHANGED <<manifest, incoming, pkt>>

UnlinkIncoming ==
  /\ pc = "unlink"
  /\ incoming' = Remove(incoming, id)
  /\ pc' = "drop"
  /\ UNCHANGED <<manifest, finals, pkt>>

\* No data file: rename and copy both fail and finalize returns the error,
\* which receive_loop logs.
FinalizeError ==
  /\ pc = "finalize"
  /\ id \notin DOMAIN incoming
  /\ Return
  /\ UNCHANGED disk

\* remove_file of the manifest ends the assembly.
DropManifest ==
  /\ pc = "drop"
  /\ manifest' = Remove(manifest, id)
  /\ Return
  /\ UNCHANGED <<incoming, finals>>

\* The handler is cut short before its next durable step: the process dies
\* and is restarted (nothing but the disk survives), or an I/O call fails and
\* `?` returns to receive_loop, which logs it.  write_all may have written
\* only a part.
Interrupt ==
  /\ pc \in InterruptAt
  /\ \/ UNCHANGED incoming
     \/ /\ pc = "write"
        /\ \E n \in 1 .. pkt.len - 1 :
             incoming' = [incoming EXCEPT ![id] =
                            Written(@, WriteAt(manifest[id], pkt), pkt, n)]
  /\ Return
  /\ UNCHANGED <<manifest, finals>>
-----------------------------------------------------------------------------
Init ==
  /\ manifest = Empty /\ incoming = Empty /\ finals = Empty
  /\ pc = "recv"
  /\ pkt = Absent

\* The handler's own steps.
Work ==
  \/ ExtendData \/ WriteData \/ TruncateData
  \/ MarkDuplicate \/ MarkChunk
  \/ FinalizeRename \/ FinalizeCopy \/ CopyRest \/ UnlinkIncoming
  \/ FinalizeError \/ DropManifest

Next ==
  \/ \E k \in ChunkPackets : IngestChunk(k)
  \/ \E k \in ManifestPackets : IngestManifest(k)
  \/ Work
  \/ Interrupt

Spec == Init /\ [][Next]_vars

\* What the ground asks for: the cleaner requests, on every pass, the missing
\* chunks and the missing name of each assembly in the holding directory; the
\* reconciler requests the whole of a file that is neither there nor landed.
Requested(k, path) ==
  IF k.file_id \notin DOMAIN manifest THEN path \notin DOMAIN finals
  ELSE IF k.ptype = "Manifest" THEN manifest[k.file_id].name = Absent
  ELSE k.chunk_id \notin manifest[k.file_id].bits

\* The receive thread runs whenever it has work, and a packet that is asked for
\* over and over is received over and over: the link is lossy but not dead.
Fairness ==
  /\ WF_vars(Work)
  /\ \A k \in ChunkPackets : SF_vars(Requested(k, Path[k.src]) /\ IngestChunk(k))
  /\ \A k \in ManifestPackets : SF_vars(Requested(k, k.name) /\ IngestManifest(k))

FairSpec == Spec /\ Fairness
-----------------------------------------------------------------------------
(* Properties.                                                              *)

IsImage(d) == d \in [DOMAIN d -> Bytes \cup {Hole}] /\ DOMAIN d \subseteq Nat

\* Type invariant: every file on the receiver's disk, and the packet in hand,
\* has the shape reassembler.rs gives it.
TypeOK ==
  /\ DOMAIN manifest \subseteq Ids
  /\ \A i \in DOMAIN manifest : manifest[i] \in Manifests
  /\ DOMAIN incoming \subseteq Ids
  /\ \A i \in DOMAIN incoming : IsImage(incoming[i])
  /\ DOMAIN finals \subseteq Paths
  /\ \A n \in DOMAIN finals : IsImage(finals[n])
  /\ pc \in PCs
  /\ IF pc = "recv" THEN pkt = Absent
     ELSE IF pc \in {"extend", "write", "truncate", "mark"} THEN pkt \in ChunkPackets
     ELSE pkt \in Packets

\* The offsets of source s that chunk c carries when chunks hold p bytes.
Slice(s, p, c) == c * p .. c * p + PayloadLen(s, p, c) - 1

\* A file image holds the given offsets of s at their place.
Holds(d, s, offsets) ==
  \A o \in offsets : o \in DOMAIN d /\ d[o] = <<s, o>>

\* The assembly's rename has happened and its manifest is about to go.
Leaving(i) == pc = "drop" /\ pkt.file_id = i

\* A bit in a manifest's bitmap vouches for bytes that are on disk, at their
\* place in the data file: the missing ranges the ground asks for are all that
\* is missing, whatever the handler was doing when it was interrupted.
BitsBacked ==
  \A i \in DOMAIN manifest : ~Leaving(i) =>
    \A s \in Sources, p \in PayloadSizes :
      FileId[s] = i /\ NumChunks(s, p) = manifest[i].num_chunks =>
        \A c \in manifest[i].bits : Holds(Opened(incoming, i), s, Slice(s, p, c))

\* The image of a file on the payload.
Intact(n) == \E s \in Sources : Path[s] = n /\ finals[n] = Content(s)

\* Whatever is in the final directory is, byte for byte and to its exact
\* length, a file of the payload ("Anything in `final_dir` is complete by
\* construction").
LandedIntact == \A n \in DOMAIN finals : Intact(n)

\* What LandedIntact takes: the chunk count tells the chunk size (and the id
\* the file), counts fit in a u32, and nothing comes between the rename of a
\* finished file and the removal of its manifest.
Unambiguous ==
  /\ \A s, t \in Sources : FileId[s] = FileId[t] => s = t
  /\ \A s \in Sources : \A p, q \in PayloadSizes :
       NumChunks(s, p) = NumChunks(s, q) => p = q \/ NumChunks(s, p) = 1

NoWrap == \A s \in Sources, p \in PayloadSizes : Size[s] <= (U32 - 1) * p

AtomicFinalize == SameFs /\ "drop" \notin InterruptAt

\* No assembly waits forever with nothing left to ask for: between packets, a
\* manifest lacks its name or a chunk (nobody re-sends anything for a complete
\* and named one, so it could never leave the holding directory).
CompleteIsFinalized ==
  pc = "recv" =>
    \A i \in DOMAIN manifest :
      manifest[i].name = Absent \/ ~is_complete(manifest[i])

\* Received bytes are never given up: a data file leaves the holding directory
\* only when the final directory holds the very same bytes under the file's name,
\* wherever finalize was interrupted before and whichever way it moves the file.
NoByteLost ==
  [][\A i \in DOMAIN incoming \ DOMAIN incoming' :
       LET n == manifest[i].name IN
       n \in DOMAIN finals' /\ finals'[n] = incoming[i]]_vars

\* An assembly only makes progress: while it lives its chunk count is fixed,
\* its payload size and its name are set at most once and no bit is cleared;
\* it ends only with its bytes in the final directory under its name.
AssemblyStep(i) ==
  LET m == manifest[i]  n == manifest'[i] IN
  IF i \in DOMAIN manifest'
    THEN /\ n.num_chunks = m.num_chunks
         /\ m.chunk_payload_size \in {0, n.chunk_payload_size}
         /\ m.name \in {Absent, n.name}
         /\ m.bits \subseteq n.bits
    ELSE /\ is_complete(m)
         /\ \E s \in Sources : FileId[s] = i /\ finals'[m.name] = Content(s)

AssembliesProgress == [][\A i \in DOMAIN manifest : AssemblyStep(i)]_vars

\* The offsets of s that the manifest vouches for.
Collected(s) ==
  UNION {Slice(s, p, c) : p \in {q \in PayloadSizes :
                                   NumChunks(s, q) = manifest[FileId[s]].num_chunks},
                          c \in manifest[FileId[s]].bits}

UnderWay == {s \in Sources : FileId[s] \in DOMAIN manifest /\ ~Leaving(FileId[s])}

Delivery == INSTANCE FileDelivery WITH
  Files <- Sources,
  Name  <- Path,
  Image <- [s \in Sources |-> Content(s)],
  known <- [s \in UnderWay |-> Collected(s)],
  shelf <- finals

\* The receiver implements FileDelivery: to a reader of the final directory the
\* whole machinery of sidecars, duplicates, short tails, interrupted handlers and
\* repeated sends is invisible; a file appears in one step, when every byte of it
\* has been received, and what was received is never given up before that.
ImplementsDelivery == Delivery!Spec

\* What other processes read of the holding directory.
View == INSTANCE Holding WITH
  Files   <- Ids,
  Counts  <- [i \in Ids |-> {NumChunks(s, p) : s \in {t \in Sources : FileId[t] = i},
                                               p \in PayloadSizes}],
  holding <- [i \in DOMAIN manifest |->
                [num |-> manifest[i].num_chunks, named |-> manifest[i].name # Absent,
                 bits |-> manifest[i].bits]]

\* The receiver implements Holding: whoever reads the holding directory between
\* its steps sees assemblies that only grow and that leave only when they are
\* complete and named, wherever the handler was cut short and whichever way
\* finalize moves the file.
ImplementsHolding == View!Spec

\* If interruptions cease, every file reaches the final directory intact, in
\* whatever order its packets come and wherever the handler was cut short,
\* half way through a copy included.  The one way to be left behind is an
\* assembly that was cut short when it was complete: receive_loop finalizes only
\* on a packet, and nobody asks for one any more.
FilesLand ==
  <>[][~Interrupt]_vars /\ <>[]CompleteIsFinalized =>
    \A s \in Sources : <>(Path[s] \in DOMAIN finals /\ finals[Path[s]] = Content(s))
=============================================================================
