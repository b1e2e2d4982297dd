-------------------------- MODULE ReassemblerProofs --------------------------
(***************************************************************************)
(* Proofs about Reassembler, for all files, sizes, chunk sizes and         *)
(* deliveries: every bit in a sidecar is backed by the right bytes on      *)
(* disk, every file in final_dir is exactly the payload's, nothing that    *)
(* was received is given up, assemblies make progress and are finalized    *)
(* when they are complete, other processes see what Holding allows, and    *)
(* whoever reads final_dir what FileDelivery promises.                     *)
(***************************************************************************)
EXTENDS Reassembler, ChunkMathProofs

\* What a chunk packet's header and payload can be.
LEMMA ChunkPacketFacts ==
  ASSUME NEW k \in ChunkPackets
  PROVE  /\ k \in Packets
         /\ k.file_id \in Ids /\ k.src \in Sources
         /\ k.chunk_id \in Nat /\ k.num_chunks \in Nat
         /\ k.off \in Nat /\ k.len \in Nat
<1>1. PICK t \in ChunkTypes, s \in Sources, p \in PayloadSizes :
        k \in {ChunkPacket(t, s, p, c) : c \in 0 .. NumChunks(s, p) - 1}
  BY DEF ChunkPackets
<1>2. PICK c \in 0 .. NumChunks(s, p) - 1 : k = ChunkPacket(t, s, p, c)
  BY <1>1
<1>3. Size[s] \in Nat /\ p \in Nat \ {0}
  BY ChunkerAssumption
<1>4. NumChunks(s, p) \in Nat
  BY <1>3, ChunksNat DEF NumChunks
<1>5. c * p \in Nat /\ c * p <= Size[s]
  BY <1>3, ChunkStart DEF NumChunks
<1>6. PayloadLen(s, p, c) \in Nat
  BY <1>3, <1>5 DEF PayloadLen
<1> QED BY <1>2, <1>4, <1>5, <1>6 DEF ChunkPacket, Ids, Packets

\* What a manifest packet's header and payload can be.
LEMMA ManifestPacketFacts ==
  ASSUME NEW k \in ManifestPackets
  PROVE  /\ k \in Packets
         /\ k.file_id \in Ids /\ k.num_chunks \in Nat /\ k.name \in Paths
<1>1. PICK s \in Sources, p \in PayloadSizes : k = ManifestPacket(s, p)
  BY DEF ManifestPackets
<1>2. NumChunks(s, p) \in Nat
  BY ChunkerAssumption, ChunksNat DEF NumChunks
<1> QED BY <1>1, <1>2 DEF ManifestPacket, Ids, Paths, Packets
-----------------------------------------------------------------------------
(* Type correctness.                                                        *)

ChunkPCs == {"extend", "write", "truncate", "mark"}
FinalPCs == {"finalize", "copying", "unlink", "drop"}

\* TypeOK is not inductive: the handler relies on the files its earlier steps
\* opened, and finalize on the name it was called for.
HandlerOK ==
  /\ pc # "recv" => id \in DOMAIN manifest
  /\ pc \in {"write", "truncate", "mark", "copying", "unlink"} =>
       id \in DOMAIN incoming
  /\ pc \in FinalPCs => manifest[id].name # Absent

TypeInv == TypeOK /\ HandlerOK

\* An empty ground station is well typed.
LEMMA TypeInit == Init => TypeInv
  BY DEF Init, TypeInv, TypeOK, HandlerOK, Empty, PCs, FinalPCs, IsImage

\* Writing a payload into a file image leaves a file image.
LEMMA WrittenImage ==
  ASSUME NEW d, IsImage(d), NEW at \in Nat, NEW k \in ChunkPackets, NEW n \in Nat
  PROVE  IsImage(Written(d, at, k, n))
  BY ChunkPacketFacts DEF IsImage, Written, Bytes

\* So do growing, truncating and copying a part of one.
LEMMA ExtendedImage ==
  ASSUME NEW d, IsImage(d), NEW n \in Nat
  PROVE  IsImage(Extended(d, n)) /\ IsImage(SetLen(d, n)) /\ IsImage(Prefix(d, n))
  BY DEF IsImage, Extended, SetLen, Prefix

\* A fresh sidecar is a sidecar.
LEMMA NewManifestType ==
  ASSUME NEW q \in Nat, NEW n \in Nat, NEW name \in Paths \cup {Absent}
  PROVE  NewManifest(q, n, name) \in Manifests /\ NewManifest(q, n, name).name = name
  BY DEF NewManifest, Manifests

\* Adding a name to a sidecar leaves a sidecar.
LEMMA NamedType ==
  ASSUME TypeInv, NEW k \in ManifestPackets
  PROVE  Named(k) \in Manifests /\ Named(k).name # Absent
<1>1. k.num_chunks \in Nat /\ k.name \in Paths /\ k.name # Absent
  BY ManifestPacketFacts, ReassemblerAssumption
<1>2. CASE k.file_id \notin DOMAIN manifest
  BY <1>1, <1>2, NewManifestType DEF Named
<1>3. CASE k.file_id \in DOMAIN manifest
  <2>1. manifest[k.file_id] \in Manifests
    BY <1>3 DEF TypeInv, TypeOK
  <2> QED BY <1>1, <1>3, <2>1 DEF Named, Manifests
<1> QED BY <1>2, <1>3

\* The handler's arithmetic on offsets stays in Nat.
LEMMA OffsetType ==
  ASSUME TypeInv, pc \in ChunkPCs
  PROVE  /\ manifest[id] \in Manifests
         /\ WriteAt(manifest[id], pkt) \in Nat
         /\ NeededLen(manifest[id], pkt) \in Nat
<1>1. pkt \in ChunkPackets /\ manifest[id] \in Manifests
  BY DEF TypeInv, TypeOK, HandlerOK, ChunkPCs
<1>2. manifest[id].chunk_payload_size \in Nat
  BY <1>1 DEF Manifests
<1>3. pkt.chunk_id \in Nat /\ pkt.len \in Nat
  BY <1>1, ChunkPacketFacts
<1>4. pkt.chunk_id * manifest[id].chunk_payload_size \in Nat
  BY <1>2, <1>3
<1> QED BY <1>1, <1>3, <1>4 DEF WriteAt, NeededLen

\* Every step of the handlers keeps the state well typed.
LEMMA TypeNext == TypeInv /\ [Next]_vars => TypeInv'
<1> SUFFICES ASSUME TypeInv, [Next]_vars PROVE TypeInv'
  OBVIOUS
<1> USE DEF TypeInv, HandlerOK, FinalPCs, id
<1>1. ASSUME NEW k \in ChunkPackets, IngestChunk(k) PROVE TypeInv'
  <2>1. k \in Packets /\ k.file_id \in Ids /\ k.num_chunks \in Nat /\ k.len \in Nat
    BY ChunkPacketFacts
  <2>2. NewManifest(k.len, k.num_chunks, Absent) \in Manifests
    BY <2>1, NewManifestType
  <2>3. /\ DOMAIN manifest' \subseteq Ids
        /\ \A i \in DOMAIN manifest' : manifest'[i] \in Manifests
        /\ k.file_id \in DOMAIN manifest'
    BY <1>1, <2>1, <2>2 DEF IngestChunk, Fits, Put, TypeOK, Manifests
  <2> QED BY <1>1, <2>1, <2>3 DEF IngestChunk, TypeOK, PCs
<1>2. ASSUME NEW k \in ManifestPackets, IngestManifest(k) PROVE TypeInv'
  <2>1. k \in Packets /\ k.file_id \in Ids
    BY ManifestPacketFacts
  <2>2. Named(k) \in Manifests /\ Named(k).name # Absent
    BY NamedType
  <2>3. /\ DOMAIN manifest' \subseteq Ids
        /\ \A i \in DOMAIN manifest' : manifest'[i] \in Manifests
        /\ k.file_id \in DOMAIN manifest'
        /\ manifest'[k.file_id].name # Absent
    BY <1>2, <2>1, <2>2 DEF IngestManifest, Put, TypeOK
  <2>4. \/ pc' = "recv" /\ pkt' = Absent
        \/ pc' = "finalize" /\ pkt' = k
    BY <1>2 DEF IngestManifest, Return
  <2> QED BY <1>2, <2>1, <2>3, <2>4 DEF IngestManifest, TypeOK, PCs
<1>3. CASE ExtendData
  <2>1. pkt \in ChunkPackets /\ pkt.file_id \in Ids
    BY <1>3, ChunkPacketFacts DEF ExtendData, TypeOK
  <2>2. IsImage(Opened(incoming, id))
    BY DEF Opened, Empty, IsImage, TypeOK
  <2>3. IsImage(Extended(Opened(incoming, id), NeededLen(manifest[id], pkt)))
    BY <1>3, <2>2, OffsetType, ExtendedImage DEF ExtendData, ChunkPCs
  <2> QED BY <1>3, <2>1, <2>3 DEF ExtendData, Put, TypeOK, PCs
<1>4. CASE WriteData
  <2>1. pkt \in ChunkPackets /\ pkt.len \in Nat
    BY <1>4, ChunkPacketFacts DEF WriteData, TypeOK
  <2>2. IsImage(incoming[id])
    BY <1>4 DEF WriteData, TypeOK
  <2>3. IsImage(Written(incoming[id], WriteAt(manifest[id], pkt), pkt, pkt.len))
    BY <1>4, <2>1, <2>2, OffsetType, WrittenImage DEF WriteData, ChunkPCs
  <2> QED BY <1>4, <2>1, <2>3 DEF WriteData, TypeOK, PCs
<1>5. CASE TruncateData
  <2>1. IsImage(incoming[id])
    BY <1>5 DEF TruncateData, TypeOK
  <2>2. IsImage(SetLen(incoming[id], NeededLen(manifest[id], pkt)))
    BY <1>5, <2>1, OffsetType, ExtendedImage DEF TruncateData, ChunkPCs
  <2> QED BY <1>5, <2>2 DEF TruncateData, TypeOK, PCs
<1>6. CASE MarkDuplicate
  BY <1>6 DEF MarkDuplicate, Return, disk, TypeOK, PCs
<1>7. CASE MarkChunk
  <2>1. pkt \in ChunkPackets /\ pkt.chunk_id \in Nat /\ pkt \in Packets
    BY <1>7, ChunkPacketFacts DEF MarkChunk, TypeOK
  <2>2. manifest[id] \in Manifests /\ id \in DOMAIN manifest
    BY <1>7 DEF MarkChunk, TypeOK
  <2>3. /\ DOMAIN manifest' = DOMAIN manifest
        /\ \A i \in DOMAIN manifest' : manifest'[i] \in Manifests
        /\ manifest'[id].name = manifest[id].name
    BY <1>7, <2>1, <2>2 DEF MarkChunk, TypeOK, Manifests
  <2>4. \/ pc' = "recv" /\ pkt' = Absent
        \/ pc' = "finalize" /\ pkt' = pkt /\ manifest[id].name # Absent
    BY <1>7 DEF MarkChunk, Return
  <2> QED BY <1>7, <2>1, <2>2, <2>3, <2>4 DEF MarkChunk, TypeOK, PCs
<1>8. CASE FinalizeRename \/ FinalizeCopy \/ CopyRest
  <2>1. manifest[id].name \in Paths
    BY <1>8 DEF FinalizeRename, FinalizeCopy, CopyRest, TypeOK, Manifests
  <2>2. IsImage(incoming[id]) /\ \A n \in 0 .. MaxSize : IsImage(Prefix(incoming[id], n))
    BY <1>8, ExtendedImage DEF FinalizeRename, FinalizeCopy, CopyRest, TypeOK
  <2> QED BY <1>8, <2>1, <2>2 DEF FinalizeRename, FinalizeCopy, CopyRest, Put, Remove, TypeOK, PCs
<1>9. CASE UnlinkIncoming
  BY <1>9 DEF UnlinkIncoming, Remove, TypeOK, PCs
<1>10. CASE FinalizeError
  BY <1>10 DEF FinalizeError, Return, disk, TypeOK, PCs
<1>11. CASE DropManifest
  BY <1>11 DEF DropManifest, Return, Remove, TypeOK, PCs
<1>12. CASE Interrupt
  <2>1. \A i \in DOMAIN incoming' : IsImage(incoming'[i])
    <3>1. CASE UNCHANGED incoming
      BY <3>1 DEF TypeOK
    <3>2. CASE pc = "write" /\ \E n \in 1 .. pkt.len - 1 :
             incoming' = [incoming EXCEPT ![id] =
                            Written(@, WriteAt(manifest[id], pkt), pkt, n)]
      <4>1. PICK n \in 1 .. pkt.len - 1 :
              incoming' = [incoming EXCEPT ![id] =
                            Written(@, WriteAt(manifest[id], pkt), pkt, n)]
        BY <3>2
      <4>2. n \in Nat /\ pkt \in ChunkPackets
        BY <3>2, ChunkPacketFacts DEF TypeOK
      <4>3. IsImage(incoming[id])
        BY <3>2 DEF TypeOK
      <4>4. IsImage(Written(incoming[id], WriteAt(manifest[id], pkt), pkt, n))
        BY <3>2, <4>2, <4>3, OffsetType, WrittenImage DEF ChunkPCs
      <4> QED BY <4>1, <4>4 DEF TypeOK
    <3> QED BY <1>12, <3>1, <3>2 DEF Interrupt
  <2>2. DOMAIN incoming' = DOMAIN incoming
    BY <1>12 DEF Interrupt
  <2> QED BY <1>12, <2>1, <2>2 DEF Interrupt, Return, TypeOK, PCs
<1>13. CASE UNCHANGED vars
  BY <1>13 DEF vars, TypeOK
<1> QED
  BY <1>1, <1>2, <1>3, <1>4, <1>5, <1>6, <1>7, <1>8, <1>9, <1>10, <1>11, <1>12, <1>13
     DEF Next, Work

\* Every reachable state of the receiver is well typed, for any files, payload
\* sizes and interruption points.
THEOREM TypeCorrect == Spec => []TypeOK
<1>1. TypeInv => TypeOK
  BY DEF TypeInv
<1> QED BY <1>1, TypeInit, TypeNext, PTL DEF Spec
-----------------------------------------------------------------------------
(* What lands is what was sent.                                             *)

\* The geometry of a packet in terms of the file it was cut from.
LEMMA PacketGeometry ==
  ASSUME NoWrap, NEW k \in ChunkPackets
  PROVE  \E p \in PayloadSizes :
           /\ k.file_id = FileId[k.src]
           /\ k.num_chunks = NumChunks(k.src, p)
           /\ k.chunk_id \in 0 .. NumChunks(k.src, p) - 1
           /\ k.off = k.chunk_id * p
           /\ k.off .. k.off + k.len - 1 = Slice(k.src, p, k.chunk_id)
           /\ k.off + k.len <= Size[k.src]
           /\ k.last => k.off + k.len = Size[k.src]
           /\ ~UnsizedTail(k) => k.len = p \/ k.num_chunks = 1
<1>1. PICK t \in ChunkTypes, s \in Sources, p \in PayloadSizes :
        k \in {ChunkPacket(t, s, p, c) : c \in 0 .. NumChunks(s, p) - 1}
  BY DEF ChunkPackets
<1>2. PICK c \in 0 .. NumChunks(s, p) - 1 : k = ChunkPacket(t, s, p, c)
  BY <1>1
<1>3. Size[s] \in Nat /\ p \in Nat \ {0} /\ Size[s] <= (U32 - 1) * p
  BY ChunkerAssumption DEF NoWrap
<1>4. PayloadLen(s, p, c) = ChunkLen(Size[s], p, c)
  BY DEF PayloadLen, ChunkLen
<1>5. NumChunks(s, p) \in Nat
  BY <1>3, ChunksNat DEF NumChunks
<1>6. /\ c * p \in Nat /\ PayloadLen(s, p, c) \in Nat
      /\ c * p + PayloadLen(s, p, c) <= Size[s]
      /\ c = NumChunks(s, p) - 1 => c * p + PayloadLen(s, p, c) = Size[s]
      /\ c # NumChunks(s, p) - 1 => PayloadLen(s, p, c) = p
  BY <1>3, <1>4, ChunkExtent DEF NumChunks
<1>7. /\ k.file_id = FileId[s] /\ k.src = s /\ k.chunk_id = c /\ k.off = c * p
      /\ k.len = PayloadLen(s, p, c) /\ k.num_chunks = NumChunks(s, p)
      /\ k.last <=> c = NumChunks(s, p) - 1
  BY <1>2 DEF ChunkPacket
<1>8. ~UnsizedTail(k) => k.len = p \/ k.num_chunks = 1
  <2>1. CASE c = NumChunks(s, p) - 1
    <3>1. k.last /\ k.num_chunks \in Nat \ {0}
      BY <1>5, <1>7, <2>1
    <3> QED BY <3>1 DEF UnsizedTail
  <2> QED BY <1>6, <1>7, <2>1
<1> QED BY <1>5, <1>6, <1>7, <1>8 DEF Slice

\* Two payload sizes that give the same chunk count cut the file alike.
LEMMA SameSlices ==
  ASSUME NoWrap, Unambiguous, NEW s \in Sources,
         NEW p \in PayloadSizes, NEW q \in PayloadSizes,
         NumChunks(s, p) = NumChunks(s, q),
         NEW c \in 0 .. NumChunks(s, p) - 1
  PROVE  Slice(s, p, c) = Slice(s, q, c)
<1>1. CASE p = q
  BY <1>1
<1>2. CASE p # q
  <2>1. NumChunks(s, p) = 1 /\ NumChunks(s, q) = 1
    BY <1>2 DEF Unambiguous
  <2>2. c = 0
    BY <2>1
  <2>3. ASSUME NEW r \in {p, q} PROVE Slice(s, r, 0) = 0 .. Size[s] - 1
    <3>1. Size[s] \in Nat /\ r \in Nat \ {0} /\ Size[s] <= (U32 - 1) * r
      BY ChunkerAssumption DEF NoWrap
    <3>2. chunks_for_size(Size[s], r) = 1
      BY <2>1, <2>3 DEF NumChunks
    <3>3. ChunkLen(Size[s], r, 0) \in Nat /\ 0 * r + ChunkLen(Size[s], r, 0) = Size[s]
      BY <3>1, <3>2, ChunkExtent
    <3>4. PayloadLen(s, r, 0) = ChunkLen(Size[s], r, 0)
      BY DEF PayloadLen, ChunkLen
    <3> QED BY <3>1, <3>3, <3>4 DEF Slice
  <2> QED BY <2>2, <2>3
<1> QED BY <1>1, <1>2

\* What an assembly knows of its file.
AssembliesOK ==
  \A i \in DOMAIN manifest : \A s \in Sources, p \in PayloadSizes :
    FileId[s] = i /\ NumChunks(s, p) = manifest[i].num_chunks =>
      /\ manifest[i].name \in {Absent, Path[s]}
      /\ manifest[i].bits \subseteq 0 .. manifest[i].num_chunks - 1
      /\ manifest[i].num_chunks > 1 => manifest[i].chunk_payload_size \in {0, p}

\* A data file is never longer than its source.
IncomingBounded ==
  \A i \in DOMAIN incoming : \A s \in Sources :
    FileId[s] = i => DOMAIN incoming[i] \subseteq 0 .. Size[s] - 1

\* finalize, up to where the data file is gone.
MovePCs == {"finalize", "copying", "unlink"}

\* What the handler has established at each of its steps.
HandlerSafe ==
  /\ pc # "recv" => manifest[id].num_chunks = pkt.num_chunks
  /\ pc \in ChunkPCs /\ pkt.num_chunks > 1 => manifest[id].chunk_payload_size # 0
  /\ pc \in {"truncate", "mark"} =>
       Holds(incoming[id], pkt.src, pkt.off .. pkt.off + pkt.len - 1)
  /\ pc = "truncate" => pkt.last
  /\ pc \in MovePCs => is_complete(manifest[id])

\* Data file and bitmap agree, whichever way finalize moves the file.
DataInv ==
  TypeInv /\ AssembliesOK /\ IncomingBounded /\ HandlerSafe /\ BitsBacked

\* Nothing comes between the move of a finished file and its manifest's removal.
DropCertain == "drop" \notin InterruptAt

\* An empty ground station has nothing to back.
LEMMA DataInit == Init => DataInv
  BY TypeInit DEF Init, DataInv, AssembliesOK, IncomingBounded, HandlerSafe,
     BitsBacked, Empty, ChunkPCs, MovePCs

\* The chunk in hand is written where it belongs.
LEMMA Placement ==
  ASSUME NoWrap, Unambiguous, DataInv, pc \in ChunkPCs
  PROVE  /\ pkt \in ChunkPackets
         /\ pkt.src \in Sources /\ FileId[pkt.src] = id
         /\ pkt.off \in Nat /\ pkt.len \in Nat /\ Size[pkt.src] \in Nat
         /\ WriteAt(manifest[id], pkt) = pkt.off
         /\ NeededLen(manifest[id], pkt) = pkt.off + pkt.len
         /\ pkt.off + pkt.len <= Size[pkt.src]
         /\ pkt.last => pkt.off + pkt.len = Size[pkt.src]
<1>1. pkt \in ChunkPackets /\ id \in DOMAIN manifest /\ manifest[id] \in Manifests
  BY DEF DataInv, TypeInv, TypeOK, HandlerOK, ChunkPCs
<1>2. /\ pkt.src \in Sources /\ pkt.off \in Nat /\ pkt.len \in Nat
      /\ pkt.chunk_id \in Nat /\ pkt.num_chunks \in Nat
  BY <1>1, ChunkPacketFacts
<1>3. PICK p \in PayloadSizes :
        /\ pkt.file_id = FileId[pkt.src]
        /\ pkt.num_chunks = NumChunks(pkt.src, p)
        /\ pkt.chunk_id \in 0 .. NumChunks(pkt.src, p) - 1
        /\ pkt.off = pkt.chunk_id * p
        /\ pkt.off + pkt.len <= Size[pkt.src]
        /\ pkt.last => pkt.off + pkt.len = Size[pkt.src]
  BY <1>1, PacketGeometry
<1>4. Size[pkt.src] \in Nat /\ p \in Nat
  BY <1>2, ChunkerAssumption
<1>5. manifest[id].num_chunks = pkt.num_chunks
  BY DEF DataInv, HandlerSafe, ChunkPCs
<1>6. WriteAt(manifest[id], pkt) = pkt.off
  <2>1. CASE pkt.num_chunks > 1
    <3>1. manifest[id].chunk_payload_size \in {0, p}
      BY <1>1, <1>2, <1>3, <1>5, <2>1 DEF DataInv, AssembliesOK, id
    <3>2. manifest[id].chunk_payload_size # 0
      BY <2>1 DEF DataInv, HandlerSafe
    <3> QED BY <1>3, <3>1, <3>2 DEF WriteAt
  <2>2. CASE ~(pkt.num_chunks > 1)
    <3>1. pkt.chunk_id = 0
      BY <1>2, <1>3, <2>2
    <3>2. manifest[id].chunk_payload_size \in Nat
      BY <1>1 DEF Manifests
    <3> QED BY <1>3, <1>4, <3>1, <3>2 DEF WriteAt
  <2> QED BY <2>1, <2>2
<1> QED BY <1>1, <1>2, <1>3, <1>4, <1>6 DEF NeededLen, id
\* Writing a chunk at its own offset disturbs no byte that is in place.
LEMMA WrittenHolds ==
  ASSUME NEW d, NEW k \in ChunkPackets, NEW n \in Nat
  PROVE  /\ DOMAIN Written(d, k.off, k, n) = DOMAIN d \cup k.off .. k.off + n - 1
         /\ Holds(Written(d, k.off, k, n), k.src, k.off .. k.off + n - 1)
         /\ \A X : Holds(d, k.src, X) => Holds(Written(d, k.off, k, n), k.src, X)
<1>1. k.off \in Nat
  BY ChunkPacketFacts
<1> QED BY <1>1 DEF Written, Holds

\* Growing a file, or setting a length that cuts no byte off, moves no byte.
LEMMA LengthHolds ==
  ASSUME NEW d, NEW n \in Nat, NEW s
  PROVE  /\ DOMAIN Extended(d, n) = DOMAIN d \cup 0 .. n - 1
         /\ DOMAIN SetLen(d, n) = 0 .. n - 1
         /\ \A X : Holds(d, s, X) => Holds(Extended(d, n), s, X)
         /\ DOMAIN d \subseteq 0 .. n - 1 =>
              \A X : Holds(d, s, X) => Holds(SetLen(d, n), s, X)
  BY DEF Extended, SetLen, Holds

\* A complete assembly's data file is the source, byte for byte.
LEMMA CompleteIsContent ==
  ASSUME NoWrap, DataInv, NEW s \in Sources, NEW p \in PayloadSizes,
         FileId[s] \in DOMAIN manifest, FileId[s] \in DOMAIN incoming,
         NumChunks(s, p) = manifest[FileId[s]].num_chunks,
         is_complete(manifest[FileId[s]]), ~Leaving(FileId[s])
  PROVE  incoming[FileId[s]] = Content(s)
<1> DEFINE d == incoming[FileId[s]]
<1>1. Size[s] \in Nat /\ p \in Nat \ {0} /\ Size[s] <= (U32 - 1) * p
  BY ChunkerAssumption DEF NoWrap
<1>2. d \in [DOMAIN d -> Bytes \cup {Hole}] /\ DOMAIN d \subseteq 0 .. Size[s] - 1
  BY DEF DataInv, TypeInv, TypeOK, IsImage, IncomingBounded
<1>3. \A c \in 0 .. NumChunks(s, p) - 1 : Holds(d, s, Slice(s, p, c))
  BY DEF DataInv, BitsBacked, is_complete, Opened
<1>4. ASSUME NEW o \in 0 .. Size[s] - 1
      PROVE  o \in DOMAIN d /\ d[o] = <<s, o>>
  <2>1. PICK c \in 0 .. NumChunks(s, p) - 1 :
          o \in c * p .. c * p + ChunkLen(Size[s], p, c) - 1
    BY <1>1, ChunksCover DEF NumChunks
  <2>2. o \in Slice(s, p, c)
    BY <2>1 DEF Slice, PayloadLen, ChunkLen
  <2> QED BY <1>3, <2>2 DEF Holds
<1> QED BY <1>2, <1>4 DEF Content

\* Replacing a data file by one that still holds what the old one held, and
\* is no longer than the source, keeps bitmap and data file in step.
LEMMA IncomingStep ==
  ASSUME DataInv, NEW s \in Sources,
         \A t \in Sources : FileId[t] = FileId[s] => t = s,
         UNCHANGED manifest, pc # "drop", pc' # "drop",
         DOMAIN incoming' = DOMAIN incoming \cup {FileId[s]},
         \A i \in DOMAIN incoming : i # FileId[s] => incoming'[i] = incoming[i],
         DOMAIN incoming'[FileId[s]] \subseteq 0 .. Size[s] - 1,
         \A X : Holds(Opened(incoming, FileId[s]), s, X) =>
                  Holds(incoming'[FileId[s]], s, X)
  PROVE  AssembliesOK' /\ IncomingBounded' /\ BitsBacked'
<1>1. AssembliesOK'
  BY DEF DataInv, AssembliesOK
<1>2. IncomingBounded'
  BY DEF DataInv, IncomingBounded
<1>3. BitsBacked'
  <2> SUFFICES ASSUME NEW i \in DOMAIN manifest, NEW t \in Sources, NEW p \in PayloadSizes,
                      FileId[t] = i, NumChunks(t, p) = manifest[i].num_chunks,
                      NEW c \in manifest[i].bits
               PROVE  Holds(Opened(incoming', i), t, Slice(t, p, c))
    BY DEF BitsBacked, Opened
  <2>1. Holds(Opened(incoming, i), t, Slice(t, p, c))
    BY DEF DataInv, BitsBacked, Leaving
  <2>2. CASE i = FileId[s]
    BY <2>1, <2>2 DEF Opened
  <2>3. CASE i # FileId[s]
    BY <2>1, <2>3 DEF Opened
  <2> QED BY <2>2, <2>3
<1> QED BY <1>1, <1>2, <1>3

\* Every step of the handlers keeps data file and bitmap in step.
LEMMA DataNext ==
  ASSUME Unambiguous, NoWrap, DropCertain, DataInv, [Next]_vars
  PROVE  DataInv'
<1>0. TypeInv'
  BY TypeNext DEF DataInv
<1>1. ASSUME NEW k \in ChunkPackets, IngestChunk(k) PROVE DataInv'
  <2>1. PICK q \in PayloadSizes :
          /\ k.file_id = FileId[k.src]
          /\ k.num_chunks = NumChunks(k.src, q)
          /\ ~UnsizedTail(k) => k.len = q \/ k.num_chunks = 1
    BY PacketGeometry
  <2>2. k.src \in Sources /\ q # 0 /\ k.num_chunks \in Nat
    BY ChunkPacketFacts, ChunkerAssumption
  <2>3. \A i \in DOMAIN manifest' : i # k.file_id =>
           i \in DOMAIN manifest /\ manifest'[i] = manifest[i]
    BY <1>1 DEF IngestChunk, Put
  <2>4. /\ k.file_id \in DOMAIN manifest'
        /\ manifest'[k.file_id].num_chunks = k.num_chunks
        /\ \/ /\ manifest'[k.file_id].bits = {}
              /\ manifest'[k.file_id].name = Absent
           \/ /\ k.file_id \in DOMAIN manifest
              /\ manifest[k.file_id].num_chunks = k.num_chunks
              /\ manifest'[k.file_id].bits = manifest[k.file_id].bits
              /\ manifest'[k.file_id].name = manifest[k.file_id].name
        /\ k.num_chunks > 1 => manifest'[k.file_id].chunk_payload_size = q
    <3>1. CASE k.file_id \notin DOMAIN manifest
      BY <1>1, <2>1, <2>2, <3>1 DEF IngestChunk, Put, NewManifest, Fits
    <3>2. CASE k.file_id \in DOMAIN manifest
      <4>1. manifest[k.file_id] \in Manifests
        BY <3>2 DEF DataInv, TypeInv, TypeOK
      <4>2. Fits(k)
        BY <1>1, <3>2 DEF IngestChunk
      <4>3. k.num_chunks > 1 => manifest[k.file_id].chunk_payload_size \in {0, q}
        BY <2>1, <2>2, <4>2 DEF DataInv, AssembliesOK, Fits
      <4> QED BY <1>1, <2>1, <2>2, <3>2, <4>1, <4>2, <4>3 DEF IngestChunk, Fits, Manifests
    <3> QED BY <3>1, <3>2
  <2>5. AssembliesOK'
    <3> SUFFICES ASSUME NEW i \in DOMAIN manifest', NEW s \in Sources, NEW p \in PayloadSizes,
                        FileId[s] = i, NumChunks(s, p) = manifest'[i].num_chunks
                 PROVE  /\ manifest'[i].name \in {Absent, Path[s]}
                        /\ manifest'[i].bits \subseteq 0 .. manifest'[i].num_chunks - 1
                        /\ manifest'[i].num_chunks > 1 =>
                             manifest'[i].chunk_payload_size \in {0, p}
      BY DEF AssembliesOK
    <3>1. CASE i # k.file_id
      BY <2>3, <3>1 DEF DataInv, AssembliesOK
    <3>2. CASE i = k.file_id
      <4>1. s = k.src /\ NumChunks(s, p) = k.num_chunks
        BY <2>1, <2>2, <2>4, <3>2 DEF Unambiguous
      <4>2. k.num_chunks > 1 => p = q
        BY <2>1, <2>2, <4>1 DEF Unambiguous
      <4> QED BY <2>4, <3>2, <4>1, <4>2 DEF DataInv, AssembliesOK
    <3> QED BY <3>1, <3>2
  <2>6. BitsBacked'
    <3> SUFFICES ASSUME NEW i \in DOMAIN manifest', NEW s \in Sources, NEW p \in PayloadSizes,
                        FileId[s] = i, NumChunks(s, p) = manifest'[i].num_chunks,
                        NEW c \in manifest'[i].bits
                 PROVE  Holds(Opened(incoming, i), s, Slice(s, p, c))
      BY <1>1 DEF BitsBacked, IngestChunk, Opened
    <3>1. ~Leaving(i)
      BY <1>1 DEF IngestChunk, Leaving
    <3>2. i \in DOMAIN manifest /\ c \in manifest[i].bits
                /\ manifest'[i].num_chunks = manifest[i].num_chunks
      BY <2>3, <2>4
    <3> QED BY <3>1, <3>2 DEF DataInv, BitsBacked
  <2>7. HandlerSafe'
    BY <1>1, <2>2, <2>4 DEF IngestChunk, HandlerSafe, id, ChunkPCs, MovePCs
  <2>8. IncomingBounded'
    BY <1>1 DEF IngestChunk, DataInv, IncomingBounded
  <2> QED BY <1>0, <2>5, <2>6, <2>7, <2>8 DEF DataInv
<1>2. ASSUME NEW k \in ManifestPackets, IngestManifest(k) PROVE DataInv'
  <2>1. PICK r \in Sources, q \in PayloadSizes : k = ManifestPacket(r, q)
    BY DEF ManifestPackets
  <2>2. k.file_id = FileId[r] /\ k.num_chunks = NumChunks(r, q) /\ k.name = Path[r]
    BY <2>1 DEF ManifestPacket
  <2>3. \A i \in DOMAIN manifest' : i # k.file_id =>
           i \in DOMAIN manifest /\ manifest'[i] = manifest[i]
    BY <1>2 DEF IngestManifest, Put
  <2>4. /\ k.file_id \in DOMAIN manifest'
        /\ manifest'[k.file_id] = Named(k)
        /\ Named(k).num_chunks = k.num_chunks
        /\ \/ /\ Named(k).bits = {}
              /\ Named(k).name = k.name
              /\ Named(k).chunk_payload_size = 0
           \/ /\ k.file_id \in DOMAIN manifest
              /\ manifest[k.file_id].num_chunks = k.num_chunks
              /\ Named(k).bits = manifest[k.file_id].bits
              /\ Named(k).name \in {k.name, manifest[k.file_id].name}
              /\ Named(k).chunk_payload_size = manifest[k.file_id].chunk_payload_size
    <3>1. CASE k.file_id \notin DOMAIN manifest
      BY <1>2, <3>1 DEF IngestManifest, Put, Named, NewManifest
    <3>2. CASE k.file_id \in DOMAIN manifest
      <4>1. manifest[k.file_id] \in Manifests
        BY <3>2 DEF DataInv, TypeInv, TypeOK
      <4>2. manifest[k.file_id].num_chunks = k.num_chunks
        BY <1>2, <3>2 DEF IngestManifest, Fits
      <4> QED BY <1>2, <3>2, <4>1, <4>2 DEF IngestManifest, Put, Named, Manifests
    <3> QED BY <3>1, <3>2
  <2>5. AssembliesOK'
    <3> SUFFICES ASSUME NEW i \in DOMAIN manifest', NEW s \in Sources, NEW p \in PayloadSizes,
                        FileId[s] = i, NumChunks(s, p) = manifest'[i].num_chunks
                 PROVE  /\ manifest'[i].name \in {Absent, Path[s]}
                        /\ manifest'[i].bits \subseteq 0 .. manifest'[i].num_chunks - 1
                        /\ manifest'[i].num_chunks > 1 =>
                             manifest'[i].chunk_payload_size \in {0, p}
      BY DEF AssembliesOK
    <3>1. CASE i # k.file_id
      BY <2>3, <3>1 DEF DataInv, AssembliesOK
    <3>2. CASE i = k.file_id
      <4>1. s = r
        BY <2>2, <3>2 DEF Unambiguous
      <4> QED BY <2>2, <2>4, <3>2, <4>1 DEF DataInv, AssembliesOK
    <3> QED BY <3>1, <3>2
  <2>6. BitsBacked'
    <3> SUFFICES ASSUME NEW i \in DOMAIN manifest', NEW s \in Sources, NEW p \in PayloadSizes,
                        FileId[s] = i, NumChunks(s, p) = manifest'[i].num_chunks,
                        NEW c \in manifest'[i].bits
                 PROVE  Holds(Opened(incoming, i), s, Slice(s, p, c))
      BY <1>2 DEF BitsBacked, IngestManifest, Opened
    <3>1. ~Leaving(i)
      BY <1>2 DEF IngestManifest, Leaving
    <3>2. i \in DOMAIN manifest /\ c \in manifest[i].bits
                /\ manifest'[i].num_chunks = manifest[i].num_chunks
      BY <2>3, <2>4
    <3> QED BY <3>1, <3>2 DEF DataInv, BitsBacked
  <2>7. HandlerSafe'
    BY <1>2, <2>4 DEF IngestManifest, Return, HandlerSafe, id, ChunkPCs, MovePCs
  <2>8. IncomingBounded'
    BY <1>2 DEF IngestManifest, DataInv, IncomingBounded
  <2> QED BY <1>0, <2>5, <2>6, <2>7, <2>8 DEF DataInv
<1>3. CASE ExtendData
  <2> DEFINE d == Opened(incoming, id)
             n == NeededLen(manifest[id], pkt)
             e == Extended(d, n)
  <2>1. pc \in ChunkPCs
    BY <1>3 DEF ExtendData, ChunkPCs
  <2>2. /\ pkt.src \in Sources /\ FileId[pkt.src] = id /\ Size[pkt.src] \in Nat
        /\ n \in Nat /\ n <= Size[pkt.src]
    BY <2>1, Placement
  <2>3. DOMAIN d \subseteq 0 .. Size[pkt.src] - 1
    BY <2>2 DEF DataInv, IncomingBounded, Opened, Empty
  <2>4. /\ DOMAIN e \subseteq 0 .. Size[pkt.src] - 1
        /\ \A X : Holds(d, pkt.src, X) => Holds(e, pkt.src, X)
    <3> HIDE DEF d, n
    <3>1. /\ DOMAIN e = DOMAIN d \cup 0 .. n - 1
          /\ \A X : Holds(d, pkt.src, X) => Holds(e, pkt.src, X)
      BY <2>2, LengthHolds
    <3>2. 0 .. n - 1 \subseteq 0 .. Size[pkt.src] - 1
      BY <2>2
    <3> QED BY <2>3, <3>1, <3>2
  <2>5. incoming' = Put(incoming, id, e) /\ UNCHANGED <<manifest, finals, pkt>>
        /\ pc = "extend" /\ pc' = "write"
    BY <1>3 DEF ExtendData
  <2> HIDE DEF d, e
  <2>6. /\ DOMAIN incoming' = DOMAIN incoming \cup {id}
        /\ incoming'[id] = e
        /\ \A i \in DOMAIN incoming : i # id => incoming'[i] = incoming[i]
    BY <2>5 DEF Put
  <2>7. AssembliesOK' /\ IncomingBounded' /\ BitsBacked'
    BY <2>2, <2>4, <2>5, <2>6, IncomingStep DEF Unambiguous, d
  <2>8. HandlerSafe'
    BY <2>1, <2>5 DEF DataInv, HandlerSafe, id, ChunkPCs, MovePCs
  <2> QED BY <1>0, <2>7, <2>8 DEF DataInv
<1>4. CASE WriteData
  <2> DEFINE d == incoming[id]
             e == Written(d, pkt.off, pkt, pkt.len)
  <2>1. pc \in ChunkPCs /\ id \in DOMAIN incoming
    BY <1>4 DEF WriteData, ChunkPCs, DataInv, TypeInv, HandlerOK
  <2>2. /\ pkt \in ChunkPackets
        /\ pkt.src \in Sources /\ FileId[pkt.src] = id /\ Size[pkt.src] \in Nat
        /\ WriteAt(manifest[id], pkt) = pkt.off
        /\ pkt.off \in Nat /\ pkt.len \in Nat /\ pkt.off + pkt.len <= Size[pkt.src]
    BY <2>1, Placement
  <2>3. DOMAIN d \subseteq 0 .. Size[pkt.src] - 1
    BY <2>1, <2>2 DEF DataInv, IncomingBounded
  <2>4. /\ DOMAIN e \subseteq 0 .. Size[pkt.src] - 1
        /\ \A X : Holds(d, pkt.src, X) => Holds(e, pkt.src, X)
        /\ Holds(e, pkt.src, pkt.off .. pkt.off + pkt.len - 1)
    <3>1. /\ DOMAIN e = DOMAIN d \cup pkt.off .. pkt.off + pkt.len - 1
          /\ \A X : Holds(d, pkt.src, X) => Holds(e, pkt.src, X)
          /\ Holds(e, pkt.src, pkt.off .. pkt.off + pkt.len - 1)
      BY <2>2, WrittenHolds
    <3>2. pkt.off .. pkt.off + pkt.len - 1 \subseteq 0 .. Size[pkt.src] - 1
      BY <2>2
    <3> QED BY <2>3, <3>1, <3>2
  <2>5. /\ incoming' = [incoming EXCEPT ![id] = e] /\ UNCHANGED <<manifest, finals, pkt>>
        /\ pc = "write" /\ pc' \in {"truncate", "mark"}
        /\ pc' = "truncate" => pkt.last
    BY <1>4, <2>2 DEF WriteData
  <2> HIDE DEF e
  <2>6. /\ DOMAIN incoming' = DOMAIN incoming \cup {id}
        /\ incoming'[id] = e
        /\ \A i \in DOMAIN incoming : i # id => incoming'[i] = incoming[i]
        /\ Opened(incoming, id) = d
    BY <2>1, <2>5 DEF Opened
  <2> HIDE DEF d
  <2>7. AssembliesOK' /\ IncomingBounded' /\ BitsBacked'
    BY <2>2, <2>4, <2>5, <2>6, IncomingStep DEF Unambiguous
  <2>8. HandlerSafe'
    BY <2>1, <2>4, <2>5, <2>6 DEF DataInv, HandlerSafe, id, ChunkPCs, MovePCs
  <2> QED BY <1>0, <2>7, <2>8 DEF DataInv
<1>5. CASE TruncateData
  <2> DEFINE d == incoming[id]
             e == SetLen(d, Size[pkt.src])
  <2>1. pc \in ChunkPCs /\ id \in DOMAIN incoming
    BY <1>5 DEF TruncateData, ChunkPCs, DataInv, TypeInv, HandlerOK
  <2>2. /\ pkt \in ChunkPackets
        /\ pkt.src \in Sources /\ FileId[pkt.src] = id /\ Size[pkt.src] \in Nat
    BY <2>1, Placement
  <2>3. DOMAIN d \subseteq 0 .. Size[pkt.src] - 1
    BY <2>1, <2>2 DEF DataInv, IncomingBounded
  <2>4. /\ DOMAIN e \subseteq 0 .. Size[pkt.src] - 1
        /\ \A X : Holds(d, pkt.src, X) => Holds(e, pkt.src, X)
    BY <2>2, <2>3, LengthHolds
  <2>5. /\ incoming' = [incoming EXCEPT ![id] = e] /\ UNCHANGED <<manifest, finals, pkt>>
        /\ pc = "truncate" /\ pc' = "mark"
    <3>1. NeededLen(manifest[id], pkt) = Size[pkt.src]
      BY <1>5, <2>1, Placement DEF TruncateData, DataInv, HandlerSafe
    <3> QED BY <1>5, <3>1 DEF TruncateData
  <2> HIDE DEF e
  <2>6. /\ DOMAIN incoming' = DOMAIN incoming \cup {id}
        /\ incoming'[id] = e
        /\ \A i \in DOMAIN incoming : i # id => incoming'[i] = incoming[i]
        /\ Opened(incoming, id) = d
    BY <2>1, <2>5 DEF Opened
  <2>7. Holds(d, pkt.src, pkt.off .. pkt.off + pkt.len - 1)
    BY <2>5 DEF DataInv, HandlerSafe
  <2> HIDE DEF d
  <2>8. AssembliesOK' /\ IncomingBounded' /\ BitsBacked'
    BY <2>2, <2>4, <2>5, <2>6, IncomingStep DEF Unambiguous
  <2>9. HandlerSafe'
    BY <2>1, <2>4, <2>5, <2>6, <2>7 DEF DataInv, HandlerSafe, id, ChunkPCs, MovePCs
  <2> QED BY <1>0, <2>8, <2>9 DEF DataInv
<1>6. CASE MarkDuplicate \/ FinalizeError
  <2>1. UNCHANGED disk /\ pc' = "recv" /\ pc # "drop"
    BY <1>6 DEF MarkDuplicate, FinalizeError, Return
  <2> QED BY <1>0, <2>1 DEF DataInv, disk, AssembliesOK, IncomingBounded, HandlerSafe,
             ChunkPCs, MovePCs, BitsBacked, Leaving, Opened
<1>7. CASE MarkChunk
  <2>1. pc \in ChunkPCs /\ id \in DOMAIN incoming /\ id \in DOMAIN manifest
        /\ pc = "mark" /\ UNCHANGED <<incoming, finals>>
    BY <1>7 DEF MarkChunk, ChunkPCs, DataInv, TypeInv, HandlerOK
  <2>2. pkt \in ChunkPackets /\ pkt.src \in Sources /\ FileId[pkt.src] = id
    BY <2>1, Placement
  <2>3. PICK q \in PayloadSizes :
          /\ pkt.num_chunks = NumChunks(pkt.src, q)
          /\ pkt.chunk_id \in 0 .. NumChunks(pkt.src, q) - 1
          /\ pkt.off .. pkt.off + pkt.len - 1 = Slice(pkt.src, q, pkt.chunk_id)
    BY <2>2, PacketGeometry
  <2>4. manifest[id].num_chunks = pkt.num_chunks
    BY <2>1 DEF DataInv, HandlerSafe
  <2>5. manifest[id] \in Manifests
    BY <2>1 DEF DataInv, TypeInv, TypeOK
  <2>6. /\ DOMAIN manifest' = DOMAIN manifest
        /\ \A i \in DOMAIN manifest : i # id => manifest'[i] = manifest[i]
        /\ manifest'[id].bits = manifest[id].bits \cup {pkt.chunk_id}
        /\ manifest'[id].num_chunks = manifest[id].num_chunks
        /\ manifest'[id].name = manifest[id].name
        /\ manifest'[id].chunk_payload_size = manifest[id].chunk_payload_size
    BY <1>7, <2>1, <2>5 DEF MarkChunk, Manifests
  <2>7. AssembliesOK'
    <3> SUFFICES ASSUME NEW i \in DOMAIN manifest, NEW s \in Sources, NEW p \in PayloadSizes,
                        FileId[s] = i, NumChunks(s, p) = manifest'[i].num_chunks
                 PROVE  /\ manifest'[i].name \in {Absent, Path[s]}
                        /\ manifest'[i].bits \subseteq 0 .. manifest'[i].num_chunks - 1
                        /\ manifest'[i].num_chunks > 1 =>
                             manifest'[i].chunk_payload_size \in {0, p}
      BY <2>6 DEF AssembliesOK
    <3>1. CASE i # id
      BY <2>6, <3>1 DEF DataInv, AssembliesOK
    <3>2. CASE i = id
      <4>1. pkt.chunk_id \in 0 .. manifest[id].num_chunks - 1
        BY <2>3, <2>4
      <4> QED BY <2>6, <3>2, <4>1 DEF DataInv, AssembliesOK
    <3> QED BY <3>1, <3>2
  <2>8. BitsBacked'
    <3> SUFFICES ASSUME NEW i \in DOMAIN manifest, NEW s \in Sources, NEW p \in PayloadSizes,
                        FileId[s] = i, NumChunks(s, p) = manifest[i].num_chunks,
                        NEW c \in manifest'[i].bits
                 PROVE  Holds(Opened(incoming, i), s, Slice(s, p, c))
      BY <2>1, <2>6 DEF BitsBacked, Opened
    <3>1. ~Leaving(i)
      BY <2>1 DEF Leaving
    <3>2. CASE c \in manifest[i].bits
      BY <3>1, <3>2 DEF DataInv, BitsBacked
    <3>3. CASE i = id /\ c = pkt.chunk_id
      <4>1. s = pkt.src
        BY <2>2, <3>3 DEF Unambiguous
      <4>2. Holds(incoming[id], s, pkt.off .. pkt.off + pkt.len - 1)
        BY <2>1, <4>1 DEF DataInv, HandlerSafe
      <4>3. NumChunks(s, p) = NumChunks(s, q) /\ c \in 0 .. NumChunks(s, q) - 1
        BY <2>3, <2>4, <3>3, <4>1
      <4>4. Slice(s, p, c) = Slice(s, q, c)
        BY <4>3, SameSlices
      <4> QED BY <2>1, <2>3, <3>3, <4>1, <4>2, <4>4 DEF Opened
    <3> QED BY <2>6, <3>2, <3>3
  <2>9. HandlerSafe'
    BY <1>7, <2>1, <2>4, <2>6 DEF MarkChunk, Return, HandlerSafe, id, ChunkPCs, MovePCs
  <2>10. IncomingBounded'
    BY <2>1 DEF DataInv, IncomingBounded
  <2> QED BY <1>0, <2>7, <2>8, <2>9, <2>10 DEF DataInv
<1>8. CASE FinalizeRename \/ UnlinkIncoming
  <2>1. /\ pc \in MovePCs /\ pc' = "drop" /\ UNCHANGED <<manifest, pkt>>
        /\ id \in DOMAIN manifest /\ incoming' = Remove(incoming, id)
    BY <1>8 DEF FinalizeRename, UnlinkIncoming, DataInv, TypeInv, HandlerOK, MovePCs
  <2>2. BitsBacked'
    <3> SUFFICES ASSUME NEW i \in DOMAIN manifest, ~Leaving(i)',
                        NEW t \in Sources, NEW q \in PayloadSizes,
                        FileId[t] = i, NumChunks(t, q) = manifest[i].num_chunks,
                        NEW c \in manifest[i].bits
                 PROVE  Holds(Opened(incoming', i), t, Slice(t, q, c))
      BY <2>1 DEF BitsBacked, Opened
    <3>1. i # id /\ ~Leaving(i)
      BY <2>1 DEF Leaving, id, MovePCs
    <3>2. Opened(incoming', i) = Opened(incoming, i)
      BY <2>1, <3>1 DEF Opened, Remove
    <3> QED BY <3>1, <3>2 DEF DataInv, BitsBacked
  <2>3. AssembliesOK' /\ IncomingBounded' /\ HandlerSafe'
    BY <2>1 DEF DataInv, AssembliesOK, IncomingBounded, Remove, HandlerSafe, id, ChunkPCs,
       MovePCs
  <2> QED BY <1>0, <2>2, <2>3 DEF DataInv
<1>9. CASE FinalizeCopy \/ CopyRest
  <2>1. /\ pc \in MovePCs /\ pc' \in {"copying", "unlink"}
        /\ UNCHANGED <<manifest, incoming, pkt>>
    BY <1>9 DEF FinalizeCopy, CopyRest, MovePCs
  <2>2. \A i : ~Leaving(i)
    BY <2>1 DEF Leaving, MovePCs
  <2>3. BitsBacked'
    BY <2>1, <2>2 DEF DataInv, BitsBacked, Opened
  <2>4. AssembliesOK' /\ IncomingBounded' /\ HandlerSafe'
    BY <2>1 DEF DataInv, AssembliesOK, IncomingBounded, HandlerSafe, id, ChunkPCs, MovePCs
  <2> QED BY <1>0, <2>3, <2>4 DEF DataInv
<1>10. CASE DropManifest
  <2>1. /\ pc = "drop" /\ pc' = "recv" /\ UNCHANGED <<incoming, finals>>
        /\ manifest' = Remove(manifest, id)
    BY <1>10 DEF DropManifest, Return
  <2>2. BitsBacked'
    <3> SUFFICES ASSUME NEW i \in DOMAIN manifest', NEW s \in Sources, NEW p \in PayloadSizes,
                        FileId[s] = i, NumChunks(s, p) = manifest'[i].num_chunks,
                        NEW c \in manifest'[i].bits
                 PROVE  Holds(Opened(incoming, i), s, Slice(s, p, c))
      BY <2>1 DEF BitsBacked, Opened
    <3>1. i # id /\ i \in DOMAIN manifest /\ manifest'[i] = manifest[i]
      BY <2>1 DEF Remove
    <3>2. ~Leaving(i)
      BY <3>1 DEF Leaving, id
    <3> QED BY <3>1, <3>2 DEF DataInv, BitsBacked
  <2>3. AssembliesOK' /\ IncomingBounded' /\ HandlerSafe'
    BY <2>1 DEF DataInv, AssembliesOK, IncomingBounded, Remove, HandlerSafe, ChunkPCs,
       MovePCs
  <2> QED BY <1>0, <2>2, <2>3 DEF DataInv
<1>11. CASE Interrupt
  <2>1. pc' = "recv" /\ pc # "drop" /\ UNCHANGED <<manifest, finals>>
    BY <1>11 DEF Interrupt, Return, DropCertain
  <2>2. HandlerSafe'
    BY <2>1 DEF HandlerSafe, ChunkPCs, MovePCs
  <2>3. CASE UNCHANGED incoming
    BY <1>0, <2>1, <2>2, <2>3 DEF DataInv, AssembliesOK, IncomingBounded,
       BitsBacked, Leaving, Opened
  <2>4. CASE pc = "write" /\ \E n \in 1 .. pkt.len - 1 :
               incoming' = [incoming EXCEPT ![id] =
                              Written(@, WriteAt(manifest[id], pkt), pkt, n)]
    <3> DEFINE d == incoming[id]
    <3>1. pc \in ChunkPCs /\ id \in DOMAIN incoming
      BY <2>4 DEF ChunkPCs, DataInv, TypeInv, HandlerOK
    <3>2. /\ pkt \in ChunkPackets
          /\ pkt.src \in Sources /\ FileId[pkt.src] = id /\ Size[pkt.src] \in Nat
          /\ WriteAt(manifest[id], pkt) = pkt.off
          /\ pkt.off \in Nat /\ pkt.len \in Nat /\ pkt.off + pkt.len <= Size[pkt.src]
      BY <3>1, Placement
    <3>3. PICK n \in 1 .. pkt.len - 1 :
            incoming' = [incoming EXCEPT ![id] = Written(d, pkt.off, pkt, n)]
      BY <2>4, <3>2
    <3> DEFINE e == Written(d, pkt.off, pkt, n)
    <3>4. DOMAIN d \subseteq 0 .. Size[pkt.src] - 1
      BY <3>1, <3>2 DEF DataInv, IncomingBounded
    <3>5. /\ DOMAIN e \subseteq 0 .. Size[pkt.src] - 1
          /\ \A X : Holds(d, pkt.src, X) => Holds(e, pkt.src, X)
      <4>1. n \in Nat /\ pkt.off .. pkt.off + n - 1 \subseteq 0 .. Size[pkt.src] - 1
        BY <3>2
      <4>2. /\ DOMAIN e = DOMAIN d \cup pkt.off .. pkt.off + n - 1
            /\ \A X : Holds(d, pkt.src, X) => Holds(e, pkt.src, X)
        BY <3>2, <4>1, WrittenHolds
      <4> QED BY <3>4, <4>1, <4>2
    <3>6. incoming' = [incoming EXCEPT ![id] = e]
      BY <3>3
    <3> HIDE DEF e
    <3>7. /\ DOMAIN incoming' = DOMAIN incoming \cup {id}
          /\ incoming'[id] = e
          /\ \A i \in DOMAIN incoming : i # id => incoming'[i] = incoming[i]
          /\ Opened(incoming, id) = d
      BY <3>1, <3>6 DEF Opened
    <3> HIDE DEF d
    <3>8. AssembliesOK' /\ IncomingBounded' /\ BitsBacked'
      BY <2>1, <3>2, <3>5, <3>7, IncomingStep DEF Unambiguous
    <3> QED BY <1>0, <2>2, <3>8 DEF DataInv
  <2> QED BY <1>11, <2>3, <2>4 DEF Interrupt
<1>12. CASE UNCHANGED vars
  BY <1>0, <1>12 DEF vars, DataInv, AssembliesOK, IncomingBounded, HandlerSafe, id,
     ChunkPCs, MovePCs, BitsBacked, Leaving, Opened
<1> QED
  BY <1>1, <1>2, <1>3, <1>4, <1>5, <1>6, <1>7, <1>8, <1>9, <1>10, <1>11, <1>12
     DEF Next, Work

-----------------------------------------------------------------------------
(* What lands.                                                              *)

\* The data file that finalize moves is a file of the payload, and moves to that
\* file's name.
LEMMA MovesContent ==
  ASSUME NoWrap, DataInv, pc \in MovePCs, id \in DOMAIN incoming
  PROVE  \E s \in Sources : /\ FileId[s] = id
                            /\ incoming[id] = Content(s)
                            /\ manifest[id].name = Path[s]
<1>1. /\ id \in DOMAIN manifest /\ manifest[id].name # Absent /\ pkt \in Packets
      /\ ~Leaving(id)
  BY DEF DataInv, TypeInv, TypeOK, HandlerOK, FinalPCs, MovePCs, Leaving
<1>2. manifest[id].num_chunks = pkt.num_chunks /\ is_complete(manifest[id])
  BY DEF DataInv, HandlerSafe, MovePCs
<1>3. PICK s \in Sources, p \in PayloadSizes :
        FileId[s] = id /\ NumChunks(s, p) = pkt.num_chunks
  <2>1. CASE pkt \in ChunkPackets
    BY <2>1, PacketGeometry, ChunkPacketFacts DEF id
  <2>2. CASE pkt \in ManifestPackets
    BY <2>2 DEF ManifestPackets, ManifestPacket, id
  <2> QED BY <1>1, <2>1, <2>2 DEF Packets
<1>4. incoming[id] = Content(s)
  BY <1>1, <1>2, <1>3, CompleteIsContent
<1>5. manifest[id].name = Path[s]
  BY <1>1, <1>2, <1>3 DEF DataInv, AssembliesOK
<1> QED BY <1>3, <1>4, <1>5

\* All that is in the final directory is intact, but for a copy under way.
LandedOrCopied ==
  \A n \in DOMAIN finals : Intact(n) \/ (pc = "copying" /\ n = manifest[id].name)

\* A copy that has begun is finished.
CopyCertain == SameFs \/ "copying" \notin InterruptAt

\* On one filesystem there is no copy.
CopyOnlyAcross == pc \in {"copying", "unlink"} => ~SameFs

LEMMA LandNext ==
  ASSUME NoWrap, CopyCertain, DataInv, LandedOrCopied, CopyOnlyAcross, [Next]_vars
  PROVE  LandedOrCopied' /\ CopyOnlyAcross'
<1>1. CASE FinalizeRename \/ CopyRest
  <2>1. /\ pc \in MovePCs /\ pc' \in {"drop", "unlink"} /\ UNCHANGED <<manifest, pkt>>
        /\ finals' = Put(finals, manifest[id].name, incoming[id])
        /\ id \in DOMAIN incoming
        /\ pc' = "unlink" => ~SameFs
    BY <1>1 DEF FinalizeRename, CopyRest, MovePCs, DataInv, TypeInv, HandlerOK, CopyOnlyAcross
  <2>2. PICK s \in Sources : incoming[id] = Content(s) /\ manifest[id].name = Path[s]
    BY <2>1, MovesContent
  <2>3. \A n \in DOMAIN finals : n # manifest[id].name => Intact(n)
    BY DEF LandedOrCopied
  <2>4. \A n \in DOMAIN finals' : Intact(n)'
    BY <2>1, <2>2, <2>3 DEF Intact, Put
  <2> QED BY <2>1, <2>4 DEF LandedOrCopied, CopyOnlyAcross
<1>2. CASE FinalizeCopy
  <2>1. /\ pc = "finalize" /\ pc' = "copying" /\ ~SameFs /\ UNCHANGED <<manifest, pkt>>
        /\ \E d : finals' = Put(finals, manifest[id].name, d)
    BY <1>2 DEF FinalizeCopy
  <2>2. \A n \in DOMAIN finals : Intact(n)
    BY <2>1 DEF LandedOrCopied
  <2>3. \A n \in DOMAIN finals' : n # manifest[id].name => Intact(n)'
    BY <2>1, <2>2 DEF Intact, Put
  <2>4. id' = id /\ manifest' = manifest
    BY <2>1 DEF id
  <2> QED BY <2>1, <2>3, <2>4 DEF LandedOrCopied, CopyOnlyAcross
<1>3. CASE UNCHANGED vars
  BY <1>3 DEF vars, LandedOrCopied, CopyOnlyAcross, Intact, id
<1>4. CASE pc # "copying" /\ pc' \notin {"copying", "unlink"} /\ UNCHANGED finals
  BY <1>4 DEF LandedOrCopied, CopyOnlyAcross, Intact
<1>5. CASE Interrupt
  <2>1. pc # "copying"
    BY <1>5 DEF Interrupt, CopyCertain, CopyOnlyAcross
  <2> QED BY <1>4, <1>5, <2>1 DEF Interrupt, Return
<1> QED
  BY <1>1, <1>2, <1>3, <1>4, <1>5
  DEF Next, Work, IngestChunk, IngestManifest, Return, disk, ExtendData, WriteData,
      TruncateData, MarkDuplicate, MarkChunk, FinalizeError, UnlinkIncoming, DropManifest

\* What holds at the ground station when both directories are on one filesystem.
SafeInv == DataInv /\ LandedIntact /\ pc \notin {"copying", "unlink"}

LEMMA SafeInit == Init => SafeInv
  BY DataInit DEF Init, SafeInv, LandedIntact, Empty

LEMMA SafeNext ==
  ASSUME Unambiguous, NoWrap, AtomicFinalize, SafeInv, [Next]_vars
  PROVE  SafeInv'
<1>1. DataInv'
  BY DataNext DEF SafeInv, AtomicFinalize, DropCertain
<1>2. LandedOrCopied' /\ CopyOnlyAcross'
  BY LandNext DEF SafeInv, AtomicFinalize, CopyCertain, LandedIntact, LandedOrCopied,
     CopyOnlyAcross
<1> QED BY <1>1, <1>2 DEF SafeInv, AtomicFinalize, LandedIntact, LandedOrCopied,
           CopyOnlyAcross

\* A bit in a sidecar stands for bytes that are in the data file, at their place,
\* whatever is lost, duplicated or reordered on the link and wherever the handler
\* is interrupted, if not between the move of the finished file and the removal
\* of its manifest; on one filesystem and across two.
THEOREM BitsAreBacked ==
  ASSUME Unambiguous, NoWrap, DropCertain
  PROVE  Spec => []BitsBacked
<1>1. DataInv => BitsBacked
  BY DEF DataInv
<1>2. DataInv /\ [Next]_vars => DataInv'
  BY DataNext
<1> QED BY <1>1, <1>2, DataInit, PTL DEF Spec

\* Across two filesystems too, a file in the final directory is byte for byte one
\* of the payload's, except the one that finalize is copying at the moment, if
\* neither a copy nor the removal of a manifest is cut short.
THEOREM LandsIntactAcross ==
  ASSUME Unambiguous, NoWrap, DropCertain, CopyCertain
  PROVE  Spec => [](pc # "copying" => LandedIntact)
<1>1. Init => LandedOrCopied /\ CopyOnlyAcross
  BY DEF Init, LandedOrCopied, CopyOnlyAcross, Empty
<1>2. LandedOrCopied => (pc # "copying" => LandedIntact)
  BY DEF LandedOrCopied, LandedIntact
<1>3. DataInv /\ [Next]_vars => DataInv'
  BY DataNext
<1>4. DataInv /\ LandedOrCopied /\ CopyOnlyAcross /\ [Next]_vars
        => LandedOrCopied' /\ CopyOnlyAcross'
  BY LandNext
<1> QED BY <1>1, <1>2, <1>3, <1>4, DataInit, PTL DEF Spec

\* Whatever is lost, duplicated or reordered on the link, and wherever the
\* handler is interrupted before the file is renamed, a bit in a manifest stands
\* for bytes on disk and a file in the final directory is byte for byte the
\* payload's.
THEOREM Safety ==
  ASSUME Unambiguous, NoWrap, AtomicFinalize
  PROVE  Spec => [](BitsBacked /\ LandedIntact)
<1>1. SafeInv => BitsBacked /\ LandedIntact
  BY DEF SafeInv, DataInv
<1>2. SafeInv /\ [Next]_vars => SafeInv'
  BY SafeNext
<1> QED BY <1>1, <1>2, SafeInit, PTL DEF Spec
-----------------------------------------------------------------------------
(* What is never given up.                                                  *)

\* Before the data file is unlinked, the copy of it is whole.
CopyDone ==
  pc = "unlink" => /\ manifest[id].name \in DOMAIN finals
                   /\ finals[manifest[id].name] = incoming[id]

\* Only CopyRest leads to the unlink.
LEMMA CopyDoneNext == TypeInv /\ CopyDone /\ [Next]_vars => CopyDone'
<1> SUFFICES ASSUME TypeInv, CopyDone, [Next]_vars, pc' = "unlink" PROVE CopyDone'
  BY DEF CopyDone
<1>1. CASE CopyRest
  BY <1>1 DEF CopyRest, CopyDone, Put, id
<1>2. CASE UNCHANGED vars
  BY <1>2 DEF vars, CopyDone, id
<1>3. QED
  BY <1>1, <1>2
  DEF Next, Work, IngestChunk, IngestManifest, Return, ExtendData, WriteData,
      TruncateData, MarkDuplicate, MarkChunk, FinalizeRename, FinalizeCopy,
      UnlinkIncoming, FinalizeError, DropManifest, Interrupt

\* A data file leaves the holding directory only with its bytes in the final one,
\* renamed or copied, wherever the handler may be interrupted.
THEOREM BytesAreKept == Spec => NoByteLost
<1>1. Init => CopyDone
  BY DEF Init, CopyDone
<1> DEFINE Kept == \A i \in DOMAIN incoming \ DOMAIN incoming' :
                     LET n == manifest[i].name IN
                     n \in DOMAIN finals' /\ finals'[n] = incoming[i]
<1>2. ASSUME TypeInv, CopyDone, [Next]_vars PROVE [Kept]_vars
  <2>1. CASE FinalizeRename
    BY <2>1 DEF FinalizeRename, Put, Remove
  <2>2. CASE UnlinkIncoming
    BY <1>2, <2>2 DEF UnlinkIncoming, Remove, CopyDone
  <2>3. CASE DOMAIN incoming \subseteq DOMAIN incoming'
    BY <2>3
  <2>4. CASE ExtendData
    BY <2>3, <2>4 DEF ExtendData, Put
  <2>5. CASE WriteData \/ TruncateData \/ Interrupt
    BY <2>3, <2>5 DEF WriteData, TruncateData, Interrupt
  <2>6. CASE \/ \E k \in ChunkPackets : IngestChunk(k)
             \/ \E k \in ManifestPackets : IngestManifest(k)
             \/ MarkDuplicate \/ MarkChunk \/ FinalizeCopy \/ CopyRest
             \/ FinalizeError \/ DropManifest
    <3>1. UNCHANGED incoming
      BY <2>6 DEF IngestChunk, IngestManifest, MarkDuplicate, MarkChunk, FinalizeCopy,
         CopyRest, FinalizeError, DropManifest, disk
    <3>2. QED
      BY <2>3, <3>1
  <2>7. CASE UNCHANGED vars
    BY <2>7
  <2>8. QED
    BY <1>2, <2>1, <2>2, <2>4, <2>5, <2>6, <2>7 DEF Next, Work
<1>3. TypeInv /\ CopyDone /\ [Next]_vars => [Kept]_vars
  BY <1>2
<1> HIDE DEF Kept
<1>4. Spec => [][Kept]_vars
  BY <1>1, <1>3, TypeInit, TypeNext, CopyDoneNext, PTL DEF Spec
<1>5. QED
  BY <1>4 DEF Kept, NoByteLost
-----------------------------------------------------------------------------
(* What other processes see of an assembly.                                 *)

\* An assembly's chunk count is one its file was announced with.
Counted ==
  \A i \in DOMAIN manifest : \E s \in Sources, p \in PayloadSizes :
    FileId[s] = i /\ manifest[i].num_chunks = NumChunks(s, p)

\* The chunk in hand is one of its assembly's, and only a whole assembly is
\* finalized.
HandlerFits ==
  /\ pc \in ChunkPCs => /\ manifest[id].num_chunks = pkt.num_chunks
                        /\ pkt.chunk_id \in 0 .. pkt.num_chunks - 1
  /\ pc \in FinalPCs => is_complete(manifest[id])

CountInv == TypeInv /\ Counted /\ HandlerFits

\* A packet names a file with one of its chunk counts.
LEMMA PacketCounts ==
  ASSUME NEW k \in Packets
  PROVE  /\ \E s \in Sources, p \in PayloadSizes :
              FileId[s] = k.file_id /\ k.num_chunks = NumChunks(s, p)
         /\ k \in ChunkPackets => k.chunk_id \in 0 .. k.num_chunks - 1
<1>1. CASE k \in ChunkPackets
  <2>1. PICK t \in ChunkTypes, s \in Sources, p \in PayloadSizes :
          k \in {ChunkPacket(t, s, p, c) : c \in 0 .. NumChunks(s, p) - 1}
    BY <1>1 DEF ChunkPackets
  <2>2. PICK c \in 0 .. NumChunks(s, p) - 1 : k = ChunkPacket(t, s, p, c)
    BY <2>1
  <2>3. k.file_id = FileId[s] /\ k.num_chunks = NumChunks(s, p) /\ k.chunk_id = c
    BY <2>2 DEF ChunkPacket
  <2>4. QED
    BY <2>2, <2>3
<1>2. CASE k \notin ChunkPackets
  <2>1. PICK s \in Sources, p \in PayloadSizes : k = ManifestPacket(s, p)
    BY <1>2 DEF Packets, ManifestPackets
  <2>2. k.file_id = FileId[s] /\ k.num_chunks = NumChunks(s, p)
    BY <2>1 DEF ManifestPacket
  <2>3. QED
    BY <1>2, <2>2
<1>3. QED
  BY <1>1, <1>2

\* What a chunk's arrival does to the sidecars.
LEMMA ChunkArrives ==
  ASSUME TypeInv, NEW k \in ChunkPackets, IngestChunk(k)
  PROVE  /\ DOMAIN manifest' = DOMAIN manifest \cup {k.file_id}
         /\ manifest'[k.file_id].num_chunks = k.num_chunks
         /\ \A i \in DOMAIN manifest : /\ manifest'[i].num_chunks = manifest[i].num_chunks
                                       /\ manifest'[i].name = manifest[i].name
                                       /\ manifest'[i].bits = manifest[i].bits
                                       /\ manifest[i].chunk_payload_size
                                            \in {0, manifest'[i].chunk_payload_size}
         /\ k.file_id \notin DOMAIN manifest =>
              manifest'[k.file_id].name = Absent /\ manifest'[k.file_id].bits = {}
<1>1. CASE k.file_id \notin DOMAIN manifest
  BY <1>1 DEF IngestChunk, Fits, Put, NewManifest
<1>2. CASE Fits(k) /\ UNCHANGED manifest
  BY <1>2 DEF Fits
<1>3. CASE /\ Fits(k) /\ manifest[k.file_id].chunk_payload_size = 0
           /\ manifest' = [manifest EXCEPT ![k.file_id].chunk_payload_size = k.len]
  <2>1. manifest[k.file_id] \in Manifests /\ k.file_id \in DOMAIN manifest
    BY <1>3 DEF Fits, TypeInv, TypeOK
  <2> DEFINE m == [manifest[k.file_id] EXCEPT !.chunk_payload_size = k.len]
  <2>2. /\ m.num_chunks = manifest[k.file_id].num_chunks
        /\ m.name = manifest[k.file_id].name /\ m.bits = manifest[k.file_id].bits
    BY <2>1 DEF Manifests
  <2>3. manifest' = [manifest EXCEPT ![k.file_id] = m]
    BY <1>3
  <2> HIDE DEF m
  <2>4. QED
    BY <1>3, <2>1, <2>2, <2>3 DEF Fits
<1>4. QED
  BY <1>1, <1>2, <1>3 DEF IngestChunk, Fits

\* What a name's arrival does to the sidecars.
LEMMA NameArrives ==
  ASSUME TypeInv, NEW k \in ManifestPackets, IngestManifest(k)
  PROVE  /\ DOMAIN manifest' = DOMAIN manifest \cup {k.file_id}
         /\ manifest'[k.file_id].num_chunks = k.num_chunks
         /\ manifest'[k.file_id].name # Absent
         /\ \A i \in DOMAIN manifest :
              /\ i # k.file_id => manifest'[i] = manifest[i]
              /\ manifest'[i].num_chunks = manifest[i].num_chunks
              /\ manifest'[i].chunk_payload_size = manifest[i].chunk_payload_size
              /\ manifest'[i].bits = manifest[i].bits
              /\ manifest[i].name \in {Absent, manifest'[i].name}
         /\ k.file_id \notin DOMAIN manifest => manifest'[k.file_id].bits = {}
         /\ \/ pc' = "recv" /\ ~is_complete(manifest'[k.file_id])
            \/ pc' = "finalize" /\ pkt' = k /\ is_complete(manifest'[k.file_id])
<1>1. manifest' = Put(manifest, k.file_id, Named(k)) /\ Named(k).name # Absent
  BY NamedType DEF IngestManifest
<1>2. manifest'[k.file_id] = Named(k)
  BY <1>1 DEF Put
<1>3. /\ DOMAIN manifest' = DOMAIN manifest \cup {k.file_id}
      /\ \A i \in DOMAIN manifest : i # k.file_id => manifest'[i] = manifest[i]
  BY <1>1 DEF Put
<1>4. \/ pc' = "recv" /\ ~is_complete(manifest'[k.file_id])
      \/ pc' = "finalize" /\ pkt' = k /\ is_complete(manifest'[k.file_id])
  BY <1>2 DEF IngestManifest, Return
<1>5. CASE k.file_id \notin DOMAIN manifest
  <2>1. Named(k).num_chunks = k.num_chunks /\ Named(k).bits = {}
    BY <1>5 DEF Named, NewManifest
  <2>2. QED
    BY <1>1, <1>2, <1>3, <1>4, <1>5, <2>1
<1>6. CASE k.file_id \in DOMAIN manifest
  <2> DEFINE m == manifest[k.file_id]
  <2>1. m \in Manifests /\ m.num_chunks = k.num_chunks
    BY <1>6 DEF TypeInv, TypeOK, IngestManifest, Fits
  <2>2. /\ Named(k).num_chunks = m.num_chunks /\ Named(k).bits = m.bits
        /\ Named(k).chunk_payload_size = m.chunk_payload_size
        /\ m.name \in {Absent, Named(k).name}
    BY <1>6, <2>1 DEF Named, Manifests
  <2>3. QED
    BY <1>1, <1>2, <1>3, <1>4, <1>6, <2>1, <2>2
<1>7. QED
  BY <1>5, <1>6

\* What marking a chunk does to the sidecars.
LEMMA ChunkMarked ==
  ASSUME TypeInv, MarkChunk
  PROVE  /\ id \in DOMAIN manifest /\ DOMAIN manifest' = DOMAIN manifest
         /\ \A i \in DOMAIN manifest : i # id => manifest'[i] = manifest[i]
         /\ manifest'[id] = [manifest[id] EXCEPT !.bits = @ \cup {pkt.chunk_id}]
         /\ manifest'[id].num_chunks = manifest[id].num_chunks
         /\ manifest'[id].name = manifest[id].name
         /\ manifest'[id].chunk_payload_size = manifest[id].chunk_payload_size
         /\ manifest'[id].bits = manifest[id].bits \cup {pkt.chunk_id}
         /\ \/ /\ pc' = "recv"
               /\ ~is_complete(manifest'[id]) \/ manifest[id].name = Absent
            \/ pc' = "finalize" /\ pkt' = pkt /\ is_complete(manifest'[id])
<1>1. id \in DOMAIN manifest /\ manifest[id] \in Manifests
  BY DEF MarkChunk, TypeInv, TypeOK, HandlerOK
<1> DEFINE m == [manifest[id] EXCEPT !.bits = @ \cup {pkt.chunk_id}]
<1>2. /\ m.num_chunks = manifest[id].num_chunks /\ m.name = manifest[id].name
      /\ m.chunk_payload_size = manifest[id].chunk_payload_size
      /\ m.bits = manifest[id].bits \cup {pkt.chunk_id}
  BY <1>1 DEF Manifests
<1>3. manifest' = [manifest EXCEPT ![id] = m]
  BY DEF MarkChunk
<1>4. \/ /\ pc' = "recv"
         /\ ~is_complete(manifest'[id]) \/ manifest[id].name = Absent
      \/ pc' = "finalize" /\ pkt' = pkt /\ is_complete(manifest'[id])
  BY DEF MarkChunk, Return
<1> HIDE DEF m
<1>5. /\ DOMAIN manifest' = DOMAIN manifest /\ manifest'[id] = m
      /\ \A i \in DOMAIN manifest : i # id => manifest'[i] = manifest[i]
  BY <1>1, <1>3
<1>6. QED
  BY <1>1, <1>2, <1>4, <1>5 DEF m

\* Steps that leave the sidecars alone.
Quiet ==
  \/ ExtendData \/ WriteData \/ TruncateData \/ MarkDuplicate \/ FinalizeRename
  \/ FinalizeCopy \/ CopyRest \/ UnlinkIncoming \/ FinalizeError \/ Interrupt
  \/ UNCHANGED vars

LEMMA QuietSteps ==
  ASSUME Quiet
  PROVE  /\ UNCHANGED manifest
         /\ \/ pc' = "recv" /\ pc # "recv"
            \/ pkt' = pkt /\ pc' \in ChunkPCs /\ pc \in ChunkPCs
            \/ pkt' = pkt /\ pc' \in FinalPCs /\ pc \in FinalPCs
            \/ pkt' = pkt /\ pc' = pc
<1>1. CASE ExtendData \/ WriteData \/ TruncateData
  BY <1>1 DEF ExtendData, WriteData, TruncateData, ChunkPCs
<1>2. CASE FinalizeRename \/ FinalizeCopy \/ CopyRest \/ UnlinkIncoming
  BY <1>2 DEF FinalizeRename, FinalizeCopy, CopyRest, UnlinkIncoming, FinalPCs
<1>3. CASE MarkDuplicate \/ FinalizeError
  BY <1>3 DEF MarkDuplicate, FinalizeError, Return, disk
<1>4. CASE Interrupt
  BY <1>4, ReassemblerAssumption DEF Interrupt, Return
<1>5. CASE UNCHANGED vars
  BY <1>5 DEF vars
<1>6. QED
  BY <1>1, <1>2, <1>3, <1>4, <1>5 DEF Quiet

\* Every step keeps counts and handler in step.
LEMMA CountNext == CountInv /\ [Next]_vars => CountInv'
<1> SUFFICES ASSUME CountInv, [Next]_vars PROVE CountInv'
  OBVIOUS
<1>0. TypeInv /\ Counted /\ HandlerFits /\ TypeInv'
  BY TypeNext DEF CountInv
<1>1. ASSUME NEW k \in ChunkPackets, IngestChunk(k) PROVE CountInv'
  <2>1. k \in Packets
    BY ChunkPacketFacts
  <2>2. Counted'
    <3>1. \E s \in Sources, p \in PayloadSizes :
            FileId[s] = k.file_id /\ manifest'[k.file_id].num_chunks = NumChunks(s, p)
      <4>1. manifest'[k.file_id].num_chunks = k.num_chunks
        BY <1>0, <1>1, ChunkArrives
      <4>2. QED
        BY <2>1, <4>1, PacketCounts
    <3>2. /\ DOMAIN manifest' = DOMAIN manifest \cup {k.file_id}
          /\ \A i \in DOMAIN manifest : manifest'[i].num_chunks = manifest[i].num_chunks
      BY <1>0, <1>1, ChunkArrives
    <3>3. QED
      BY <1>0, <3>1, <3>2 DEF Counted
  <2>3. pc' = "extend" /\ pkt' = k
    BY <1>1 DEF IngestChunk
  <2>4. manifest'[k.file_id].num_chunks = k.num_chunks
        /\ k.chunk_id \in 0 .. k.num_chunks - 1
    BY <1>0, <1>1, <2>1, ChunkArrives, PacketCounts
  <2>5. HandlerFits'
    BY <2>3, <2>4 DEF HandlerFits, ChunkPCs, FinalPCs, id
  <2>6. QED
    BY <1>0, <2>2, <2>5 DEF CountInv
<1>2. ASSUME NEW k \in ManifestPackets, IngestManifest(k) PROVE CountInv'
  <2>1. k \in Packets
    BY ManifestPacketFacts
  <2>2. Counted'
    <3>1. \E s \in Sources, p \in PayloadSizes :
            FileId[s] = k.file_id /\ manifest'[k.file_id].num_chunks = NumChunks(s, p)
      <4>1. manifest'[k.file_id].num_chunks = k.num_chunks
        BY <1>0, <1>2, NameArrives
      <4>2. QED
        BY <2>1, <4>1, PacketCounts
    <3>2. /\ DOMAIN manifest' = DOMAIN manifest \cup {k.file_id}
          /\ \A i \in DOMAIN manifest : manifest'[i].num_chunks = manifest[i].num_chunks
      BY <1>0, <1>2, NameArrives
    <3>3. QED
      BY <1>0, <3>1, <3>2 DEF Counted
  <2>3. \/ pc' = "recv"
        \/ pc' = "finalize" /\ pkt' = k /\ is_complete(manifest'[k.file_id])
    BY <1>0, <1>2, NameArrives
  <2>4. HandlerFits'
    BY <2>3 DEF HandlerFits, ChunkPCs, FinalPCs, id, is_complete
  <2>5. QED
    BY <1>0, <2>2, <2>4 DEF CountInv
<1>3. CASE MarkChunk
  <2>1. Counted'
    BY <1>0, <1>3, ChunkMarked DEF Counted
  <2>2. \/ pc' = "recv"
        \/ pc' = "finalize" /\ pkt' = pkt /\ is_complete(manifest'[id])
    BY <1>0, <1>3, ChunkMarked
  <2>3. HandlerFits'
    BY <2>2 DEF HandlerFits, ChunkPCs, FinalPCs, id, is_complete
  <2>4. QED
    BY <1>0, <2>1, <2>3 DEF CountInv
<1>4. CASE DropManifest
  <2>1. Counted'
    BY <1>0, <1>4 DEF Counted, DropManifest, Remove
  <2>2. HandlerFits'
    BY <1>4 DEF HandlerFits, ChunkPCs, FinalPCs, DropManifest, Return
  <2>3. QED
    BY <1>0, <2>1, <2>2 DEF CountInv
<1>5. CASE Quiet
  <2>1. Counted'
    BY <1>0, <1>5, QuietSteps DEF Counted
  <2>2. HandlerFits'
    BY <1>0, <1>5, QuietSteps DEF HandlerFits, id, is_complete, ChunkPCs, FinalPCs
  <2>3. QED
    BY <1>0, <2>1, <2>2 DEF CountInv
<1>6. QED
  BY <1>1, <1>2, <1>3, <1>4, <1>5 DEF Next, Work, Quiet

LEMMA CountInit == Init => CountInv
  BY TypeInit DEF Init, CountInv, Counted, HandlerFits, Empty, ChunkPCs, FinalPCs

\* The holding directory as others read it.
Seen(m) == [num |-> m.num_chunks, named |-> m.name # Absent, bits |-> m.bits]
Held == [i \in DOMAIN manifest |-> Seen(manifest[i])]

CountsOf ==
  [i \in Ids |-> {NumChunks(s, p) : s \in {t \in Sources : FileId[t] = i},
                                    p \in PayloadSizes}]

\* The steps of Holding, on what others read.
LEMMA HeldOpens ==
  ASSUME NEW i \in Ids, NEW n \in CountsOf[i], NEW named \in BOOLEAN, i \notin DOMAIN Held,
         Held' = [j \in DOMAIN Held \cup {i} |->
                    IF j = i THEN [num |-> n, named |-> named, bits |-> {}] ELSE Held[j]]
  PROVE  View!Next
<1>1. View!Open(i, n, named)
  BY DEF View!Open, View!Assembly, Held, Seen
<1>2. QED
  BY <1>1 DEF View!Next, CountsOf

LEMMA HeldNamed ==
  ASSUME NEW i \in Ids, i \in DOMAIN Held, Held' = [Held EXCEPT ![i].named = TRUE]
  PROVE  View!Next
<1>1. View!LearnName(i)
  BY DEF View!LearnName, Held, Seen
<1>2. QED
  BY <1>1 DEF View!Next

LEMMA HeldGrows ==
  ASSUME NEW i \in Ids, NEW n \in CountsOf[i], NEW c \in 0 .. n - 1, i \in DOMAIN Held,
         c \in 0 .. Held[i].num - 1, Held' = [Held EXCEPT ![i].bits = @ \cup {c}]
  PROVE  View!Next
<1>1. View!LearnChunk(i, c)
  BY DEF View!LearnChunk, Held, Seen
<1>2. QED
  BY <1>1 DEF View!Next, CountsOf

LEMMA HeldLeaves ==
  ASSUME NEW i \in Ids, i \in DOMAIN Held, Held[i].named,
         0 .. Held[i].num - 1 \subseteq Held[i].bits,
         Held' = [j \in DOMAIN Held \ {i} |-> Held[j]]
  PROVE  View!Next
<1>1. View!Leave(i)
  BY DEF View!Leave, View!Whole, Held, Seen
<1>2. QED
  BY <1>1 DEF View!Next

\* Each step of the receiver is a step of Holding, or none.
LEMMA HoldingStep ==
  ASSUME CountInv, [Next]_vars
  PROVE  View!Next \/ Held' = Held
<1>0. TypeInv /\ Counted /\ HandlerFits
  BY DEF CountInv
<1>1. ASSUME NEW k \in Packets
      PROVE  k.file_id \in Ids /\ k.num_chunks \in CountsOf[k.file_id]
  BY PacketCounts DEF CountsOf, Ids
<1>2. ASSUME NEW k \in Packets, NEW named \in BOOLEAN, k.file_id \notin DOMAIN manifest,
             DOMAIN manifest' = DOMAIN manifest \cup {k.file_id},
             \A j \in DOMAIN manifest : Seen(manifest'[j]) = Seen(manifest[j]),
             Seen(manifest'[k.file_id])
               = [num |-> k.num_chunks, named |-> named, bits |-> {}]
      PROVE  View!Next
  <2>1. /\ k.file_id \notin DOMAIN Held
        /\ Held' = [j \in DOMAIN Held \cup {k.file_id} |->
                      IF j = k.file_id
                      THEN [num |-> k.num_chunks, named |-> named, bits |-> {}]
                      ELSE Held[j]]
    BY <1>2 DEF Held
  <2>2. QED
    BY <1>1, <2>1, HeldOpens
<1>3. ASSUME NEW k \in ChunkPackets, IngestChunk(k)
      PROVE  View!Next \/ Held' = Held
  <2>1. \A j \in DOMAIN manifest : Seen(manifest'[j]) = Seen(manifest[j])
    BY <1>0, <1>3, ChunkArrives DEF Seen
  <2>2. DOMAIN manifest' = DOMAIN manifest \cup {k.file_id} /\ k \in Packets
    BY <1>0, <1>3, ChunkArrives, ChunkPacketFacts
  <2>3. CASE k.file_id \in DOMAIN manifest
    BY <2>1, <2>2, <2>3 DEF Held
  <2>4. CASE k.file_id \notin DOMAIN manifest
    <3>1. /\ manifest'[k.file_id].num_chunks = k.num_chunks
          /\ manifest'[k.file_id].name = Absent /\ manifest'[k.file_id].bits = {}
      BY <1>0, <1>3, <2>4, ChunkArrives
    <3>2. Seen(manifest'[k.file_id])
            = [num |-> k.num_chunks, named |-> FALSE, bits |-> {}]
      BY <3>1, Zenon DEF Seen
    <3>3. FALSE \in BOOLEAN
      OBVIOUS
    <3>4. QED
      BY <1>2, <2>1, <2>2, <2>4, <3>2, <3>3
  <2>5. QED
    BY <2>3, <2>4
<1>4. ASSUME NEW k \in ManifestPackets, IngestManifest(k)
      PROVE  View!Next
  <2>1. DOMAIN manifest' = DOMAIN manifest \cup {k.file_id} /\ k \in Packets
    BY <1>0, <1>4, NameArrives, ManifestPacketFacts
  <2>2. /\ manifest'[k.file_id].num_chunks = k.num_chunks
        /\ manifest'[k.file_id].name # Absent
    BY <1>0, <1>4, NameArrives
  <2>3. CASE k.file_id \in DOMAIN manifest
    <3> DEFINE i == k.file_id
    <3>1. /\ manifest'[i].num_chunks = manifest[i].num_chunks
          /\ manifest'[i].bits = manifest[i].bits
      BY <1>0, <1>4, <2>3, NameArrives
    <3>2. Seen(manifest'[i])
            = [num |-> manifest[i].num_chunks, named |-> TRUE, bits |-> manifest[i].bits]
      BY <2>2, <3>1, Zenon DEF Seen
    <3>3. [Seen(manifest[i]) EXCEPT !.named = TRUE]
            = [num |-> manifest[i].num_chunks, named |-> TRUE, bits |-> manifest[i].bits]
      <4> DEFINE n == manifest[i].num_chunks
                 b == manifest[i].name # Absent
                 c == manifest[i].bits
                 t == TRUE
      <4> HIDE DEF n, b, c, t
      <4>1. [[num |-> n, named |-> b, bits |-> c] EXCEPT !.named = t]
              = [num |-> n, named |-> t, bits |-> c]
        OBVIOUS
      <4>2. QED
        BY <4>1 DEF Seen, n, b, c, t
    <3>4. \A j \in DOMAIN manifest : j # i => Seen(manifest'[j]) = Seen(manifest[j])
      BY <1>0, <1>4, NameArrives
    <3>5. DOMAIN Held = DOMAIN manifest /\ \A j \in DOMAIN manifest : Held[j] = Seen(manifest[j])
      BY DEF Held
    <3>6. Held' = [j \in DOMAIN manifest |-> Seen(manifest'[j])]
      BY <2>1, <2>3 DEF Held
    <3>7. Held' = [Held EXCEPT ![i] = [Held[i] EXCEPT !.named = TRUE]]
      <4>1. [Held EXCEPT ![i] = [Held[i] EXCEPT !.named = TRUE]]
              = [j \in DOMAIN manifest |-> IF j = i THEN Seen(manifest'[i]) ELSE Held[j]]
        BY <2>3, <3>2, <3>3, <3>5
      <4>2. QED
        BY <3>4, <3>5, <3>6, <4>1
    <3>8. Held' = [Held EXCEPT ![i].named = TRUE]
      BY <3>7
    <3>9. QED
      BY <1>1, <2>1, <2>3, <3>5, <3>8, HeldNamed
  <2>4. CASE k.file_id \notin DOMAIN manifest
    <3>1. manifest'[k.file_id].bits = {}
      BY <1>0, <1>4, <2>4, NameArrives
    <3>2. Seen(manifest'[k.file_id])
            = [num |-> k.num_chunks, named |-> TRUE, bits |-> {}]
      BY <2>2, <3>1, Zenon DEF Seen
    <3>3. \A j \in DOMAIN manifest : Seen(manifest'[j]) = Seen(manifest[j])
      BY <1>0, <1>4, <2>4, NameArrives
    <3>4. TRUE \in BOOLEAN
      OBVIOUS
    <3>5. QED
      BY <1>2, <2>1, <2>4, <3>2, <3>3, <3>4
  <2>5. QED
    BY <2>3, <2>4
<1>5. CASE MarkChunk
  <2>1. /\ id \in DOMAIN manifest /\ id \in Ids
        /\ manifest[id].num_chunks \in CountsOf[id]
        /\ pkt.chunk_id \in 0 .. manifest[id].num_chunks - 1
    <3>1. pc = "mark" /\ id \in DOMAIN manifest
      BY <1>0, <1>5, ChunkMarked DEF MarkChunk
    <3>2. PICK s \in Sources, p \in PayloadSizes :
            FileId[s] = id /\ manifest[id].num_chunks = NumChunks(s, p)
      BY <1>0, <3>1 DEF Counted
    <3>3. QED
      BY <1>0, <3>1, <3>2 DEF CountsOf, Ids, HandlerFits, ChunkPCs
  <2>2. Seen(manifest'[id])
          = [Seen(manifest[id]) EXCEPT !.bits = @ \cup {pkt.chunk_id}]
    <3>1. /\ manifest'[id].num_chunks = manifest[id].num_chunks
          /\ manifest'[id].name = manifest[id].name
          /\ manifest'[id].bits = manifest[id].bits \cup {pkt.chunk_id}
      BY <1>0, <1>5, ChunkMarked
    <3>2. [Seen(manifest[id]) EXCEPT !.bits = @ \cup {pkt.chunk_id}]
            = [num |-> manifest[id].num_chunks, named |-> manifest[id].name # Absent,
               bits |-> manifest[id].bits \cup {pkt.chunk_id}]
      BY DEF Seen
    <3>3. QED
      BY <3>1, <3>2 DEF Seen
  <2>3. Held' = [Held EXCEPT ![id].bits = @ \cup {pkt.chunk_id}]
    BY <1>0, <1>5, <2>1, <2>2, ChunkMarked DEF Held
  <2>4. id \in DOMAIN Held /\ Held[id].num = manifest[id].num_chunks
    BY <2>1 DEF Held, Seen
  <2>5. QED
    BY <2>1, <2>3, <2>4, HeldGrows
<1>6. CASE DropManifest
  <2>1. /\ id \in DOMAIN manifest /\ id \in Ids /\ manifest[id].name # Absent
        /\ is_complete(manifest[id]) /\ manifest' = Remove(manifest, id)
    BY <1>0, <1>6
    DEF DropManifest, TypeInv, TypeOK, HandlerOK, HandlerFits, FinalPCs
  <2>2. /\ id \in DOMAIN Held /\ Held[id].named
        /\ 0 .. Held[id].num - 1 \subseteq Held[id].bits
    BY <2>1 DEF Held, Seen, is_complete
  <2>3. Held' = [j \in DOMAIN Held \ {id} |-> Held[j]]
    BY <2>1 DEF Held, Remove
  <2>4. QED
    BY <2>1, <2>2, <2>3, HeldLeaves
<1>7. CASE Quiet
  BY <1>7, QuietSteps DEF Held
<1>8. QED
  BY <1>3, <1>4, <1>5, <1>6, <1>7 DEF Next, Work, Quiet

\* The cleaner and the reconciler read the holding directory without any lock: in
\* all they can see, an assembly only grows, and only a whole one leaves.
THEOREM HoldingRefined == Spec => ImplementsHolding
<1>1. Init => View!Init
  BY DEF Init, View!Init, Empty
<1>2. CountInv /\ [Next]_vars => [View!Next]_(View!vars)
  <2> SUFFICES ASSUME CountInv, [Next]_vars, Held' # Held PROVE View!Next
    BY DEF Held, Seen, View!vars
  <2>1. QED
    BY HoldingStep
<1>3. QED
  BY <1>1, <1>2, CountInit, CountNext, PTL DEF Spec, ImplementsHolding, View!Spec
-----------------------------------------------------------------------------
(* Nothing that is complete is left behind.                                 *)

\* A set bit means that there is a data file, until the file has been moved.
HasData ==
  \A i \in DOMAIN manifest :
    manifest[i].bits # {} => i \in DOMAIN incoming \/ (pc = "drop" /\ id = i)

\* A complete and named assembly is the one being finalized.
Finishing ==
  \A i \in DOMAIN manifest :
    manifest[i].name = Absent \/ ~is_complete(manifest[i]) \/ (pc \in FinalPCs /\ id = i)

FinishInv == HasData /\ Finishing

\* Every step but an interruption of finalize keeps it so.
LEMMA FinishNext ==
  ASSUME NoWrap, InterruptAt \cap FinalPCs = {}, CountInv, FinishInv, [Next]_vars
  PROVE  FinishInv'
<1>0. TypeInv /\ Counted /\ HandlerFits /\ HasData /\ Finishing
  BY DEF CountInv, FinishInv
<1>1. ASSUME NEW k \in ChunkPackets, IngestChunk(k) PROVE FinishInv'
  <2>1. pc = "recv" /\ incoming' = incoming
    BY <1>1 DEF IngestChunk
  <2>2. HasData'
    <3>1. \A i \in DOMAIN manifest' : manifest'[i].bits # {} =>
            i \in DOMAIN manifest /\ manifest[i].bits # {}
      BY <1>0, <1>1, ChunkArrives
    <3>2. QED
      BY <1>0, <2>1, <3>1 DEF HasData
  <2>3. ASSUME NEW i \in DOMAIN manifest'
        PROVE  manifest'[i].name = Absent \/ ~is_complete(manifest'[i])
    <3>1. CASE i \in DOMAIN manifest
      <4>1. manifest[i].name = Absent \/ ~is_complete(manifest[i])
        BY <1>0, <2>1, <3>1 DEF Finishing, FinalPCs
      <4>2. QED
        BY <1>0, <1>1, <3>1, <4>1, ChunkArrives DEF is_complete
    <3>2. CASE i \notin DOMAIN manifest
      BY <1>0, <1>1, <2>3, <3>2, ChunkArrives
    <3>3. QED
      BY <3>1, <3>2
  <2>4. QED
    BY <2>2, <2>3 DEF FinishInv, Finishing, is_complete
<1>2. ASSUME NEW k \in ManifestPackets, IngestManifest(k) PROVE FinishInv'
  <2>1. pc = "recv" /\ incoming' = incoming
    BY <1>2 DEF IngestManifest
  <2>2. HasData'
    <3>1. /\ DOMAIN manifest' = DOMAIN manifest \cup {k.file_id}
          /\ \A i \in DOMAIN manifest : manifest'[i].bits = manifest[i].bits
          /\ k.file_id \notin DOMAIN manifest => manifest'[k.file_id].bits = {}
      BY <1>0, <1>2, NameArrives
    <3>2. QED
      BY <1>0, <2>1, <3>1 DEF HasData
  <2>3. ASSUME NEW i \in DOMAIN manifest'
        PROVE  \/ manifest'[i].name = Absent \/ ~is_complete(manifest'[i])
               \/ pc' = "finalize" /\ pkt' = k /\ i = k.file_id
    <3>1. CASE i = k.file_id
      BY <1>0, <1>2, <3>1, NameArrives
    <3>2. CASE i # k.file_id
      <4>1. i \in DOMAIN manifest /\ manifest'[i] = manifest[i]
        <5>1. /\ DOMAIN manifest' = DOMAIN manifest \cup {k.file_id}
              /\ \A j \in DOMAIN manifest : j # k.file_id => manifest'[j] = manifest[j]
          BY <1>0, <1>2, NameArrives
        <5>2. QED
          BY <2>3, <3>2, <5>1
      <4>2. QED
        BY <1>0, <2>1, <4>1 DEF Finishing, FinalPCs
    <3>3. QED
      BY <3>1, <3>2
  <2>4. QED
    BY <2>2, <2>3 DEF FinishInv, Finishing, is_complete, id, FinalPCs
<1>3. CASE MarkChunk
  <2>1. pc = "mark" /\ incoming' = incoming /\ id \in DOMAIN incoming
    BY <1>0, <1>3 DEF MarkChunk, TypeInv, HandlerOK
  <2>2. HasData'
    BY <1>0, <1>3, <2>1, ChunkMarked DEF HasData
  <2>3. ASSUME NEW i \in DOMAIN manifest'
        PROVE  \/ manifest'[i].name = Absent \/ ~is_complete(manifest'[i])
               \/ pc' = "finalize" /\ pkt' = pkt /\ i = id
    <3>1. CASE i = id
      BY <1>0, <1>3, <3>1, ChunkMarked
    <3>2. CASE i # id
      <4>1. i \in DOMAIN manifest /\ manifest'[i] = manifest[i]
        BY <1>0, <1>3, <2>3, <3>2, ChunkMarked
      <4>2. QED
        BY <1>0, <2>1, <4>1 DEF Finishing, FinalPCs
    <3>3. QED
      BY <3>1, <3>2
  <2>4. QED
    BY <2>2, <2>3 DEF FinishInv, Finishing, is_complete, id, FinalPCs
<1>4. CASE DropManifest
  BY <1>0, <1>4
  DEF DropManifest, Return, Remove, FinishInv, HasData, Finishing, is_complete
<1>5. CASE FinalizeError
  <2>1. pc = "finalize" /\ id \in DOMAIN manifest /\ id \notin DOMAIN incoming
    BY <1>0, <1>5 DEF FinalizeError, TypeInv, HandlerOK
  <2>2. is_complete(manifest[id])
    BY <1>0, <2>1 DEF HandlerFits, FinalPCs
  <2>3. PICK s \in Sources, p \in PayloadSizes : manifest[id].num_chunks = NumChunks(s, p)
    BY <1>0, <2>1 DEF Counted
  <2>4. Size[s] \in Nat /\ p \in Nat \ {0} /\ Size[s] <= (U32 - 1) * p
    BY ChunkerAssumption DEF NoWrap
  <2>5. manifest[id].num_chunks \in Nat \ {0}
    BY <2>3, <2>4, ChunkCount DEF NumChunks
  <2>6. 0 \in manifest[id].bits
    BY <2>2, <2>5 DEF is_complete
  <2>7. QED
    BY <1>0, <2>1, <2>6 DEF HasData
<1>6. CASE ExtendData \/ WriteData \/ TruncateData
  BY <1>0, <1>6
  DEF ExtendData, WriteData, TruncateData, Put, FinishInv, HasData, Finishing, id,
      is_complete, FinalPCs
<1>7. CASE MarkDuplicate
  BY <1>0, <1>7
  DEF MarkDuplicate, Return, disk, FinishInv, HasData, Finishing, is_complete, FinalPCs
<1>8. CASE FinalizeRename \/ UnlinkIncoming
  BY <1>0, <1>8
  DEF FinalizeRename, UnlinkIncoming, Remove, FinishInv, HasData, Finishing, id,
      is_complete, FinalPCs
<1>9. CASE FinalizeCopy \/ CopyRest
  BY <1>0, <1>9
  DEF FinalizeCopy, CopyRest, FinishInv, HasData, Finishing, id, is_complete, FinalPCs
<1>10. CASE Interrupt
  <2>1. /\ pc \notin FinalPCs /\ DOMAIN incoming' = DOMAIN incoming
        /\ manifest' = manifest
    BY <1>10 DEF Interrupt
  <2>2. QED
    BY <1>0, <2>1 DEF FinishInv, HasData, Finishing, is_complete, FinalPCs
<1>11. CASE UNCHANGED vars
  BY <1>0, <1>11 DEF vars, FinishInv, HasData, Finishing, id, is_complete
<1>12. QED
  BY <1>1, <1>2, <1>3, <1>4, <1>5, <1>6, <1>7, <1>8, <1>9, <1>10, <1>11 DEF Next, Work

\* If finalize itself is not interrupted, no assembly waits with nothing left to
\* ask for, whichever packet completed it and wherever ingest was cut short.
THEOREM CompleteAreFinalized ==
  ASSUME NoWrap, InterruptAt \cap FinalPCs = {}
  PROVE  Spec => []CompleteIsFinalized
<1>1. Init => FinishInv
  BY DEF Init, FinishInv, HasData, Finishing, Empty
<1>2. FinishInv => CompleteIsFinalized
  BY DEF FinishInv, Finishing, CompleteIsFinalized, FinalPCs
<1>3. CountInv /\ FinishInv /\ [Next]_vars => FinishInv'
  BY FinishNext
<1>4. QED
  BY <1>1, <1>2, <1>3, CountInit, CountNext, PTL DEF Spec
-----------------------------------------------------------------------------
(* An assembly only makes progress.                                         *)

\* When the manifest is about to go, the file has landed.
Landed ==
  pc = "drop" => \E s \in Sources : /\ FileId[s] = id
                                    /\ finals[manifest[id].name] = Content(s)

LEMMA LandedNext ==
  ASSUME NoWrap, DataInv, CopyDone, CountInv, Landed, [Next]_vars
  PROVE  Landed'
<1> SUFFICES ASSUME pc' = "drop" PROVE Landed'
  BY DEF Landed
<1>1. CASE FinalizeRename \/ UnlinkIncoming
  <2>1. /\ pc \in MovePCs /\ id \in DOMAIN incoming /\ UNCHANGED <<manifest, pkt>>
        /\ finals'[manifest[id].name] = incoming[id]
    BY <1>1 DEF FinalizeRename, UnlinkIncoming, CountInv, TypeInv, HandlerOK, MovePCs, Put,
       CopyDone
  <2>2. PICK s \in Sources : FileId[s] = id /\ incoming[id] = Content(s)
    BY <2>1, MovesContent
  <2>3. QED
    BY <2>1, <2>2 DEF Landed, id
<1>2. CASE UNCHANGED vars
  BY <1>2 DEF vars, Landed, id
<1>3. QED
  BY <1>1, <1>2
  DEF Next, Work, IngestChunk, IngestManifest, Return, ExtendData, WriteData,
      TruncateData, MarkDuplicate, MarkChunk, FinalizeCopy, CopyRest,
      FinalizeError, DropManifest, Interrupt

\* An assembly's count, size, name and bits are never taken back, and it ends only
\* with its file's bytes in the final directory.
THEOREM AssembliesOnlyProgress ==
  ASSUME Unambiguous, NoWrap, DropCertain
  PROVE  Spec => AssembliesProgress
<1> DEFINE Progress == \A i \in DOMAIN manifest : AssemblyStep(i)
<1>1. ASSUME CountInv, Landed, [Next]_vars PROVE [Progress]_vars
  <2>0. TypeInv /\ HandlerFits
    BY <1>1 DEF CountInv
  <2>1. ASSUME NEW k \in ChunkPackets, IngestChunk(k), NEW i \in DOMAIN manifest
        PROVE  AssemblyStep(i)
    BY <2>0, <2>1, ChunkArrives DEF AssemblyStep
  <2>2. ASSUME NEW k \in ManifestPackets, IngestManifest(k), NEW i \in DOMAIN manifest
        PROVE  AssemblyStep(i)
    BY <2>0, <2>2, NameArrives DEF AssemblyStep
  <2>3. ASSUME MarkChunk, NEW i \in DOMAIN manifest PROVE AssemblyStep(i)
    <3>1. CASE i = id
      BY <2>0, <2>3, <3>1, ChunkMarked DEF AssemblyStep
    <3>2. CASE i # id
      BY <2>0, <2>3, <3>2, ChunkMarked DEF AssemblyStep
    <3>3. QED
      BY <3>1, <3>2
  <2>4. ASSUME DropManifest, NEW i \in DOMAIN manifest PROVE AssemblyStep(i)
    <3>1. pc = "drop" /\ manifest' = Remove(manifest, id) /\ finals' = finals
      BY <2>4 DEF DropManifest
    <3>2. CASE i = id
      <4>1. i \notin DOMAIN manifest'
        BY <3>1, <3>2 DEF Remove
      <4>2. /\ is_complete(manifest[i])
            /\ \E s \in Sources : FileId[s] = i /\ finals'[manifest[i].name] = Content(s)
        BY <1>1, <2>0, <3>1, <3>2 DEF HandlerFits, FinalPCs, Landed
      <4>3. QED
        BY <4>1, <4>2 DEF AssemblyStep
    <3>3. CASE i # id
      BY <3>1, <3>3 DEF AssemblyStep, Remove
    <3>4. QED
      BY <3>2, <3>3
  <2>5. ASSUME Quiet, NEW i \in DOMAIN manifest PROVE AssemblyStep(i)
    BY <2>5, QuietSteps DEF AssemblyStep
  <2>6. QED
    BY <1>1, <2>1, <2>2, <2>3, <2>4, <2>5 DEF Next, Work, Quiet
<1>2. CountInv /\ Landed /\ [Next]_vars => [Progress]_vars
  BY <1>1
<1>3. DataInv /\ CopyDone /\ CountInv /\ Landed /\ [Next]_vars => Landed'
  BY LandedNext
<1>4. DataInv /\ [Next]_vars => DataInv'
  BY DataNext
<1>5. Init => Landed /\ CopyDone
  BY DEF Init, Landed, CopyDone
<1>6. DataInv /\ CopyDone /\ [Next]_vars => CopyDone'
  BY CopyDoneNext DEF DataInv
<1> HIDE DEF Progress
<1>7. Spec => [][Progress]_vars
  BY <1>2, <1>3, <1>4, <1>5, <1>6, DataInit, CountInit, CountNext, PTL DEF Spec
<1>8. QED
  BY <1>7 DEF Progress, AssembliesProgress
-----------------------------------------------------------------------------
(* FileDelivery is implemented: each step of the receiver is an abstract step
   or invisible.                                                           *)

\* The refinement mapping's `known`.
Known == [s \in UnderWay |-> Collected(s)]

\* A chunk's slice lies inside its file.
LEMMA SliceInside ==
  ASSUME NoWrap, NEW s \in Sources, NEW p \in PayloadSizes,
         NEW c \in 0 .. NumChunks(s, p) - 1
  PROVE  Slice(s, p, c) \subseteq DOMAIN Content(s)
<1>1. Size[s] \in Nat /\ p \in Nat \ {0} /\ Size[s] <= (U32 - 1) * p
  BY ChunkerAssumption DEF NoWrap
<1>2. PayloadLen(s, p, c) = ChunkLen(Size[s], p, c)
  BY DEF PayloadLen, ChunkLen
<1>3. c * p \in Nat /\ PayloadLen(s, p, c) \in Nat /\ c * p + PayloadLen(s, p, c) <= Size[s]
  BY <1>1, <1>2, ChunkExtent DEF NumChunks
<1> QED BY <1>1, <1>3 DEF Slice, Content

\* A complete manifest vouches for the whole file.
LEMMA CollectedWhole ==
  ASSUME NoWrap, SafeInv, NEW s \in Sources, FileId[s] \in DOMAIN manifest,
         NEW p \in PayloadSizes, NumChunks(s, p) = manifest[FileId[s]].num_chunks,
         is_complete(manifest[FileId[s]])
  PROVE  Collected(s) = DOMAIN Content(s)
<1>0. Collected(s) \subseteq DOMAIN Content(s)
  BY SliceInside DEF Collected, SafeInv, DataInv, AssembliesOK
<1> SUFFICES ASSUME NEW o \in 0 .. Size[s] - 1 PROVE o \in Collected(s)
  BY <1>0 DEF Content
<1>1. Size[s] \in Nat /\ p \in Nat \ {0} /\ Size[s] <= (U32 - 1) * p
  BY ChunkerAssumption DEF NoWrap
<1>2. PICK c \in 0 .. NumChunks(s, p) - 1 :
        o \in c * p .. c * p + ChunkLen(Size[s], p, c) - 1
  BY <1>1, ChunksCover DEF NumChunks
<1>3. c \in manifest[FileId[s]].bits
  BY <1>2 DEF is_complete
<1>4. o \in Slice(s, p, c)
  BY <1>2 DEF Slice, PayloadLen, ChunkLen
<1> QED BY <1>3, <1>4 DEF Collected

\* A step that leaves the assemblies' ids, chunk counts and bits alone is
\* invisible.
LEMMA Invisible ==
  ASSUME UnderWay' = UnderWay,
         \A s \in UnderWay : manifest'[FileId[s]].bits = manifest[FileId[s]].bits
                             /\ manifest'[FileId[s]].num_chunks = manifest[FileId[s]].num_chunks
  PROVE  Known' = Known
<1>1. \A s \in UnderWay : Collected(s)' = Collected(s)
  BY DEF Collected, UnderWay
<1> QED BY <1>1 DEF Known

\* A new assembly without a bit opens its file.
LEMMA Opens ==
  ASSUME Unambiguous, NEW s \in Sources, NEW m, m.bits = {},
         FileId[s] \notin DOMAIN manifest,
         manifest' = Put(manifest, FileId[s], m),
         pc = "recv", pc' # "drop"
  PROVE  s \notin DOMAIN Known /\ Known' = [t \in DOMAIN Known \cup {s} |->
                                             IF t = s THEN {} ELSE Known[t]]
<1>1. s \notin UnderWay /\ UnderWay' = UnderWay \cup {s}
  BY DEF UnderWay, Leaving, Put, Unambiguous
<1>2. Collected(s)' = {}
  BY DEF Collected, Put
<1>3. \A t \in UnderWay : Collected(t)' = Collected(t)
  BY DEF Collected, UnderWay, Put
<1> QED BY <1>1, <1>2, <1>3 DEF Known

\* Every step of the receiver is a step of FileDelivery or changes nothing.
LEMMA DeliveryStep ==
  ASSUME Unambiguous, NoWrap, AtomicFinalize, SafeInv, [Next]_vars
  PROVE  [Delivery!Next]_(Delivery!vars)
<1> USE DEF Delivery!vars
<1>0. SUFFICES \/ Known' = Known /\ finals' = finals
               \/ \E s \in Sources : \/ Delivery!Open(s)
                                     \/ Delivery!Collect(s)
                                     \/ Delivery!Deliver(s)
  BY DEF Delivery!Next, Known
<1> USE DEF id
<1>1. ASSUME NEW k \in ChunkPackets, IngestChunk(k)
      PROVE  \/ Known' = Known /\ finals' = finals
             \/ \E s \in Sources : Delivery!Open(s)
  <2>1. PICK s \in Sources : FileId[s] = k.file_id
    BY PacketGeometry, ChunkPacketFacts
  <2>2. pc = "recv" /\ pc' = "extend" /\ finals' = finals
    BY <1>1 DEF IngestChunk
  <2>3. CASE k.file_id \notin DOMAIN manifest
    <3>1. manifest' = Put(manifest, FileId[s], NewManifest(k.len, k.num_chunks, Absent))
      BY <1>1, <2>1, <2>3 DEF IngestChunk, Fits
    <3>2. NewManifest(k.len, k.num_chunks, Absent).bits = {}
      BY DEF NewManifest
    <3>3. s \notin DOMAIN Known /\ Known' = [t \in DOMAIN Known \cup {s} |->
                                              IF t = s THEN {} ELSE Known[t]]
      BY <2>1, <2>2, <2>3, <3>1, <3>2, Opens
    <3> QED BY <2>2, <3>3 DEF Delivery!Open, Delivery!Put, Known
  <2>4. CASE k.file_id \in DOMAIN manifest
    <3>1. manifest[k.file_id] \in Manifests
      BY <2>4 DEF SafeInv, DataInv, TypeInv, TypeOK
    <3>2. /\ DOMAIN manifest' = DOMAIN manifest
          /\ \A i \in DOMAIN manifest : manifest'[i].bits = manifest[i].bits
                                        /\ manifest'[i].num_chunks = manifest[i].num_chunks
      BY <1>1, <2>4, <3>1 DEF IngestChunk, Manifests
    <3>3. UnderWay' = UnderWay
      BY <2>2, <3>2 DEF UnderWay, Leaving
    <3>4. \A t \in UnderWay : FileId[t] \in DOMAIN manifest
      BY DEF UnderWay
    <3> QED BY <2>2, <3>2, <3>3, <3>4, Invisible
  <2> QED BY <2>3, <2>4
<1>2. ASSUME NEW k \in ManifestPackets, IngestManifest(k)
      PROVE  \/ Known' = Known /\ finals' = finals
             \/ \E s \in Sources : Delivery!Open(s)
  <2>1. PICK s \in Sources : FileId[s] = k.file_id
    BY DEF ManifestPackets, ManifestPacket
  <2>2. pc = "recv" /\ pc' \in {"recv", "finalize"} /\ finals' = finals
        /\ manifest' = Put(manifest, k.file_id, Named(k))
    BY <1>2 DEF IngestManifest, Return
  <2>3. CASE k.file_id \notin DOMAIN manifest
    <3>1. Named(k).bits = {}
      BY <2>3 DEF Named, NewManifest
    <3>2. s \notin DOMAIN Known /\ Known' = [t \in DOMAIN Known \cup {s} |->
                                              IF t = s THEN {} ELSE Known[t]]
      BY <2>1, <2>2, <2>3, <3>1, Opens
    <3> QED BY <2>2, <3>2 DEF Delivery!Open, Delivery!Put, Known
  <2>4. CASE k.file_id \in DOMAIN manifest
    <3>1. manifest[k.file_id] \in Manifests
      BY <2>4 DEF SafeInv, DataInv, TypeInv, TypeOK
    <3>2. /\ Named(k).bits = manifest[k.file_id].bits
          /\ Named(k).num_chunks = manifest[k.file_id].num_chunks
      BY <2>4, <3>1 DEF Named, Manifests
    <3>3. /\ DOMAIN manifest' = DOMAIN manifest
          /\ \A i \in DOMAIN manifest : manifest'[i].bits = manifest[i].bits
                                        /\ manifest'[i].num_chunks = manifest[i].num_chunks
      BY <2>2, <2>4, <3>2 DEF Put
    <3>4. UnderWay' = UnderWay
      BY <2>2, <3>3 DEF UnderWay, Leaving
    <3>5. \A t \in UnderWay : FileId[t] \in DOMAIN manifest
      BY DEF UnderWay
    <3> QED BY <2>2, <3>3, <3>4, <3>5, Invisible
  <2> QED BY <2>3, <2>4
<1>3. CASE ExtendData \/ WriteData \/ TruncateData \/ MarkDuplicate \/ FinalizeError
           \/ Interrupt \/ UNCHANGED vars
  <2>1. UNCHANGED <<manifest, finals>>
    BY <1>3 DEF ExtendData, WriteData, TruncateData, MarkDuplicate, FinalizeError,
       Interrupt, disk, vars
  <2>2. \/ pc # "drop" /\ pc' # "drop"
        \/ pc' = pc /\ pkt' = pkt
    BY <1>3 DEF ExtendData, WriteData, TruncateData, MarkDuplicate, FinalizeError,
       Interrupt, Return, vars, AtomicFinalize
  <2>3. UnderWay' = UnderWay
    BY <2>1, <2>2 DEF UnderWay, Leaving
  <2> QED BY <2>1, <2>3, Invisible
<1>4. CASE MarkChunk
  <2>1. pc = "mark" /\ pc' \in {"recv", "finalize"} /\ id \in DOMAIN manifest
        /\ finals' = finals
        /\ manifest' = [manifest EXCEPT ![id].bits = @ \cup {pkt.chunk_id}]
    BY <1>4 DEF MarkChunk, Return, SafeInv, DataInv, TypeInv, HandlerOK
  <2>2. PICK s \in Sources : s = pkt.src /\ FileId[s] = id
    BY <2>1, Placement DEF ChunkPCs, SafeInv
  <2>3. manifest[id] \in Manifests
    BY <2>1 DEF SafeInv, DataInv, TypeInv, TypeOK
  <2>4. /\ DOMAIN manifest' = DOMAIN manifest
        /\ manifest'[id].bits = manifest[id].bits \cup {pkt.chunk_id}
        /\ manifest'[id].num_chunks = manifest[id].num_chunks
        /\ \A i \in DOMAIN manifest : i # id => manifest'[i] = manifest[i]
    BY <2>1, <2>3 DEF Manifests
  <2>5. UnderWay' = UnderWay /\ s \in UnderWay
    BY <2>1, <2>2, <2>4 DEF UnderWay, Leaving
  <2>6. \A t \in UnderWay : t # s => Collected(t)' = Collected(t)
    <3> SUFFICES ASSUME NEW t \in UnderWay, t # s PROVE Collected(t)' = Collected(t)
      OBVIOUS
    <3>1. FileId[t] # id /\ FileId[t] \in DOMAIN manifest
      BY <2>2 DEF Unambiguous, UnderWay
    <3>2. manifest'[FileId[t]] = manifest[FileId[t]]
      BY <2>4, <3>1
    <3> QED BY <3>2 DEF Collected
  <2>7. Collected(s) \subseteq Collected(s)'
    BY <2>2, <2>4 DEF Collected
  <2>8. Collected(s)' \subseteq DOMAIN Content(s)
    <3>1. AssembliesOK' /\ FileId[s] \in DOMAIN manifest'
      BY <2>1, <2>2, <2>4, SafeNext DEF SafeInv, DataInv
    <3> SUFFICES ASSUME NEW p \in PayloadSizes,
                        NumChunks(s, p) = manifest'[FileId[s]].num_chunks,
                        NEW c \in manifest'[FileId[s]].bits
                 PROVE  Slice(s, p, c) \subseteq DOMAIN Content(s)
      BY DEF Collected
    <3>2. c \in 0 .. NumChunks(s, p) - 1
      BY <2>2, <3>1 DEF AssembliesOK
    <3> QED BY <2>2, <3>2, SliceInside
  <2>9. Known' = [Known EXCEPT ![s] = @ \cup Collected(s)']
    BY <2>5, <2>6, <2>7 DEF Known
  <2>10. s \in DOMAIN Known /\ Collected(s)' \in SUBSET DOMAIN [t \in Sources |-> Content(t)][s]
    BY <2>2, <2>5, <2>8 DEF Known
  <2>11. Delivery!Collect(s)
    BY <2>1, <2>9, <2>10 DEF Delivery!Collect, Known
  <2> QED BY <2>2, <2>11
<1>5. CASE FinalizeRename
  <2>1. /\ pc = "finalize" /\ pc' = "drop" /\ UNCHANGED <<manifest, pkt>>
        /\ id \in DOMAIN manifest /\ id \in DOMAIN incoming
        /\ finals' = Put(finals, manifest[id].name, incoming[id])
    BY <1>5 DEF FinalizeRename, SafeInv, DataInv, TypeInv, HandlerOK
  <2>2. manifest[id].num_chunks = pkt.num_chunks /\ is_complete(manifest[id])
    BY <2>1 DEF SafeInv, DataInv, HandlerSafe, MovePCs
  <2>3. pkt \in Packets /\ manifest[id].name # Absent
    BY <2>1 DEF SafeInv, DataInv, TypeInv, TypeOK, HandlerOK, FinalPCs
  <2>4. PICK s \in Sources, p \in PayloadSizes :
          FileId[s] = id /\ NumChunks(s, p) = pkt.num_chunks
    <3>1. CASE pkt \in ChunkPackets
      BY <3>1, PacketGeometry, ChunkPacketFacts
    <3>2. CASE pkt \in ManifestPackets
      BY <3>2 DEF ManifestPackets, ManifestPacket
    <3> QED BY <2>3, <3>1, <3>2 DEF Packets
  <2>5. incoming[id] = Content(s)
    BY <2>1, <2>2, <2>4, CompleteIsContent DEF Leaving, SafeInv
  <2>6. manifest[id].name = Path[s]
    BY <2>1, <2>2, <2>3, <2>4 DEF SafeInv, DataInv, AssembliesOK
  <2>7. Collected(s) = DOMAIN Content(s)
    BY <2>1, <2>2, <2>4, CollectedWhole
  <2>8. s \in UnderWay /\ UnderWay' = UnderWay \ {s}
    BY <2>1, <2>4 DEF UnderWay, Leaving, Unambiguous
  <2>9. \A t \in UnderWay : Collected(t)' = Collected(t)
    BY <2>1 DEF Collected
  <2>10. s \in DOMAIN Known /\ Known' = [t \in DOMAIN Known \ {s} |-> Known[t]]
    BY <2>8, <2>9 DEF Known
  <2>11. Known[s] = DOMAIN [t \in Sources |-> Content(t)][s]
    BY <2>7, <2>8 DEF Known
  <2>12. finals' = Put(finals, Path[s], [t \in Sources |-> Content(t)][s])
    BY <2>1, <2>5, <2>6
  <2>13. Delivery!Deliver(s)
    BY <2>10, <2>11, <2>12 DEF Delivery!Deliver, Delivery!Remove, Delivery!Put, Put, Known
  <2> QED BY <2>13
<1>6. CASE FinalizeCopy \/ CopyRest \/ UnlinkIncoming
  BY <1>6 DEF FinalizeCopy, CopyRest, UnlinkIncoming, AtomicFinalize, SafeInv, DataInv, HandlerSafe
<1>7. CASE DropManifest
  <2>1. pc = "drop" /\ pc' = "recv" /\ finals' = finals /\ manifest' = Remove(manifest, id)
    BY <1>7 DEF DropManifest, Return
  <2>2. UnderWay' = UnderWay
    BY <2>1 DEF UnderWay, Leaving, Remove
  <2>3. \A t \in UnderWay : manifest'[FileId[t]] = manifest[FileId[t]]
    BY <2>1 DEF UnderWay, Leaving, Remove
  <2> QED BY <2>1, <2>2, <2>3, Invisible
<1> QED
  BY <1>1, <1>2, <1>3, <1>4, <1>5, <1>6, <1>7 DEF Next, Work

\* Whatever the link does, and wherever the handler is interrupted before the
\* rename, the receiver is a FileDelivery: readers of the final directory see each
\* file appear whole, in one step, once all of it was received.
THEOREM Refinement ==
  ASSUME Unambiguous, NoWrap, AtomicFinalize
  PROVE  Spec => ImplementsDelivery
<1>1. Init => Delivery!Init
  BY DEF Init, Delivery!Init, UnderWay, Empty
<1>2. SafeInv /\ [Next]_vars => SafeInv'
  BY SafeNext
<1>3. SafeInv /\ [Next]_vars => [Delivery!Next]_(Delivery!vars)
  BY DeliveryStep
<1> QED BY <1>1, <1>2, <1>3, SafeInit, PTL DEF Spec, ImplementsDelivery, Delivery!Spec
=============================================================================
