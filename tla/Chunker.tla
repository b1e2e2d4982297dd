------------------------------- MODULE Chunker -------------------------------
(***************************************************************************)
(* The wire geometry of a file: how chunker.rs splits the `Size[s]` bytes  *)
(* of a payload-side file into datagrams.                                  *)
(*                                                                         *)
(* A source is one immutable file content.  The bytes of a source are      *)
(* pairwise distinct values <<s, o>> (the byte at offset o of s), so that  *)
(* a byte that ends up at the wrong place, or in the wrong file, is seen.  *)
(* A payload is not a string but the slice of its source that it carries.  *)
(***************************************************************************)
EXTENDS ChunkMath

CONSTANTS
  Sources,        \* payload-side file contents
  FileId,         \* [Sources -> Ids], the ledger's file_id of a source
  Path,           \* [Sources -> Paths], its path on the payload
  Size,           \* [Sources -> Nat], its length in bytes
  PayloadSizes,   \* chunk_size - HEADER_LEN, for every chunk_size in use
  ChunkTypes      \* the packet types that carry a chunk

ASSUME ChunkerAssumption ==
  /\ Size \in [Sources -> Nat]
  /\ PayloadSizes \subseteq Nat \ {0}
  /\ ChunkTypes \subseteq {"Data", "Retransmit"}

Ids   == {FileId[s] : s \in Sources}
Paths == {Path[s] : s \in Sources}

NumChunks(s, p) == chunks_for_size(Size[s], p)

\* to_read of Chunker::data_packet.
PayloadLen(s, p, c) ==
  IF Size[s] - c * p < p THEN Size[s] - c * p ELSE p

\* Chunker::data_packet and, with type Retransmit, retransmit_packet.
\* The payload is `len` bytes of `src` from offset `off`.
ChunkPacket(t, s, p, c) ==
  [ptype |-> t, file_id |-> FileId[s], chunk_id |-> c,
   num_chunks |-> NumChunks(s, p), last |-> c = NumChunks(s, p) - 1,
   src |-> s, off |-> c * p, len |-> PayloadLen(s, p, c)]

\* Chunker::manifest_packet: the payload is the file's path.
ManifestPacket(s, p) ==
  [ptype |-> "Manifest", file_id |-> FileId[s],
   num_chunks |-> NumChunks(s, p), name |-> Path[s]]

\* data_packet refuses chunk_id >= num_chunks, so these are all the chunk
\* packets a sender can put on the wire.
ChunkPackets ==
  UNION {{ChunkPacket(t, s, p, c) : c \in 0 .. NumChunks(s, p) - 1} :
           t \in ChunkTypes, s \in Sources, p \in PayloadSizes}

ManifestPackets == {ManifestPacket(s, p) : s \in Sources, p \in PayloadSizes}

Packets == ChunkPackets \cup ManifestPackets

\* The bytes of a source, and the source as the content of a file.
Bytes == Sources \X Nat
Content(s) == [o \in 0 .. Size[s] - 1 |-> <<s, o>>]
=============================================================================
