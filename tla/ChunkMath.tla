------------------------------ MODULE ChunkMath ------------------------------
(***************************************************************************)
(* The arithmetic chunker.rs, the sender and its ledger share: how many    *)
(* datagrams a file takes.                                                 *)
(***************************************************************************)
EXTENDS Integers

CONSTANT U32      \* 2^32 in the code: chunk counts and indices are u32

ASSUME U32Assumption == U32 \in Nat \ {0}

\* chunks_for_size: an empty file still has one (empty) chunk; the count is
\* truncated by `as u32`.
chunks_for_size(size, p) ==
  IF size = 0 THEN 1 ELSE ((size + p - 1) \div p) % U32
=============================================================================
