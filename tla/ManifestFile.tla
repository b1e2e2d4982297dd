---------------------------- MODULE ManifestFile -----------------------------
(***************************************************************************)
(* The bitmap of a .parmanifest sidecar, byte by byte.  Reassembler and    *)
(* Cleaner take it for a set of chunk numbers and missing_ranges for the   *)
(* maximal runs outside of it; here both are computed as the code does.    *)
(*                                                                         *)
(* A byte is the set of its bits that are set.  The header, its CRC and    *)
(* the name keep no more than their values: save replaces the file in one  *)
(* rename.                                                                 *)
(***************************************************************************)
EXTENDS Integers, FiniteSets, SequencesExt

CONSTANT MaxChunks   \* bound: chunks of a file

ASSUME ManifestAssumption == MaxChunks \in Nat

Byte == 0 .. 7

\* Mutated form: no byte for the chunks past the last multiple of eight.
BitmapLenFloor(n) == n \div 8

\* u32 in the code: wraps from 2^32 - 7 chunks on, far beyond any file.
BitmapLen(n) == (n + 7) \div 8

\* The bitmap of Manifest::create.
Blank(n) == [i \in 0 .. BitmapLen(n) - 1 |-> {}]

IsSet(bitmap, c) ==
  c \div 8 \in DOMAIN bitmap /\ c % 8 \in bitmap[c \div 8]

\* set; a chunk past the last byte is ignored.
SetBit(bitmap, c) ==
  [i \in DOMAIN bitmap |-> IF i = c \div 8 THEN bitmap[i] \cup {c % 8} ELSE bitmap[i]]

\* is_complete: all whole bytes, then the mask of the last one.
Complete(bitmap, n) ==
  LET full == n \div 8
      mask == 0 .. (n % 8) - 1
  IN  /\ \A i \in 0 .. full - 1 : bitmap[i] = Byte
      /\ n % 8 # 0 /\ full \in DOMAIN bitmap => mask \subseteq bitmap[full]

\* missing_ranges, the inner loop: where the clear bits from i on end.
RunEnds(bitmap, n) ==
  LET run[i \in 0 .. n] ==
        IF i < n /\ ~IsSet(bitmap, i) THEN run[i + 1] ELSE i
  IN  run

\* The outer loop: the ranges pushed from i on.
RangesFrom(bitmap, n) ==
  LET ends == RunEnds(bitmap, n)
      rest[i \in 0 .. n] ==
        IF i = n THEN <<>>
        ELSE IF IsSet(bitmap, i) THEN rest[i + 1]
        ELSE << <<i, ends[i] - i>> >> \o rest[ends[i]]
  IN  rest

MissingRangesOf(bitmap, n) == RangesFrom(bitmap, n)[0]

\* The counts of the first k ranges, for every k.
CountsOf(ranges) ==
  LET sum[k \in 0 .. Len(ranges)] == IF k = 0 THEN 0 ELSE sum[k - 1] + ranges[k][2]
  IN  sum

\* stats: what a status request reports as received.
ChunksReceived(bitmap, n) ==
  LET ranges == MissingRangesOf(bitmap, n)
      missing == CountsOf(ranges)[Len(ranges)]
  IN  IF missing < n THEN n - missing ELSE 0
-----------------------------------------------------------------------------
\* The bitmap of a file of n chunks in which those of `marked` are set, as far as
\* there are bytes for them.
Bitmap(marked, n) ==
  [i \in 0 .. BitmapLen(n) - 1 |-> {b \in Byte : 8 * i + b \in marked}]

\* P(bitmap, marked, n) for the bitmap after any chunks of a file of n were
\* marked, some past its end included (the code does not compare chunk_id with
\* num_chunks).
EveryBitmap(P(_, _, _)) ==
  \A n \in 1 .. MaxChunks : \A marked \in SUBSET (0 .. n + 1) : P(Bitmap(marked, n), marked, n)

\* The maximal runs of chunks below n that are not in `marked`.
MissingRuns(marked, n) ==
  {r \in (0 .. n - 1) \X (1 .. n) :
     /\ r[1] + r[2] <= n /\ r[1] .. r[1] + r[2] - 1 \cap marked = {}
     /\ r[1] - 1 \in marked \cup {-1} /\ r[1] + r[2] \in marked \cup {n}}

\* A new bitmap, and one in which a chunk is set, are those of their chunks;
\* membership and completeness; the missing ranges, in order; and the count.
Marking ==
  EveryBitmap(LAMBDA bitmap, marked, n :
    /\ marked = {} => bitmap = Blank(n)
    /\ \A c \in 0 .. n + 1 : SetBit(bitmap, c) = Bitmap(marked \cup {c}, n))

Membership ==
  EveryBitmap(LAMBDA bitmap, marked, n :
    /\ \A c \in 0 .. n - 1 : IsSet(bitmap, c) <=> c \in marked
    /\ Complete(bitmap, n) <=> 0 .. n - 1 \subseteq marked)

Ranges ==
  EveryBitmap(LAMBDA bitmap, marked, n :
    LET ranges == MissingRangesOf(bitmap, n)
    IN  /\ ToSet(ranges) = MissingRuns(marked, n)
        /\ \A j, k \in DOMAIN ranges : j < k => ranges[j][1] < ranges[k][1])

Counting ==
  EveryBitmap(LAMBDA bitmap, marked, n :
    ChunksReceived(bitmap, n) = Cardinality(marked \cap 0 .. n - 1))
=============================================================================
