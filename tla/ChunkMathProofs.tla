--------------------------- MODULE ChunkMathProofs ---------------------------
(***************************************************************************)
(* The chunks of a file tile it: for every file size and payload size      *)
(* (below the u32 limit) they lie inside the file, only the last is short, *)
(* and every byte is in one of them.                                       *)
(***************************************************************************)
EXTENDS ChunkMath, TLAPS

\* Integer division, as the SMT solver knows it.
LEMMA DivBound ==
  ASSUME NEW n \in Nat, NEW p \in Nat \ {0}
  PROVE  /\ n \div p \in Nat
         /\ p * (n \div p) <= n
         /\ n < p * (n \div p) + p
  OBVIOUS

\* Remainder, as the SMT solver knows it.
LEMMA ModBound ==
  ASSUME NEW n \in Nat, NEW u \in Nat \ {0}
  PROVE  n % u \in Nat /\ n % u <= n /\ (n < u => n % u = n)
  OBVIOUS

\* A chunk count is a natural number, also where `as u32` wraps it.
LEMMA ChunksNat ==
  ASSUME NEW n \in Nat, NEW p \in Nat \ {0}
  PROVE  chunks_for_size(n, p) \in Nat
  BY U32Assumption, DivBound, ModBound DEF chunks_for_size

\* The chunks of a file start inside it.
LEMMA ChunkStart ==
  ASSUME NEW n \in Nat, NEW p \in Nat \ {0},
         NEW c \in 0 .. chunks_for_size(n, p) - 1
  PROVE  c * p \in Nat /\ c * p <= n
<1>1. CASE n = 0
  BY <1>1 DEF chunks_for_size
<1>2. CASE n # 0
  <2> DEFINE q == (n + p - 1) \div p
  <2>1. n + p - 1 \in Nat
    OBVIOUS
  <2>2. q \in Nat /\ p * q <= n + p - 1
    BY <2>1, DivBound
  <2>3. chunks_for_size(n, p) = q % U32
    BY <1>2 DEF chunks_for_size
  <2>4. q % U32 <= q /\ q % U32 \in Nat
    BY <2>2, ModBound, U32Assumption
  <2> HIDE DEF q
  <2>5. c \in Nat /\ c + 1 <= q
    BY <2>2, <2>3, <2>4
  <2>6. p * (c + 1) <= p * q
    BY <2>2, <2>5
  <2>7. p * (c + 1) = p * c + p /\ p * c = c * p /\ c * p \in Nat
    BY <2>5
  <2> QED BY <2>1, <2>2, <2>6, <2>7
<1> QED BY <1>1, <1>2

\* How many bytes chunk c of a file of n bytes holds.
ChunkLen(n, p, c) == IF n - c * p < p THEN n - c * p ELSE p

\* Without wrapping, the counted chunks are just enough for the file.
LEMMA ChunkCount ==
  ASSUME NEW n \in Nat, NEW p \in Nat \ {0}, n <= (U32 - 1) * p
  PROVE  LET N == chunks_for_size(n, p) IN
         /\ N \in Nat \ {0}
         /\ (N - 1) * p <= n /\ n <= N * p
         /\ n > 0 => (N - 1) * p < n
<1>1. CASE n = 0
  BY <1>1 DEF chunks_for_size
<1>2. CASE n # 0
  <2> DEFINE q == (n + p - 1) \div p
  <2>1. n + p - 1 \in Nat
    OBVIOUS
  <2>2. q \in Nat /\ p * q <= n + p - 1 /\ n + p - 1 < p * q + p
    BY <2>1, DivBound
  <2>3. chunks_for_size(n, p) = q % U32
    BY <1>2 DEF chunks_for_size
  <2> HIDE DEF q
  <2>4. U32 \in Nat \ {0}
    BY U32Assumption
  <2>5. (U32 - 1) * p = U32 * p - p /\ p * q = q * p
    BY <2>2, <2>4
  <2>6. q * p < U32 * p
    BY <2>2, <2>4, <2>5
  <2>7. q < U32
    <3>1. SUFFICES ASSUME U32 <= q PROVE FALSE
      BY <2>2, <2>4
    <3>2. U32 * p <= q * p
      BY <2>2, <2>4, <3>1
    <3> QED BY <2>2, <2>4, <2>6, <3>2
  <2>8. chunks_for_size(n, p) = q
    BY <2>2, <2>3, <2>4, <2>7, ModBound
  <2>9. q # 0
    BY <1>2, <2>2
  <2>10. (q - 1) * p = q * p - p
    BY <2>2
  <2> QED BY <1>2, <2>2, <2>5, <2>8, <2>9, <2>10
<1> QED BY <1>1, <1>2

\* Where chunk c of a file of n bytes ends, by its place.
LEMMA ChunkExtent ==
  ASSUME NEW n \in Nat, NEW p \in Nat \ {0}, n <= (U32 - 1) * p,
         NEW c \in 0 .. chunks_for_size(n, p) - 1
  PROVE  /\ c * p \in Nat /\ ChunkLen(n, p, c) \in Nat
         /\ c * p + ChunkLen(n, p, c) <= n
         /\ c = chunks_for_size(n, p) - 1 => c * p + ChunkLen(n, p, c) = n
         /\ c # chunks_for_size(n, p) - 1 => ChunkLen(n, p, c) = p
<1> DEFINE N == chunks_for_size(n, p)
<1>1. N \in Nat \ {0} /\ (N - 1) * p <= n /\ n <= N * p
  BY ChunkCount
<1> HIDE DEF N
<1>2. c \in Nat /\ c <= N - 1 /\ c * p \in Nat /\ c * p <= n
  BY <1>1, ChunkStart DEF N
<1>3. CASE c = N - 1
  <2>1. N * p = c * p + p
    BY <1>1, <1>2, <1>3
  <2> QED BY <1>1, <1>2, <1>3, <2>1 DEF ChunkLen, N
<1>4. CASE c # N - 1
  <2>1. c + 1 <= N - 1
    BY <1>1, <1>2, <1>4
  <2>2. (c + 1) * p <= (N - 1) * p
    BY <1>1, <1>2, <2>1
  <2>3. (c + 1) * p = c * p + p /\ (N - 1) * p \in Nat
    BY <1>1, <1>2
  <2> QED BY <1>1, <1>2, <1>4, <2>2, <2>3 DEF ChunkLen, N
<1> QED BY <1>3, <1>4

\* Every byte is in some chunk.
LEMMA ChunksCover ==
  ASSUME NEW n \in Nat, NEW p \in Nat \ {0}, n <= (U32 - 1) * p,
         NEW o \in 0 .. n - 1
  PROVE  \E c \in 0 .. chunks_for_size(n, p) - 1 :
           o \in c * p .. c * p + ChunkLen(n, p, c) - 1
<1> DEFINE N == chunks_for_size(n, p)
           c == o \div p
<1>1. N \in Nat \ {0} /\ n <= N * p
  BY ChunkCount
<1>2. c \in Nat /\ p * c <= o /\ o < p * c + p
  BY DivBound
<1> HIDE DEF N, c
<1>3. p * c = c * p /\ c * p \in Nat
  BY <1>2
<1>4. c < N
  <2>1. SUFFICES ASSUME N <= c PROVE FALSE
    BY <1>1, <1>2
  <2>2. N * p <= c * p
    BY <1>1, <1>2, <2>1
  <2> QED BY <1>1, <1>2, <1>3, <2>2
<1>5. o \in c * p .. c * p + ChunkLen(n, p, c) - 1
  BY <1>2, <1>3 DEF ChunkLen
<1> QED BY <1>1, <1>2, <1>4, <1>5 DEF N
=============================================================================
