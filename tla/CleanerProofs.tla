---------------------------- MODULE CleanerProofs ----------------------------
(***************************************************************************)
(* Proofs about Cleaner, for any files, chunk counts, budgets, TTLs and    *)
(* failures: the budget of a pass, the dedup table across restarts, and    *)
(* that a pass asks for nothing that is on its way.                        *)
(***************************************************************************)
EXTENDS Cleaner, Recursion, FiniteSetTheorems

-----------------------------------------------------------------------------
(* The bitmap and its loops, for any number of chunks.                      *)

\* The inner loop obeys its equation.
LEMMA RunEndsEquation ==
  ASSUME NEW b, NEW n \in Nat
  PROVE  RunEnds(b, n) = [i \in 0 .. n |-> IF i < n /\ ~IsSet(b, i) THEN RunEnds(b, n)[i + 1] ELSE i]
<1> DEFINE S == 0 .. n
           d == [i \in S |-> n - i]
           E(f, i) == IF i < n /\ ~IsSet(b, i) THEN f[i + 1] ELSE i
           H == [p \in S \X [S -> S] |-> E(p[2], p[1])]
<1>1. S # {} /\ d \in [S -> 0 .. n] /\ \A i \in S : d[i] = n - i
  OBVIOUS
<1>2. \A i \in S : i < n => i + 1 \in S
  OBVIOUS
<1>3. ASSUME NEW i \in S, NEW f \in [S -> S]
      PROVE  E(f, i) \in S /\ H[<<i, f>>] = E(f, i)
  <2>1. E(f, i) \in S
    <3>1. CASE i < n /\ ~IsSet(b, i)
      <4> HIDE DEF S
      <4>1. QED
        BY <1>2, <3>1
    <3>2. CASE ~(i < n /\ ~IsSet(b, i))
      BY <3>2
    <3>3. QED
      BY <3>1, <3>2
  <2> HIDE DEF E, S
  <2>2. QED
    BY <2>1
<1>4. H \in [S \X [S -> S] -> S]
  <2> HIDE DEF E, S
  <2>1. QED
    BY <1>3
<1>5. ASSUME NEW i \in S, NEW f \in [S -> S], NEW g \in [S -> S],
             \A j \in S : d[j] < d[i] => f[j] = g[j]
      PROVE  E(f, i) = E(g, i)
  <2>1. i < n => i + 1 \in S /\ d[i + 1] < d[i]
    BY <1>1
  <2>2. i < n => f[i + 1] = g[i + 1]
    BY <1>5, <2>1
  <2>3. QED
    BY <2>2
<1>6. \E f \in [S -> S] : \A i \in S : f[i] = E(f, i)
  <2> HIDE DEF E, S, H, d
  <2>1. \A i \in S : \A f, g \in [S -> S] :
          (\A j \in S : d[j] < d[i] => f[j] = g[j]) => H[<<i, f>>] = H[<<i, g>>]
    BY <1>3, <1>5
  <2>2. ByRank(S, S, n, d, H)
    BY <1>1, <1>4, <2>1 DEF ByRank
  <2>3. \E f \in [S -> S] : \A i \in S : f[i] = H[<<i, f>>]
    BY <2>2, RecursiveFunction
  <2>4. QED
    BY <1>3, <2>3
<1>7. \E f : f = [i \in S |-> E(f, i)]
  <2> HIDE DEF E, S
  <2>1. PICK f \in [S -> S] : \A i \in S : f[i] = E(f, i)
    BY <1>6
  <2>2. f = [i \in S |-> E(f, i)]
    BY <2>1
  <2>3. QED
    BY <2>2
<1>8. RunEnds(b, n) = CHOOSE f : f = [i \in S |-> E(f, i)]
  BY DEF RunEnds
<1> HIDE DEF S, E
<1>9. RunEnds(b, n) = [i \in S |-> E(RunEnds(b, n), i)]
  BY <1>7, <1>8
<1>10. QED
  BY <1>9 DEF S, E

\* It stops at the end or at the first bit that is set.
LEMMA RunEndsFacts ==
  ASSUME NEW b, NEW n \in Nat, NEW i \in 0 .. n
  PROVE  /\ RunEnds(b, n)[i] \in i .. n
         /\ \A c \in i .. RunEnds(b, n)[i] - 1 : ~IsSet(b, c)
         /\ RunEnds(b, n)[i] < n => IsSet(b, RunEnds(b, n)[i])
<1> DEFINE run == RunEnds(b, n)
           Ok(j) == /\ run[j] \in j .. n
                    /\ \A c \in j .. run[j] - 1 : ~IsSet(b, c)
                    /\ run[j] < n => IsSet(b, run[j])
           T == {j \in 0 .. n : Ok(j)}
<1>1. \A j \in 0 .. n : run[j] = IF j < n /\ ~IsSet(b, j) THEN run[j + 1] ELSE j
  BY RunEndsEquation
<1> HIDE DEF run
<1>2. ASSUME NEW j \in 0 .. n, \A k \in j + 1 .. n : k \in T
      PROVE  Ok(j)
  <2>1. CASE j < n /\ ~IsSet(b, j)
    <3>1. run[j] = run[j + 1] /\ j + 1 \in 0 .. n /\ Ok(j + 1)
      BY <1>1, <1>2, <2>1
    <3>2. \A c \in j .. run[j] - 1 : c = j \/ c \in j + 1 .. run[j + 1] - 1
      BY <3>1
    <3>3. QED
      BY <2>1, <3>1, <3>2
  <2>2. CASE ~(j < n /\ ~IsSet(b, j))
    <3>1. run[j] = j
      BY <1>1, <2>2
    <3>2. QED
      BY <2>2, <3>1
  <2>3. QED
    BY <2>1, <2>2
<1>3. \A j \in 0 .. n : (\A k \in j + 1 .. n : k \in T) => j \in T
  BY <1>2
<1>4. \A j \in 0 .. n : j \in T
  <2> HIDE DEF T
  <2>1. QED
    BY <1>3, DownInduction
<1>5. QED
  BY <1>4 DEF run

Pairs == Nat \X Nat

\* The outer loop obeys its equation.
LEMMA RangesFromEquation ==
  ASSUME NEW b, NEW n \in Nat
  PROVE  /\ RangesFrom(b, n) \in [0 .. n -> Seq(Pairs)]
         /\ \A i \in 0 .. n : RangesFrom(b, n)[i] =
              IF i = n THEN <<>>
              ELSE IF IsSet(b, i) THEN RangesFrom(b, n)[i + 1]
              ELSE << <<i, RunEnds(b, n)[i] - i>> >> \o RangesFrom(b, n)[RunEnds(b, n)[i]]
<1> DEFINE S == 0 .. n
           V == Seq(Pairs)
           d == [i \in S |-> n - i]
           ends == RunEnds(b, n)
           E(f, i) == IF i = n THEN <<>> ELSE IF IsSet(b, i) THEN f[i + 1]
                      ELSE << <<i, ends[i] - i>> >> \o f[ends[i]]
           H == [p \in S \X [S -> V] |-> E(p[2], p[1])]
<1>1. d \in [S -> 0 .. n] /\ \A i \in S : d[i] = n - i
  OBVIOUS
<1>2. ASSUME NEW i \in S, i # n
      PROVE  /\ i + 1 \in S /\ d[i + 1] < d[i]
             /\ ~IsSet(b, i) => /\ ends[i] \in S /\ d[ends[i]] < d[i]
                                /\ <<i, ends[i] - i>> \in Pairs
  <2>1. i + 1 \in S /\ i < n
    BY <1>2
  <2>2. ends[i] \in i .. n /\ (ends[i] < n => IsSet(b, ends[i]))
    BY RunEndsFacts
  <2> HIDE DEF ends
  <2>3. ~IsSet(b, i) => ends[i] # i
    BY <2>1, <2>2
  <2>4. ends[i] \in S /\ (~IsSet(b, i) => i < ends[i]) /\ <<i, ends[i] - i>> \in Pairs
    BY <2>1, <2>2, <2>3 DEF Pairs
  <2>5. QED
    BY <1>1, <2>1, <2>4
<1> HIDE DEF d, ends
<1>3. ASSUME NEW i \in S, NEW f \in [S -> V]
      PROVE  E(f, i) \in V /\ H[<<i, f>>] = E(f, i)
  <2>1. E(f, i) \in V
    <3> HIDE DEF S
    <3>1. CASE i # n /\ ~IsSet(b, i)
      <4>1. << <<i, ends[i] - i>> >> \in V /\ f[ends[i]] \in V
        BY <1>2, <3>1
      <4>2. QED
        BY <3>1, <4>1
    <3>2. CASE i # n /\ IsSet(b, i)
      BY <1>2, <3>2
    <3>3. CASE i = n
      BY <3>3
    <3>4. QED
      BY <3>1, <3>2, <3>3
  <2> HIDE DEF E, S, V
  <2>2. QED
    BY <2>1
<1>4. H \in [S \X [S -> V] -> V]
  <2> HIDE DEF E, S, V
  <2>1. QED
    BY <1>3
<1>5. ASSUME NEW i \in S, NEW f \in [S -> V], NEW g \in [S -> V],
             \A j \in S : d[j] < d[i] => f[j] = g[j]
      PROVE  E(f, i) = E(g, i)
  <2> HIDE DEF S, V
  <2>1. i # n => f[i + 1] = g[i + 1]
    BY <1>2, <1>5
  <2>2. i # n /\ ~IsSet(b, i) => f[ends[i]] = g[ends[i]]
    BY <1>2, <1>5
  <2>3. QED
    BY <2>1, <2>2, Zenon
<1>6. \E f \in [S -> V] : \A i \in S : f[i] = E(f, i)
  <2>1. <<>> \in V
    OBVIOUS
  <2> HIDE DEF E, S, V, H
  <2>2. \A i \in S : \A f, g \in [S -> V] :
          (\A j \in S : d[j] < d[i] => f[j] = g[j]) => H[<<i, f>>] = H[<<i, g>>]
    BY <1>3, <1>5
  <2>3. ByRank(S, V, n, d, H)
    BY <1>1, <1>4, <2>1, <2>2 DEF ByRank
  <2>4. \E f \in [S -> V] : \A i \in S : f[i] = H[<<i, f>>]
    BY <2>3, RecursiveFunction
  <2>5. QED
    BY <1>3, <2>4
<1>7. \E f : f = [i \in S |-> E(f, i)]
  <2> HIDE DEF E, S, V
  <2>1. PICK f \in [S -> V] : \A i \in S : f[i] = E(f, i)
    BY <1>6
  <2>2. f = [i \in S |-> E(f, i)]
    BY <2>1
  <2>3. QED
    BY <2>2
<1>8. RangesFrom(b, n) = CHOOSE f : f = [i \in S |-> E(f, i)]
  BY DEF RangesFrom, ends
<1> DEFINE rest == RangesFrom(b, n)
<1>9. rest = [i \in S |-> E(rest, i)]
  <2> HIDE DEF S, E
  <2>1. QED
    BY <1>7, <1>8
<1> HIDE DEF rest
<1>10. \A i \in S : rest[i] = E(rest, i)
  <2> HIDE DEF S, E
  <2>1. QED
    BY <1>9
<1>11. rest \in [S -> V]
  <2> DEFINE T == {i \in S : rest[i] \in V}
  <2>1. ASSUME NEW i \in S, \A j \in i + 1 .. n : j \in T
        PROVE  rest[i] \in V
    <3>1. CASE i # n /\ ~IsSet(b, i)
      <4>1. ends[i] \in i + 1 .. n
        <5>1. ends[i] \in S /\ d[ends[i]] < d[i]
          BY <1>2, <3>1
        <5>2. d[ends[i]] = n - ends[i] /\ d[i] = n - i
          BY <1>1, <5>1
        <5>3. QED
          BY <5>1, <5>2
      <4>2. << <<i, ends[i] - i>> >> \in V /\ rest[ends[i]] \in V
        BY <1>2, <2>1, <3>1, <4>1
      <4>3. rest[i] = << <<i, ends[i] - i>> >> \o rest[ends[i]]
        BY <1>10, <3>1
      <4>4. QED
        BY <4>2, <4>3
    <3>2. CASE i # n /\ IsSet(b, i)
      <4>1. i + 1 \in i + 1 .. n
        BY <3>2
      <4>2. QED
        BY <1>10, <2>1, <3>2, <4>1
    <3>3. CASE i = n
      <4>1. E(rest, i) = <<>>
        BY <3>3, Zenon
      <4>2. rest[i] = <<>>
        BY <1>10, <4>1, Zenon
      <4>3. QED
        BY <4>2
    <3>4. QED
      BY <3>1, <3>2, <3>3
  <2>2. \A i \in 0 .. n : (\A j \in i + 1 .. n : j \in T) => i \in T
    BY <2>1
  <2>3. \A i \in 0 .. n : i \in T
    <3> HIDE DEF T
    <3>1. QED
      BY <2>2, DownInduction
  <2>4. \A i \in S : rest[i] \in V
    BY <2>3
  <2> HIDE DEF S, V, E
  <2>5. QED
    BY <1>9, <2>4
<1>12. QED
  BY <1>10, <1>11 DEF rest, ends

\* A run of clear bits that cannot be extended, unless to the left of i.
RunFrom(b, n, i, r) ==
  /\ r \in Pairs /\ r[1] >= i /\ r[2] > 0 /\ r[1] + r[2] <= n
  /\ \A c \in r[1] .. r[1] + r[2] - 1 : ~IsSet(b, c)
  /\ r[1] = i \/ IsSet(b, r[1] - 1)
  /\ r[1] + r[2] = n \/ IsSet(b, r[1] + r[2])

\* The ranges of q are the runs from i on, in order, and leave out nothing.
RunsFrom(b, n, i, q) ==
  /\ q \in Seq(Pairs)
  /\ \A k \in 1 .. Len(q) : RunFrom(b, n, i, q[k])
  /\ \A j, k \in 1 .. Len(q) : j < k => q[j][1] < q[k][1]
  /\ \A c \in i .. n - 1 : ~IsSet(b, c) =>
       \E k \in 1 .. Len(q) : q[k][1] <= c /\ c < q[k][1] + q[k][2]

\* A range in front of a sequence.
LEMMA FrontFacts ==
  ASSUME NEW r \in Pairs, NEW q \in Seq(Pairs)
  PROVE  /\ <<r>> \o q \in Seq(Pairs) /\ Len(<<r>> \o q) = Len(q) + 1
         /\ (<<r>> \o q)[1] = r
         /\ \A k \in 1 .. Len(q) : (<<r>> \o q)[k + 1] = q[k]
         /\ \A k \in 2 .. Len(q) + 1 : k - 1 \in 1 .. Len(q) /\ (<<r>> \o q)[k] = q[k - 1]
<1>1. Len(q) \in Nat /\ <<r>> \in Seq(Pairs) /\ Len(<<r>>) = 1
  OBVIOUS
<1>2. /\ <<r>> \o q \in Seq(Pairs) /\ Len(<<r>> \o q) = Len(q) + 1
      /\ (<<r>> \o q)[1] = r
  BY <1>1
<1>3. \A k \in 2 .. Len(q) + 1 : k - 1 \in 1 .. Len(q) /\ (<<r>> \o q)[k] = q[k - 1]
  BY <1>1
<1>4. ASSUME NEW k \in 1 .. Len(q) PROVE (<<r>> \o q)[k + 1] = q[k]
  <2>1. k + 1 \in 2 .. Len(q) + 1 /\ (k + 1) - 1 = k
    BY <1>1
  <2>2. (<<r>> \o q)[k + 1] = q[(k + 1) - 1]
    BY <1>3, <2>1
  <2>3. QED
    BY <2>1, <2>2
<1>5. QED
  BY <1>2, <1>3, <1>4

\* A run from i on, before the runs from its end on.
LEMMA FrontRun ==
  ASSUME NEW b, NEW n \in Nat, NEW i \in 0 .. n - 1, NEW e \in i + 1 .. n,
         \A c \in i .. e - 1 : ~IsSet(b, c), e < n => IsSet(b, e),
         NEW q, RunsFrom(b, n, e, q)
  PROVE  RunsFrom(b, n, i, << <<i, e - i>> >> \o q)
<1> DEFINE r == <<i, e - i>>
           s == <<r>> \o q
<1>1. r \in Pairs /\ r[1] = i /\ r[2] = e - i /\ r[1] + r[2] = e
  BY DEF Pairs
<1>2. q \in Seq(Pairs)
  BY DEF RunsFrom
<1> HIDE DEF r
<1>3. /\ s \in Seq(Pairs) /\ Len(s) = Len(q) + 1 /\ Len(q) \in Nat /\ s[1] = r
      /\ \A k \in 1 .. Len(q) : s[k + 1] = q[k]
      /\ \A k \in 2 .. Len(q) + 1 : k - 1 \in 1 .. Len(q) /\ s[k] = q[k - 1]
  BY <1>1, <1>2, FrontFacts
<1> HIDE DEF s
<1>4. RunFrom(b, n, i, r)
  BY <1>1 DEF RunFrom
<1>5. ASSUME NEW k \in 1 .. Len(q)
      PROVE  RunFrom(b, n, i, q[k]) /\ i < q[k][1]
  <2>1. RunFrom(b, n, e, q[k])
    BY DEF RunsFrom
  <2>2. /\ q[k] \in Pairs /\ q[k][1] \in Nat /\ q[k][2] \in Nat
        /\ q[k][1] >= e /\ q[k][2] > 0 /\ q[k][1] + q[k][2] <= n
        /\ \A c \in q[k][1] .. q[k][1] + q[k][2] - 1 : ~IsSet(b, c)
        /\ q[k][1] = e \/ IsSet(b, q[k][1] - 1)
        /\ q[k][1] + q[k][2] = n \/ IsSet(b, q[k][1] + q[k][2])
    BY <2>1 DEF RunFrom, Pairs
  <2>3. ~IsSet(b, q[k][1])
    <3>1. q[k][1] \in q[k][1] .. q[k][1] + q[k][2] - 1
      BY <2>2
    <3>2. QED
      BY <2>2, <3>1
  <2>4. q[k][1] # e
    BY <2>2, <2>3
  <2>5. QED
    BY <2>2, <2>4 DEF RunFrom
<1>6. ASSUME NEW k \in 1 .. Len(s) PROVE RunFrom(b, n, i, s[k])
  <2>1. CASE k = 1
    BY <1>3, <1>4, <2>1
  <2>2. CASE k # 1
    <3>1. k - 1 \in 1 .. Len(q) /\ s[k] = q[k - 1]
      BY <1>3, <2>2
    <3>2. QED
      BY <1>5, <3>1
  <2>3. QED
    BY <2>1, <2>2
<1>7. ASSUME NEW j \in 1 .. Len(s), NEW k \in 1 .. Len(s), j < k
      PROVE  s[j][1] < s[k][1]
  <2>1. k - 1 \in 1 .. Len(q) /\ s[k] = q[k - 1]
    BY <1>3, <1>7
  <2>2. CASE j = 1
    BY <1>1, <1>3, <1>5, <2>1, <2>2
  <2>3. CASE j # 1
    <3>1. j - 1 \in 1 .. Len(q) /\ s[j] = q[j - 1] /\ j - 1 < k - 1
      BY <1>3, <1>7, <2>3
    <3>2. QED
      BY <2>1, <3>1 DEF RunsFrom
  <2>4. QED
    BY <2>2, <2>3
<1>8. ASSUME NEW c \in i .. n - 1, ~IsSet(b, c)
      PROVE  \E k \in 1 .. Len(s) : s[k][1] <= c /\ c < s[k][1] + s[k][2]
  <2>1. CASE c < e
    <3>1. 1 \in 1 .. Len(s) /\ s[1][1] <= c /\ c < s[1][1] + s[1][2]
      BY <1>1, <1>3, <2>1
    <3>2. QED
      BY <3>1
  <2>2. CASE c >= e
    <3>1. c \in e .. n - 1
      BY <2>2
    <3>2. PICK k \in 1 .. Len(q) : q[k][1] <= c /\ c < q[k][1] + q[k][2]
      BY <1>8, <3>1 DEF RunsFrom
    <3>3. k + 1 \in 1 .. Len(s) /\ s[k + 1] = q[k]
      BY <1>3
    <3>4. QED
      BY <3>2, <3>3
  <2>3. QED
    BY <2>1, <2>2
<1>9. RunsFrom(b, n, i, s)
  BY <1>3, <1>6, <1>7, <1>8 DEF RunsFrom
<1>10. QED
  BY <1>9 DEF s, r

\* missing_ranges returns the runs of clear bits, in order.
LEMMA RangesFromFacts ==
  ASSUME NEW b, NEW n \in Nat
  PROVE  \A i \in 0 .. n : RunsFrom(b, n, i, RangesFrom(b, n)[i])
<1> DEFINE rest == RangesFrom(b, n)
           ends == RunEnds(b, n)
           T == {i \in 0 .. n : RunsFrom(b, n, i, rest[i])}
<1>1. /\ rest \in [0 .. n -> Seq(Pairs)]
      /\ \A i \in 0 .. n : rest[i] =
              IF i = n THEN <<>>
              ELSE IF IsSet(b, i) THEN rest[i + 1]
              ELSE << <<i, ends[i] - i>> >> \o rest[ends[i]]
  BY RangesFromEquation
<1> HIDE DEF rest
<1>2. ASSUME NEW i \in 0 .. n, \A j \in i + 1 .. n : j \in T
      PROVE  RunsFrom(b, n, i, rest[i])
  <2>1. CASE i = n
    <3>1. rest[i] = <<>> /\ <<>> \in Seq(Pairs) /\ Len(<<>>) = 0
      BY <1>1, <2>1
    <3>2. QED
      BY <2>1, <3>1 DEF RunsFrom
  <2>2. CASE i # n /\ IsSet(b, i)
    <3> DEFINE q == rest[i + 1]
    <3>1. i + 1 \in i + 1 .. n /\ i \in Nat /\ (i + 1) - 1 = i
      BY <2>2
    <3>2. rest[i] = q /\ RunsFrom(b, n, i + 1, q)
      BY <1>1, <1>2, <2>2, <3>1
    <3> HIDE DEF q
    <3>3. ASSUME NEW k \in 1 .. Len(q) PROVE RunFrom(b, n, i, q[k])
      <4>1. RunFrom(b, n, i + 1, q[k])
        BY <3>2 DEF RunsFrom
      <4>2. q[k] \in Pairs /\ q[k][1] \in Nat /\ q[k][1] >= i + 1
        BY <4>1 DEF RunFrom, Pairs
      <4>3. q[k][1] = i + 1 => IsSet(b, q[k][1] - 1)
        BY <2>2, <3>1
      <4>4. q[k][1] >= i
        BY <3>1, <4>2
      <4>5. QED
        BY <4>1, <4>3, <4>4 DEF RunFrom
    <3>4. \A c \in i .. n - 1 : ~IsSet(b, c) => c \in i + 1 .. n - 1
      BY <2>2
    <3>5. RunsFrom(b, n, i, q)
      BY <3>2, <3>3, <3>4 DEF RunsFrom
    <3>6. QED
      BY <3>2, <3>5
  <2>3. CASE i # n /\ ~IsSet(b, i)
    <3>1. /\ ends[i] \in i .. n
          /\ \A c \in i .. ends[i] - 1 : ~IsSet(b, c)
          /\ ends[i] < n => IsSet(b, ends[i])
      BY RunEndsFacts
    <3> HIDE DEF ends
    <3>2. ends[i] # i /\ i \in 0 .. n - 1
      BY <2>3, <3>1
    <3>3. ends[i] \in i + 1 .. n
      BY <3>1, <3>2
    <3>4. RunsFrom(b, n, ends[i], rest[ends[i]])
      BY <1>2, <3>3
    <3>5. rest[i] = << <<i, ends[i] - i>> >> \o rest[ends[i]]
      BY <1>1, <2>3
    <3>6. QED
      BY <3>1, <3>2, <3>3, <3>4, <3>5, FrontRun
  <2>4. QED
    BY <2>1, <2>2, <2>3
<1>3. \A i \in 0 .. n : (\A j \in i + 1 .. n : j \in T) => i \in T
  BY <1>2
<1>4. \A i \in 0 .. n : i \in T
  <2> HIDE DEF T
  <2>1. QED
    BY <1>3, DownInduction
<1>5. QED
  BY <1>4 DEF rest

\* The byte of a chunk.
LEMMA ByteFacts ==
  ASSUME NEW c \in Nat
  PROVE  c \div 8 \in Nat /\ c % 8 \in Byte /\ c = 8 * (c \div 8) + (c % 8)
BY DEF Byte

\* Where a chunk below n has its byte.
LEMMA ByteInBitmap ==
  ASSUME NEW n \in Nat, NEW c \in 0 .. n - 1
  PROVE  c \div 8 \in 0 .. BitmapLen(n) - 1
BY DEF BitmapLen

\* The bitmap of a set is one of its chunks.
LEMMA IsSetFacts ==
  ASSUME NEW marked, NEW n \in Nat, NEW c \in 0 .. n - 1
  PROVE  IsSet(Bitmap(marked, n), c) <=> c \in marked
<1>1. c \div 8 \in 0 .. BitmapLen(n) - 1
  BY ByteInBitmap
<1>2. c % 8 \in Byte /\ 8 * (c \div 8) + (c % 8) = c
  BY ByteFacts
<1>3. /\ DOMAIN Bitmap(marked, n) = 0 .. BitmapLen(n) - 1
      /\ Bitmap(marked, n)[c \div 8] = {b \in Byte : 8 * (c \div 8) + b \in marked}
  BY <1>1 DEF Bitmap
<1> DEFINE i == c \div 8
           m == c % 8
<1> HIDE DEF i, m
<1>4. QED
  BY <1>1, <1>2, <1>3 DEF IsSet

\* create and set.
LEMMA MarkingFacts ==
  ASSUME NEW marked, NEW n \in Nat, NEW c \in Nat
  PROVE  /\ Bitmap({}, n) = Blank(n)
         /\ SetBit(Bitmap(marked, n), c) = Bitmap(marked \cup {c}, n)
<1>1. Bitmap({}, n) = Blank(n)
  BY DEF Bitmap, Blank
<1> DEFINE D == 0 .. BitmapLen(n) - 1
           Bits(S, i) == {b \in Byte : 8 * i + b \in S}
<1>2. BitmapLen(n) \in Int
  BY DEF BitmapLen
<1>3. ASSUME NEW i \in D
      PROVE  Bits(marked \cup {c}, i) = IF i = c \div 8 THEN Bits(marked, i) \cup {c % 8} ELSE Bits(marked, i)
  <2>1. i \in Nat
    BY <1>2
  <2>2. c \div 8 \in Nat /\ c % 8 \in Byte /\ c = 8 * (c \div 8) + (c % 8)
    BY ByteFacts
  <2> DEFINE q == c \div 8
             m == c % 8
  <2>3. q \in Nat /\ m \in Byte /\ c = 8 * q + m
    BY <2>2
  <2> HIDE DEF q, m
  <2>4. ASSUME NEW b \in Byte PROVE 8 * i + b = c <=> i = q /\ b = m
    BY <2>1, <2>3 DEF Byte
  <2>5. Bits(marked \cup {c}, i) = IF i = q THEN Bits(marked, i) \cup {m} ELSE Bits(marked, i)
    BY <2>3, <2>4
  <2>6. QED
    BY <2>5 DEF q, m
<1>4. /\ Bitmap(marked, n) = [i \in D |-> Bits(marked, i)]
      /\ Bitmap(marked \cup {c}, n) = [i \in D |-> Bits(marked \cup {c}, i)]
  BY DEF Bitmap
<1>5. SetBit(Bitmap(marked, n), c) =
        [i \in D |-> IF i = c \div 8 THEN Bits(marked, i) \cup {c % 8} ELSE Bits(marked, i)]
  <2> HIDE DEF D, Bits
  <2>1. DOMAIN Bitmap(marked, n) = D /\ \A i \in D : Bitmap(marked, n)[i] = Bits(marked, i)
    BY <1>4
  <2>2. QED
    BY <2>1 DEF SetBit
<1>6. SetBit(Bitmap(marked, n), c) = Bitmap(marked \cup {c}, n)
  <2> HIDE DEF D, Bits
  <2>1. QED
    BY <1>3, <1>4, <1>5
<1>7. QED
  BY <1>1, <1>6

\* is_complete, over its whole bytes and the mask of the last one.
LEMMA CompleteFacts ==
  ASSUME NEW marked, NEW n \in Nat
  PROVE  Complete(Bitmap(marked, n), n) <=> 0 .. n - 1 \subseteq marked
<1> DEFINE full == n \div 8
           left == n % 8
           Bits(i) == {b \in Byte : 8 * i + b \in marked}
<1>1. full \in Nat /\ left \in Byte /\ n = 8 * full + left
  BY ByteFacts
<1>2. /\ BitmapLen(n) = IF left = 0 THEN full ELSE full + 1
  BY DEF BitmapLen
<1>3. /\ DOMAIN Bitmap(marked, n) = 0 .. BitmapLen(n) - 1
      /\ \A i \in 0 .. BitmapLen(n) - 1 : Bitmap(marked, n)[i] = Bits(i)
  BY DEF Bitmap
<1>4. Complete(Bitmap(marked, n), n) <=>
        /\ \A i \in 0 .. full - 1 : Bitmap(marked, n)[i] = Byte
        /\ left # 0 /\ full \in DOMAIN Bitmap(marked, n) => 0 .. left - 1 \subseteq Bitmap(marked, n)[full]
  BY DEF Complete
<1> HIDE DEF full, left
<1>5. ASSUME 0 .. n - 1 \subseteq marked
      PROVE  Complete(Bitmap(marked, n), n)
  <2>1. ASSUME NEW i \in 0 .. full - 1 PROVE Bitmap(marked, n)[i] = Byte
    <3>1. \A b \in Byte : 8 * i + b \in 0 .. n - 1
      BY <1>1 DEF Byte
    <3>2. Bits(i) = Byte
      BY <1>5, <3>1
    <3>3. i \in 0 .. BitmapLen(n) - 1
      BY <1>1, <1>2
    <3>4. QED
      BY <1>3, <3>2, <3>3
  <2>2. ASSUME left # 0, NEW b \in 0 .. left - 1 PROVE b \in Bitmap(marked, n)[full]
    <3>1. b \in Byte /\ 8 * full + b \in 0 .. n - 1
      BY <1>1 DEF Byte
    <3>2. full \in 0 .. BitmapLen(n) - 1
      BY <1>1, <1>2, <2>2
    <3>3. QED
      BY <1>3, <1>5, <3>1, <3>2
  <2>3. QED
    BY <1>4, <2>1, <2>2
<1>6. ASSUME Complete(Bitmap(marked, n), n), NEW c \in 0 .. n - 1
      PROVE  c \in marked
  <2> DEFINE q == c \div 8
             m == c % 8
  <2>1. q \in Nat /\ m \in Byte /\ c = 8 * q + m
    BY ByteFacts
  <2>2. q \in 0 .. BitmapLen(n) - 1
    BY ByteInBitmap
  <2> HIDE DEF q, m
  <2>3. m \in Bitmap(marked, n)[q]
    <3>1. CASE q < full
      BY <1>1, <1>4, <1>6, <2>1, <3>1
    <3>2. CASE q >= full
      <4>1. q = full /\ left # 0 /\ m \in 0 .. left - 1
        BY <1>1, <2>1, <3>2 DEF Byte
      <4>2. QED
        BY <1>3, <1>4, <1>6, <2>2, <4>1
    <3>3. QED
      BY <1>1, <2>1, <3>1, <3>2
  <2>4. QED
    BY <1>3, <2>1, <2>2, <2>3
<1>7. QED
  BY <1>5, <1>6

\* Two runs of missing chunks do not touch.
LEMMA RunsApart ==
  ASSUME NEW marked, NEW n \in Nat,
         NEW r \in MissingRuns(marked, n), NEW s \in MissingRuns(marked, n),
         r[1] # s[1]
  PROVE  r[1] + r[2] <= s[1] \/ s[1] + s[2] <= r[1]
<1>1. ASSUME NEW u \in MissingRuns(marked, n), NEW v \in MissingRuns(marked, n),
             u[1] < v[1]
      PROVE  u[1] + u[2] <= v[1]
  <2>1. /\ u[1] \in 0 .. n - 1 /\ u[2] \in 1 .. n
        /\ v[1] \in 0 .. n - 1 /\ v[2] \in 1 .. n
        /\ u[1] .. u[1] + u[2] - 1 \cap marked = {}
        /\ v[1] - 1 \in marked \cup {-1}
    BY DEF MissingRuns
  <2>2. v[1] - 1 \in marked
    BY <1>1, <2>1
  <2>3. v[1] - 1 \notin u[1] .. u[1] + u[2] - 1
    BY <2>1, <2>2
  <2>4. QED
    BY <1>1, <2>1, <2>3
<1>2. r[1] \in Int /\ s[1] \in Int
  BY DEF MissingRuns
<1>3. r[1] < s[1] \/ s[1] < r[1]
  BY <1>2
<1>4. QED
  BY <1>1, <1>3

\* Of two maximal runs, one of which holds the start of the other, there is one.
LEMMA SameRun ==
  ASSUME NEW marked, NEW n \in Nat,
         NEW r \in MissingRuns(marked, n), NEW s \in MissingRuns(marked, n),
         s[1] <= r[1], r[1] < s[1] + s[2]
  PROVE  s = r
<1>1. ASSUME NEW u \in MissingRuns(marked, n)
      PROVE  /\ u[1] \in 0 .. n - 1 /\ u[2] \in 1 .. n /\ u = <<u[1], u[2]>>
             /\ u[1] + u[2] <= n /\ \A c \in u[1] .. u[1] + u[2] - 1 : c \notin marked
             /\ u[1] - 1 \in marked \cup {-1} /\ u[1] + u[2] \in marked \cup {n}
  BY DEF MissingRuns
<1>2. s[1] = r[1]
  <2>1. SUFFICES ASSUME s[1] < r[1] PROVE FALSE
    BY <1>1
  <2>2. r[1] - 1 \in s[1] .. s[1] + s[2] - 1 /\ r[1] - 1 # -1
    BY <1>1, <2>1
  <2>3. QED
    BY <1>1, <2>2
<1>3. ASSUME NEW u \in MissingRuns(marked, n), NEW v \in MissingRuns(marked, n),
             u[1] = v[1], u[2] < v[2]
      PROVE  FALSE
  <2>1. u[1] + u[2] \in v[1] .. v[1] + v[2] - 1 /\ u[1] + u[2] # n
    BY <1>1, <1>3
  <2>2. QED
    BY <1>1, <2>1
<1>4. s[2] = r[2]
  BY <1>1, <1>2, <1>3
<1>5. QED
  BY <1>1, <1>2, <1>4

\* missing_ranges returns the maximal runs outside of the set, in order.
LEMMA MissingRangesFacts ==
  ASSUME NEW marked, NEW n \in Nat
  PROVE  LET q == MissingRangesOf(Bitmap(marked, n), n)
         IN  /\ q \in Seq(Pairs) /\ ToSet(q) = MissingRuns(marked, n)
             /\ \A j, k \in 1 .. Len(q) : j < k => q[j][1] < q[k][1]
             /\ \A c \in 0 .. n - 1 : c \notin marked =>
                  \E k \in 1 .. Len(q) : q[k][1] <= c /\ c < q[k][1] + q[k][2]
<1> DEFINE b == Bitmap(marked, n)
           q == MissingRangesOf(b, n)
<1>1. \A c \in 0 .. n - 1 : IsSet(b, c) <=> c \in marked
  BY IsSetFacts
<1>2. RunsFrom(b, n, 0, q)
  BY RangesFromFacts DEF MissingRangesOf
<1> HIDE DEF b, q
<1>3. ASSUME NEW k \in 1 .. Len(q)
      PROVE  q[k] \in MissingRuns(marked, n)
  <2> DEFINE s == q[k][1]
             l == q[k][2]
  <2>1. /\ q[k] \in Pairs /\ s >= 0 /\ l > 0 /\ s + l <= n
        /\ \A c \in s .. s + l - 1 : ~IsSet(b, c)
        /\ s = 0 \/ IsSet(b, s - 1)
        /\ s + l = n \/ IsSet(b, s + l)
    BY <1>2 DEF RunsFrom, RunFrom
  <2>2. s \in Nat /\ l \in Nat /\ q[k] = <<s, l>>
    BY <2>1 DEF Pairs
  <2> HIDE DEF s, l
  <2>3. s \in 0 .. n - 1 /\ l \in 1 .. n
    BY <2>1, <2>2
  <2>4. ASSUME NEW c \in s .. s + l - 1 PROVE c \notin marked
    <3>1. c \in 0 .. n - 1
      BY <2>1, <2>2
    <3>2. QED
      BY <1>1, <2>1, <3>1
  <2>5. s - 1 \in marked \cup {-1}
    <3>1. CASE s = 0
      BY <3>1
    <3>2. CASE s # 0
      <4>1. s - 1 \in 0 .. n - 1
        BY <2>3, <3>2
      <4>2. QED
        BY <1>1, <2>1, <3>2, <4>1
    <3>3. QED
      BY <3>1, <3>2
  <2>6. s + l \in marked \cup {n}
    <3>1. CASE s + l = n
      BY <3>1
    <3>2. CASE s + l # n
      <4>1. s + l \in 0 .. n - 1
        BY <2>1, <2>2, <3>2
      <4>2. QED
        BY <1>1, <2>1, <3>2, <4>1
    <3>3. QED
      BY <3>1, <3>2
  <2>7. /\ q[k] \in (0 .. n - 1) \X (1 .. n) /\ q[k][1] = s /\ q[k][2] = l
        /\ s .. s + l - 1 \cap marked = {}
    BY <2>2, <2>3, <2>4
  <2>8. QED
    BY <2>1, <2>5, <2>6, <2>7 DEF MissingRuns
<1>4. ASSUME NEW c \in 0 .. n - 1, c \notin marked
      PROVE  \E k \in 1 .. Len(q) : q[k][1] <= c /\ c < q[k][1] + q[k][2]
  <2>1. ~IsSet(b, c)
    BY <1>1, <1>4
  <2>2. QED
    BY <1>2, <2>1 DEF RunsFrom
<1>5. ASSUME NEW r \in MissingRuns(marked, n)
      PROVE  \E k \in 1 .. Len(q) : q[k] = r
  <2>1. r[1] \in 0 .. n - 1 /\ r[2] \in 1 .. n /\ r = <<r[1], r[2]>>
    BY DEF MissingRuns
  <2>2. r[1] \notin marked
    <3>1. r[1] \in r[1] .. r[1] + r[2] - 1
      BY <2>1
    <3>2. QED
      BY <3>1 DEF MissingRuns
  <2>3. PICK k \in 1 .. Len(q) : q[k][1] <= r[1] /\ r[1] < q[k][1] + q[k][2]
    BY <1>4, <2>1, <2>2
  <2>4. q[k] \in MissingRuns(marked, n)
    BY <1>3
  <2>5. q[k] = r
    BY <2>3, <2>4, SameRun
  <2>6. QED
    BY <2>5
<1>6. q \in Seq(Pairs) /\ \A j, k \in 1 .. Len(q) : j < k => q[j][1] < q[k][1]
  BY <1>2 DEF RunsFrom
<1>7. ToSet(q) = MissingRuns(marked, n)
  <2>1. DOMAIN q = 1 .. Len(q)
    BY <1>6
  <2>2. QED
    BY <1>3, <1>5, <2>1 DEF ToSet
<1>8. QED
  BY <1>4, <1>6, <1>7 DEF q, b

\* The sums of the counts obey their equation.
LEMMA CountsEquation ==
  ASSUME NEW q \in Seq(Pairs)
  PROVE  /\ CountsOf(q)[0] = 0
         /\ \A k \in 1 .. Len(q) : CountsOf(q)[k] = CountsOf(q)[k - 1] + q[k][2]
<1> DEFINE n == Len(q)
           S == 0 .. n
           d == [k \in S |-> k]
           E(f, k) == IF k = 0 THEN 0 ELSE f[k - 1] + q[k][2]
           H == [p \in S \X [S -> Nat] |-> E(p[2], p[1])]
<1>1. n \in Nat /\ DOMAIN q = 1 .. n /\ \A k \in 1 .. n : q[k] \in Pairs
  OBVIOUS
<1> HIDE DEF n
<1>2. \A k \in 1 .. n : q[k][2] \in Nat /\ k - 1 \in S
  BY <1>1 DEF Pairs
<1>3. d \in [S -> 0 .. n] /\ \A k \in S : d[k] = k
  OBVIOUS
<1>4. \A k \in S : k = 0 \/ k \in 1 .. n
  BY <1>1
<1>5. ASSUME NEW k \in S, NEW f \in [S -> Nat]
      PROVE  E(f, k) \in Nat /\ H[<<k, f>>] = E(f, k)
  <2>1. E(f, k) \in Nat
    <3>1. CASE k = 0
      BY <3>1
    <3>2. CASE k \in 1 .. n
      <4>1. f[k - 1] \in Nat /\ q[k][2] \in Nat
        <5> HIDE DEF S
        <5>1. QED
          BY <1>2, <3>2
      <4>2. QED
        BY <4>1
    <3>3. QED
      BY <1>4, <3>1, <3>2
  <2> HIDE DEF E, S
  <2>2. QED
    BY <2>1
<1>6. H \in [S \X [S -> Nat] -> Nat]
  <2> HIDE DEF E, S
  <2>1. QED
    BY <1>5
<1>7. ASSUME NEW k \in S, NEW f \in [S -> Nat], NEW g \in [S -> Nat],
             \A j \in S : d[j] < d[k] => f[j] = g[j]
      PROVE  E(f, k) = E(g, k)
  <2>1. k # 0 => k - 1 \in S /\ d[k - 1] < d[k]
    BY <1>1, <1>3
  <2>2. k # 0 => f[k - 1] = g[k - 1]
    BY <1>7, <2>1
  <2>3. QED
    BY <2>2, Zenon
<1>8. \E f \in [S -> Nat] : \A k \in S : f[k] = E(f, k)
  <2> HIDE DEF E, S, H, d
  <2>1. ASSUME NEW k \in S, NEW f \in [S -> Nat], NEW g \in [S -> Nat],
               \A j \in S : d[j] < d[k] => f[j] = g[j]
        PROVE  H[<<k, f>>] = H[<<k, g>>]
    <3>1. H[<<k, f>>] = E(f, k) /\ H[<<k, g>>] = E(g, k)
      BY <1>5
    <3>2. E(f, k) = E(g, k)
      BY <1>7, <2>1
    <3>3. QED
      BY <3>1, <3>2
  <2>2. ByRank(S, Nat, n, d, H)
    BY <1>1, <1>3, <1>6, <2>1 DEF ByRank
  <2>3. \E f \in [S -> Nat] : \A k \in S : f[k] = H[<<k, f>>]
    BY <2>2, RecursiveFunction
  <2>4. QED
    BY <1>5, <2>3
<1>9. \E f : f = [k \in S |-> E(f, k)]
  <2> HIDE DEF E, S
  <2>1. PICK f \in [S -> Nat] : \A k \in S : f[k] = E(f, k)
    BY <1>8
  <2>2. f = [k \in S |-> E(f, k)]
    BY <2>1
  <2>3. QED
    BY <2>2
<1>10. CountsOf(q) = CHOOSE f : f = [k \in S |-> E(f, k)]
  BY DEF CountsOf, n
<1> DEFINE sum == CountsOf(q)
<1>11. sum = [k \in S |-> E(sum, k)]
  <2> HIDE DEF S, E
  <2>1. QED
    BY <1>9, <1>10
<1> HIDE DEF sum
<1>12. \A k \in S : sum[k] = E(sum, k)
  <2> HIDE DEF S, E
  <2>1. QED
    BY <1>11
<1>13. sum[0] = 0
  BY <1>1, <1>12
<1>14. ASSUME NEW k \in 1 .. n PROVE sum[k] = sum[k - 1] + q[k][2]
  <2>1. k \in S /\ k # 0
    BY <1>1
  <2>2. sum[k] = E(sum, k)
    BY <1>12, <2>1
  <2>3. QED
    BY <2>1, <2>2, Zenon
<1>15. QED
  BY <1>13, <1>14 DEF sum, n

\* They count the chunks in the ranges.
LEMMA ReceivedFacts ==
  ASSUME NEW marked, NEW n \in Nat
  PROVE  ChunksReceived(Bitmap(marked, n), n) = Cardinality(marked \cap 0 .. n - 1)
<1> DEFINE q == MissingRangesOf(Bitmap(marked, n), n)
           sum == CountsOf(q)
           Cover(k) == {c \in 0 .. n - 1 : \E j \in 1 .. k : q[j][1] <= c /\ c < q[j][1] + q[j][2]}
           T == {k \in Nat : k <= Len(q) => IsFiniteSet(Cover(k)) /\ Cardinality(Cover(k)) = sum[k]}
<1>1. /\ q \in Seq(Pairs) /\ ToSet(q) = MissingRuns(marked, n)
      /\ \A j, k \in 1 .. Len(q) : j < k => q[j][1] < q[k][1]
      /\ \A c \in 0 .. n - 1 : c \notin marked =>
           \E k \in 1 .. Len(q) : q[k][1] <= c /\ c < q[k][1] + q[k][2]
  BY MissingRangesFacts
<1> HIDE DEF q
<1>2. sum[0] = 0 /\ \A k \in 1 .. Len(q) : sum[k] = sum[k - 1] + q[k][2]
  BY <1>1, CountsEquation
<1>3. Len(q) \in Nat /\ DOMAIN q = 1 .. Len(q)
  BY <1>1
<1>4. ASSUME NEW k \in 1 .. Len(q)
      PROVE  /\ q[k] \in MissingRuns(marked, n) /\ q[k][1] \in 0 .. n - 1 /\ q[k][2] \in 1 .. n
             /\ q[k][1] + q[k][2] <= n
             /\ \A c \in q[k][1] .. q[k][1] + q[k][2] - 1 : c \notin marked
  <2>1. q[k] \in MissingRuns(marked, n)
    BY <1>1, <1>3 DEF ToSet
  <2>2. QED
    BY <2>1 DEF MissingRuns
<1> HIDE DEF sum
<1>5. 0 \in T
  <2>1. Cover(0) = {}
    OBVIOUS
  <2>2. QED
    BY <1>2, <2>1, FS_EmptySet
<1>6. ASSUME NEW k \in Nat, k \in T PROVE k + 1 \in T
  <2>1. SUFFICES ASSUME k + 1 <= Len(q)
        PROVE  IsFiniteSet(Cover(k + 1)) /\ Cardinality(Cover(k + 1)) = sum[k + 1]
    BY <1>6
  <2> DEFINE s == q[k + 1][1]
             l == q[k + 1][2]
             new == s .. s + l - 1
  <2>2. IsFiniteSet(Cover(k)) /\ Cardinality(Cover(k)) = sum[k]
    <3>1. k <= Len(q)
      BY <1>3, <2>1
    <3> HIDE DEF Cover
    <3>2. QED
      BY <1>6, <3>1
  <2>3. k + 1 \in 1 .. Len(q) /\ (k + 1) - 1 = k
    BY <1>3, <2>1
  <2>4. s \in 0 .. n - 1 /\ l \in 1 .. n /\ s + l <= n /\ sum[k + 1] = sum[k] + l
    BY <1>2, <1>4, <2>3
  <2>5. Cover(k + 1) = Cover(k) \cup new
    <3>1. \A j \in 1 .. k + 1 : j = k + 1 \/ j \in 1 .. k
      OBVIOUS
    <3>2. \A j \in 1 .. k : j \in 1 .. k + 1
      OBVIOUS
    <3>3. k + 1 \in 1 .. k + 1
      OBVIOUS
    <3>4. \A c : c \in new <=> c \in 0 .. n - 1 /\ s <= c /\ c < s + l
      BY <2>4
    <3> HIDE DEF new
    <3>5. \A c : c \in Cover(k + 1) <=> c \in Cover(k) \/ c \in new
      BY <3>1, <3>2, <3>3, <3>4
    <3> HIDE DEF Cover
    <3>6. QED
      BY <3>5
  <2>6. Cover(k) \cap new = {}
    <3>1. ASSUME NEW j \in 1 .. k, NEW c \in new, q[j][1] <= c, c < q[j][1] + q[j][2]
          PROVE  FALSE
      <4>1. j \in 1 .. Len(q) /\ j < k + 1 /\ q[j][1] # s
        <5>1. j \in 1 .. Len(q) /\ j < k + 1
          BY <1>3, <2>1
        <5>2. q[j][1] < s
          BY <1>1, <2>3, <5>1
        <5>3. q[j][1] \in Int /\ s \in Int
          BY <1>4, <2>4, <5>1
        <5>4. QED
          BY <5>1, <5>2, <5>3
      <4>2. q[j][1] + q[j][2] <= s \/ s + l <= q[j][1]
        BY <1>4, <2>3, <4>1, RunsApart
      <4>3. q[j][1] \in Int /\ q[j][2] \in Int
        BY <1>4, <4>1
      <4> HIDE DEF s, l
      <4>4. QED
        BY <2>4, <3>1, <4>2, <4>3
    <3>2. QED
      BY <3>1
  <2>7. IsFiniteSet(new) /\ Cardinality(new) = l
    <3> HIDE DEF s, l
    <3>1. s \in Int /\ s + l - 1 \in Int /\ ~(s > s + l - 1) /\ (s + l - 1) - s + 1 = l
      BY <2>4
    <3>2. QED
      BY <3>1, FS_Interval
  <2> HIDE DEF new, Cover
  <2>8. IsFiniteSet(Cover(k + 1)) /\ Cardinality(Cover(k + 1)) = Cardinality(Cover(k)) + Cardinality(new) - 0
    BY <2>2, <2>5, <2>6, <2>7, FS_Union, FS_EmptySet, SMTT(30)
  <2>9. Cardinality(Cover(k)) \in Nat
    BY <2>2, FS_CardinalityType
  <2>10. QED
    BY <2>2, <2>4, <2>7, <2>8, <2>9
<1>7. Cardinality(Cover(Len(q))) = sum[Len(q)]
  <2> HIDE DEF T
  <2>1. Len(q) \in T
    BY <1>3, <1>5, <1>6, Induction
  <2>2. QED
    BY <1>3, <2>1 DEF T
<1>8. Cover(Len(q)) = (0 .. n - 1) \ marked
  <2>1. ASSUME NEW c \in 0 .. n - 1, NEW j \in 1 .. Len(q), q[j][1] <= c, c < q[j][1] + q[j][2]
        PROVE  c \notin marked
    <3>1. c \in q[j][1] .. q[j][1] + q[j][2] - 1
      BY <1>4, <2>1
    <3>2. QED
      BY <1>4, <3>1
  <2>2. QED
    BY <1>1, <2>1
<1> DEFINE all == 0 .. n - 1
<1>9. IsFiniteSet(all) /\ Cardinality(all) = n
  <2>1. n - 1 \in Int /\ (0 > n - 1 => n = 0) /\ (n - 1) - 0 + 1 = n
    OBVIOUS
  <2>2. QED
    BY <2>1, FS_Interval
<1>10. marked \cap 0 .. n - 1 = all \cap marked
  OBVIOUS
<1> HIDE DEF all, Cover
<1>11. Cardinality(all \ marked) = n - Cardinality(all \cap marked)
  BY <1>9, FS_Difference
<1>12. all \cap marked \in SUBSET all
  OBVIOUS
<1>13. Cardinality(all \cap marked) \in Nat /\ Cardinality(all \cap marked) <= n
  BY <1>9, <1>12, FS_Subset, FS_CardinalityType
<1>14. sum[Len(q)] = n - Cardinality(all \cap marked)
  BY <1>7, <1>8, <1>11 DEF all
<1>15. ChunksReceived(Bitmap(marked, n), n) = IF sum[Len(q)] < n THEN n - sum[Len(q)] ELSE 0
  BY DEF ChunksReceived, q, sum
<1> DEFINE got == Cardinality(all \cap marked)
<1>16. got \in Nat /\ got <= n /\ sum[Len(q)] = n - got
  BY <1>13, <1>14
<1> HIDE DEF got
<1>17. ChunksReceived(Bitmap(marked, n), n) = got
  BY <1>15, <1>16
<1>18. QED
  BY <1>10, <1>17 DEF got
-----------------------------------------------------------------------------
(* Sorting and ranges.                                                     *)

\* In a finite set of numbers every rank from 1 to its size is taken, once.
LEMMA RankBijection ==
  ASSUME NEW S, S \subseteq Int, IsFiniteSet(S)
  PROVE  /\ Cardinality(S) \in Nat
         /\ \A k \in 1 .. Cardinality(S) :
              \E x \in S : Cardinality({y \in S : y <= x}) = k
<1> DEFINE n == Cardinality(S)
           Upto(x) == {y \in S : y <= x}
           rank == [x \in S |-> Cardinality(Upto(x))]
<1>1. n \in Nat
  BY FS_CardinalityType
<1>2. ASSUME NEW x \in S
      PROVE  IsFiniteSet(Upto(x)) /\ Cardinality(Upto(x)) \in 1 .. n
  <2>1. Upto(x) \in SUBSET S /\ x \in Upto(x)
    OBVIOUS
  <2>2. IsFiniteSet(Upto(x)) /\ Cardinality(Upto(x)) <= n
    BY <2>1, FS_Subset
  <2>3. Cardinality(Upto(x)) \in Nat /\ Cardinality(Upto(x)) # 0
    BY <2>1, <2>2, FS_CardinalityType, FS_EmptySet
  <2>4. QED
    BY <1>1, <2>2, <2>3
<1>3. ASSUME NEW x \in S, NEW y \in S, x # y
      PROVE  Cardinality(Upto(x)) # Cardinality(Upto(y))
  <2>1. ASSUME NEW u \in S, NEW v \in S, u < v
        PROVE  Cardinality(Upto(u)) # Cardinality(Upto(v))
    <3>1. \A z \in S : z <= u => z <= v
      BY <2>1
    <3>2. v <= v /\ ~(v <= u)
      BY <2>1
    <3>3. Upto(u) \in SUBSET Upto(v) /\ v \in Upto(v) /\ v \notin Upto(u)
      BY <3>1, <3>2, Zenon
    <3>4. QED
      BY <1>2, <3>3, FS_Subset
  <2>2. x < y \/ y < x
    BY <1>3
  <2>3. QED
    BY <2>1, <2>2
<1>4. rank \in Injection(S, 1 .. n)
  BY <1>2, <1>3 DEF Injection, IsInjective
<1>5. IsFiniteSet(1 .. n) /\ Cardinality(1 .. n) = n
  BY <1>1, FS_Interval
<1>6. rank \in Surjection(S, 1 .. n)
  BY <1>4, <1>5, FS_Injection
<1>7. QED
  BY <1>1, <1>6 DEF Surjection

\* Ascending lists the elements of the set, none of them twice.
LEMMA AscendingFacts ==
  ASSUME NEW S, S \subseteq Int, IsFiniteSet(S)
  PROVE  /\ Ascending(S) \in Seq(S)
         /\ \A j, k \in 1 .. Len(Ascending(S)) :
              j # k => Ascending(S)[j] # Ascending(S)[k]
<1>1. Cardinality(S) \in Nat
  BY RankBijection
<1> DEFINE rank(x) == Cardinality({y \in S : y <= x})
<1>2. \A k \in 1 .. Cardinality(S) : \E x \in S : rank(x) = k
  BY RankBijection
<1> HIDE DEF rank
<1>3. Ascending(S) = [k \in 1 .. Cardinality(S) |-> CHOOSE x \in S : rank(x) = k]
  BY DEF Ascending, rank
<1>4. \A k \in 1 .. Cardinality(S) : Ascending(S)[k] \in S /\ rank(Ascending(S)[k]) = k
  BY <1>2, <1>3
<1>5. Ascending(S) \in [1 .. Cardinality(S) -> S]
  BY <1>3, <1>4
<1>6. Ascending(S) \in Seq(S) /\ Len(Ascending(S)) = Cardinality(S)
  BY <1>1, <1>5
<1>7. QED
  BY <1>4, <1>6

\* The greatest of finitely many numbers.
LEMMA Greatest ==
  ASSUME NEW S, S \subseteq Int, S # {}, IsFiniteSet(S)
  PROVE  \E x \in S : \A y \in S : y <= x
<1> DEFINE Upto(x) == {y \in S : y <= x}
<1>1. Cardinality(S) \in Nat /\ Cardinality(S) # 0
  BY FS_CardinalityType, FS_EmptySet
<1>2. \A k \in 1 .. Cardinality(S) : \E x \in S : Cardinality(Upto(x)) = k
  BY RankBijection
<1>3. \A x : Upto(x) \in SUBSET S
  OBVIOUS
<1> HIDE DEF Upto
<1>4. PICK x \in S : Cardinality(Upto(x)) = Cardinality(S)
  BY <1>1, <1>2
<1>5. S = Upto(x)
  BY <1>3, <1>4, FS_Subset
<1>6. QED
  BY <1>5, Zenon DEF Upto

\* MaxCount bounds the chunk counts.
LEMMA MaxCountFacts ==
  ASSUME NEW c \in Cuts, NEW i \in Files
  PROVE  MaxCount \in Nat /\ c[i] \in 1 .. MaxCount
<1> DEFINE N == {d[j] : d \in Cuts, j \in Files}
           f == [p \in Cuts \X Files |-> p[1][p[2]]]
<1>1. \A d \in Cuts, j \in Files : d[j] \in Nat \ {0} /\ d[j] \in N
  BY CleanerAssumption
<1>2. N \subseteq Int
  BY <1>1
<1>3. f \in [Cuts \X Files -> N]
  OBVIOUS
<1>4. ASSUME NEW n \in N
      PROVE  \E p \in Cuts \X Files : f[p] = n
  <2>1. PICK d \in Cuts, j \in Files : n = d[j]
    OBVIOUS
  <2>2. <<d, j>> \in Cuts \X Files /\ f[<<d, j>>] = n
    BY <2>1
  <2>3. QED
    BY <2>2
<1>5. MaxCount = CHOOSE m \in N : \A d \in Cuts, j \in Files : d[j] <= m
  BY DEF MaxCount
<1> HIDE DEF N, f
<1>6. f \in Surjection(Cuts \X Files, N)
  BY <1>3, <1>4 DEF Surjection
<1>7. IsFiniteSet(N)
  BY <1>6, FS_Product, FS_Surjection, CleanerAssumption
<1>8. PICK n \in N : \A m \in N : m <= n
  BY <1>1, <1>2, <1>7, Greatest
<1>9. \A d \in Cuts, j \in Files : d[j] <= n
  BY <1>1, <1>8
<1>10. MaxCount \in N /\ \A d \in Cuts, j \in Files : d[j] <= MaxCount
  BY <1>5, <1>9
<1>11. c[i] \in Nat \ {0} /\ c[i] \in N /\ c[i] <= MaxCount /\ MaxCount \in Int
  BY <1>1, <1>2, <1>10
<1>12. QED
  BY <1>11

\* The missing ranges of a manifest are requests for chunks of its file, no two
\* of them for the same chunk.
LEMMA RangesFacts ==
  ASSUME NEW i \in Files, NEW m, m.num \in 1 .. MaxCount, MaxCount \in Nat
  PROVE  /\ MissingRanges(i, m) \in Seq(Requests)
         /\ \A k \in 1 .. Len(MissingRanges(i, m)) :
              MissingRanges(i, m)[k].kind = "Retransmit" /\ MissingRanges(i, m)[k].id = i
         /\ \A j, k \in 1 .. Len(MissingRanges(i, m)) :
              j # k => ~Overlap(MissingRanges(i, m)[j], MissingRanges(i, m)[k])
<1> DEFINE q == MissingRangesOf(Bitmap(m.bits, m.num), m.num)
           p == MissingRanges(i, m)
<1>1. /\ q \in Seq(Pairs) /\ ToSet(q) = MissingRuns(m.bits, m.num)
      /\ \A j, k \in 1 .. Len(q) : j < k => q[j][1] < q[k][1]
  BY MissingRangesFacts
<1>2. p = [k \in DOMAIN q |-> ChunkRange(i, q[k][1], q[k][2])]
  BY DEF MissingRanges
<1> HIDE DEF p, q
<1>3. Len(q) \in Nat /\ DOMAIN q = 1 .. Len(q)
  BY <1>1
<1>4. ASSUME NEW k \in 1 .. Len(q)
      PROVE  /\ q[k] \in MissingRuns(m.bits, m.num)
             /\ q[k][1] \in 0 .. m.num - 1 /\ q[k][2] \in 1 .. m.num
             /\ p[k] = ChunkRange(i, q[k][1], q[k][2])
  <2>1. q[k] \in MissingRuns(m.bits, m.num)
    BY <1>1, <1>3 DEF ToSet
  <2>2. p[k] = ChunkRange(i, q[k][1], q[k][2])
    BY <1>2, <1>3
  <2>3. q[k][1] \in 0 .. m.num - 1 /\ q[k][2] \in 1 .. m.num
    BY <2>1 DEF MissingRuns
  <2>4. QED
    BY <2>1, <2>2, <2>3
<1>5. p \in Seq(Requests) /\ Len(p) = Len(q)
  <2>1. ASSUME NEW k \in 1 .. Len(q) PROVE p[k] \in Requests
    <3>1. q[k][1] \in 0 .. MaxCount - 1 /\ q[k][2] \in 1 .. MaxCount
      BY <1>4
    <3>2. QED
      BY <1>4, <3>1 DEF Requests
  <2>2. p \in [1 .. Len(q) -> Requests]
    BY <1>2, <1>3, <2>1
  <2>3. QED
    BY <1>3, <2>2
<1>6. ASSUME NEW k \in 1 .. Len(p)
      PROVE  /\ p[k].kind = "Retransmit" /\ p[k].id = i
             /\ p[k].start = q[k][1] /\ p[k].count = q[k][2]
  <2>1. p[k] = ChunkRange(i, q[k][1], q[k][2])
    BY <1>4, <1>5
  <2>2. QED
    BY <2>1 DEF ChunkRange
<1>7. ASSUME NEW j \in 1 .. Len(p), NEW k \in 1 .. Len(p), j # k
      PROVE  ~Overlap(p[j], p[k])
  <2>1. /\ q[j][1] \in Int /\ q[j][2] \in Int /\ q[k][1] \in Int /\ q[k][2] \in Int
        /\ q[j] \in MissingRuns(m.bits, m.num) /\ q[k] \in MissingRuns(m.bits, m.num)
    BY <1>4, <1>5
  <2>2. q[j][1] # q[k][1]
    <3>1. j < k \/ k < j
      BY <1>3, <1>5, <1>7
    <3>2. q[j][1] < q[k][1] \/ q[k][1] < q[j][1]
      BY <1>1, <1>5, <3>1
    <3>3. QED
      BY <2>1, <3>2
  <2>3. q[j][1] + q[j][2] <= q[k][1] \/ q[k][1] + q[k][2] <= q[j][1]
    BY <2>1, <2>2, RunsApart, SMTT(30)
  <2>4. /\ p[j].start = q[j][1] /\ p[j].count = q[j][2]
        /\ p[k].start = q[k][1] /\ p[k].count = q[k][2]
    BY <1>6
  <2>5. QED
    BY <2>1, <2>3, <2>4 DEF Overlap
<1>8. QED
  BY <1>5, <1>6, <1>7 DEF p

\* The missing ranges of a manifest cover the chunks it lacks, each once, and no
\* other.
LEMMA GapsCovered ==
  ASSUME NEW i \in Files, NEW m, m.num \in 1 .. MaxCount, MaxCount \in Nat,
         NEW c \in 0 .. m.num - 1
  PROVE  LET p == MissingRanges(i, m)
             in(k) == c \in p[k].start .. p[k].start + p[k].count - 1
         IN  IF c \in m.bits THEN \A k \in 1 .. Len(p) : ~in(k)
             ELSE \E k \in 1 .. Len(p) : in(k) /\ \A j \in (1 .. Len(p)) \ {k} : ~in(j)
<1> DEFINE q == MissingRangesOf(Bitmap(m.bits, m.num), m.num)
           p == MissingRanges(i, m)
           in(k) == c \in p[k].start .. p[k].start + p[k].count - 1
<1>1. /\ q \in Seq(Pairs) /\ ToSet(q) = MissingRuns(m.bits, m.num)
      /\ c \notin m.bits => \E k \in 1 .. Len(q) : q[k][1] <= c /\ c < q[k][1] + q[k][2]
  <2>1. m.num \in Nat
    OBVIOUS
  <2>2. /\ q \in Seq(Pairs) /\ ToSet(q) = MissingRuns(m.bits, m.num)
        /\ \A d \in 0 .. m.num - 1 : d \notin m.bits =>
             \E k \in 1 .. Len(q) : q[k][1] <= d /\ d < q[k][1] + q[k][2]
    BY <2>1, MissingRangesFacts
  <2> HIDE DEF q
  <2>3. QED
    BY <2>2
<1>2. p = [k \in DOMAIN q |-> ChunkRange(i, q[k][1], q[k][2])]
  BY DEF MissingRanges
<1>3. \A j, k \in 1 .. Len(p) : j # k => ~Overlap(p[j], p[k])
  BY RangesFacts
<1> HIDE DEF p, q
<1>4. Len(q) \in Nat /\ DOMAIN q = 1 .. Len(q) /\ Len(p) = Len(q)
  BY <1>1, <1>2
<1>5. ASSUME NEW k \in 1 .. Len(p)
      PROVE  /\ p[k].start = q[k][1] /\ p[k].count = q[k][2]
             /\ q[k][1] \in 0 .. m.num - 1 /\ q[k][2] \in 1 .. m.num
             /\ \A x \in q[k][1] .. q[k][1] + q[k][2] - 1 : x \notin m.bits
  <2>1. q[k] \in MissingRuns(m.bits, m.num)
    BY <1>1, <1>4 DEF ToSet
  <2>2. p[k] = ChunkRange(i, q[k][1], q[k][2])
    BY <1>2, <1>4
  <2>3. QED
    BY <2>1, <2>2 DEF MissingRuns, ChunkRange
<1>6. ASSUME c \in m.bits, NEW k \in 1 .. Len(p) PROVE ~in(k)
  BY <1>5, <1>6
<1>7. ASSUME c \notin m.bits
      PROVE  \E k \in 1 .. Len(p) : in(k) /\ \A j \in (1 .. Len(p)) \ {k} : ~in(j)
  <2>1. PICK k \in 1 .. Len(p) : q[k][1] <= c /\ c < q[k][1] + q[k][2]
    BY <1>1, <1>4, <1>7
  <2>2. in(k)
    BY <1>5, <2>1
  <2>3. ASSUME NEW j \in (1 .. Len(p)) \ {k}, in(j) PROVE FALSE
    <3>1. ~Overlap(p[j], p[k])
      BY <1>3
    <3>2. /\ p[j].start \in Int /\ p[j].count \in Int /\ p[k].start \in Int /\ p[k].count \in Int
          /\ c \in Int
      <4>1. m.num \in Nat /\ c \in Int
        OBVIOUS
      <4>2. \A l \in 1 .. Len(p) : p[l].start \in 0 .. m.num - 1 /\ p[l].count \in 1 .. m.num
        BY <1>5
      <4>3. QED
        BY <4>1, <4>2
    <3>3. \A s, n, u, v \in Int : c \in s .. s + n - 1 /\ c \in u .. u + v - 1 =>
            s < u + v /\ u < s + n
      BY <3>2
    <3>4. p[j].start < p[k].start + p[k].count /\ p[k].start < p[j].start + p[j].count
      BY <2>2, <2>3, <3>2, <3>3, Zenon
    <3>5. QED
      BY <3>1, <3>4 DEF Overlap
  <2>4. QED
    BY <2>2, <2>3
<1>8. QED
  BY <1>6, <1>7 DEF p

\* What a request looks like.
LEMMA RequestFacts ==
  ASSUME NEW r \in Requests
  PROVE  /\ r.kind \in {"Retransmit", "ResendName"} /\ r.id \in Files
         /\ r.start \in Nat /\ r.count \in Nat
         /\ r.kind = "Retransmit" => r.count > 0
<1>1. CASE \E i \in Files : r = Name(i)
  BY <1>1 DEF Name
<1>2. CASE \E i \in Files, s \in 0 .. MaxCount - 1, c \in 1 .. MaxCount : r = ChunkRange(i, s, c)
  <2>1. PICK i \in Files, s \in 0 .. MaxCount - 1, c \in 1 .. MaxCount : r = ChunkRange(i, s, c)
    BY <1>2
  <2>2. MaxCount \in Nat
    BY <2>1, MaxCountFacts, CleanerAssumption
  <2>3. QED
    BY <2>1, <2>2 DEF ChunkRange
<1>3. QED
  BY <1>1, <1>2 DEF Requests
-----------------------------------------------------------------------------
(* Who changes what.                                                       *)

Calls == CallOk \/ CallTimesOut \/ CallFails
Sends == SendNext \/ SendGone \/ SenderExits

\* Each part of the state and the actions that change it.
LEMMA Frame ==
  ASSUME [Next]_vars
  PROVE  /\ \/ UNCHANGED <<holding, landed>>
            \/ \E p \in wire : Arrive(p)
            \/ \E i \in Files : Finalize(i)
         /\ UNCHANGED known \/ \E i \in Files : Scan(i)
         /\ \/ UNCHANGED <<queue, wire>>
            \/ Calls \/ Sends
            \/ \E i \in Files : Scan(i) \/ Operator(i)
            \/ \E p \in wire : Lose(p)
         /\ UNCHANGED <<pc, ids, planned, acked>> \/ Pass \/ Stop \/ Start
         /\ \/ UNCHANGED <<status, disturbed>>
            \/ AskStatus \/ EndOfPlan \/ Stop \/ Calls
            \/ \E i \in Files : Scan(i) \/ Operator(i)
         /\ UNCHANGED <<dedup, saved, asked>> \/ TakeRequest \/ Save \/ Stop \/ Start \/ Tick
         /\ UNCHANGED gone \/ \E i \in Files : Delete(i)
         /\ UNCHANGED cut \/ ChangeChunkSize
<1>1. CASE Pass
  BY <1>1 DEF Pass, AskStatus, ListHolding, ReadName, ReadRanges, EndOfPlan, SkipRequest,
     TakeRequest, Calls, CallOk, CallTimesOut, CallFails, Call, Save, others, payload
<1>2. CASE Stop \/ Start \/ Tick
  BY <1>2 DEF Stop, Start, Tick, others, payload
<1>3. CASE \E i \in Files : Scan(i) \/ Operator(i) \/ Delete(i) \/ Finalize(i)
  BY <1>3 DEF Scan, Operator, Delete, Finalize, payload, daemon
<1>4. CASE Sends \/ ChangeChunkSize
  BY <1>4 DEF Sends, SendNext, SendGone, SenderExits, ChangeChunkSize, payload, daemon
<1>5. CASE Link
  BY <1>5 DEF Link, Lose, Arrive, payload, daemon
<1>6. CASE UNCHANGED vars
  BY <1>6 DEF vars, others, payload, daemon
<1>7. QED
  BY <1>1, <1>2, <1>3, <1>4, <1>5, <1>6 DEF Next, Sends
-----------------------------------------------------------------------------
(* The dedup table across restarts.                                        *)

Timed(t) == \A r \in DOMAIN t : t[r] \in 1 .. Ttl

\* Everything in s is in t, and expires there no earlier.
Covers(s, t) == DOMAIN s \subseteq DOMAIN t /\ \A r \in DOMAIN s : s[r] <= t[r]

\* The table in memory covers what was asked for; between two passes the state
\* file does too, but for the second that save rounds down; when the process is
\* down it has to.
DedupInv ==
  /\ Timed(dedup) /\ Timed(saved) /\ Timed(asked)
  /\ pc # "down" => Covers(asked, dedup)
  /\ pc = "idle" => Covers(Aged(asked), saved)
  /\ pc = "down" => Covers(asked, saved)

\* Aging keeps expiries, shortens them, and keeps their order.
LEMMA AgedFacts ==
  ASSUME NEW s, Timed(s)
  PROVE  /\ Timed(Aged(s)) /\ Covers(Aged(s), s)
         /\ \A t : Timed(t) /\ Covers(s, t) => Covers(Aged(s), Aged(t)) /\ Covers(Aged(s), t)
<1>1. /\ DOMAIN Aged(s) = {p \in DOMAIN s : s[p] > 1}
      /\ \A r \in DOMAIN Aged(s) : Aged(s)[r] = s[r] - 1
  BY DEF Aged
<1>2. Timed(Aged(s)) /\ Covers(Aged(s), s)
  BY <1>1, CleanerAssumption DEF Timed, Covers
<1>3. ASSUME NEW t, Timed(t), Covers(s, t)
      PROVE  Covers(Aged(s), Aged(t)) /\ Covers(Aged(s), t)
  <2>1. /\ DOMAIN Aged(t) = {p \in DOMAIN t : t[p] > 1}
        /\ \A r \in DOMAIN Aged(t) : Aged(t)[r] = t[r] - 1
    BY DEF Aged
  <2>2. ASSUME NEW r \in DOMAIN Aged(s)
        PROVE  r \in DOMAIN Aged(t) /\ Aged(s)[r] <= Aged(t)[r] /\ r \in DOMAIN t /\ Aged(s)[r] <= t[r]
    BY <1>1, <1>3, <2>1, CleanerAssumption DEF Timed, Covers
  <2>3. QED
    BY <2>2 DEF Covers
<1>4. QED
  BY <1>2, <1>3

\* A new entry is in both tables for the whole TTL.
LEMMA InsertFacts ==
  ASSUME NEW s, NEW t, NEW r, Timed(s), Timed(t), Covers(s, t)
  PROVE  Timed(Insert(s, r)) /\ Covers(Insert(s, r), Insert(t, r))
<1>1. ASSUME NEW u, Timed(u)
      PROVE  /\ DOMAIN Insert(u, r) = DOMAIN u \cup {r} /\ Timed(Insert(u, r))
             /\ \A q \in DOMAIN Insert(u, r) :
                  Insert(u, r)[q] = IF q = r THEN Ttl ELSE u[q]
  BY <1>1, CleanerAssumption DEF Insert, Timed
<1>2. ASSUME NEW q \in DOMAIN Insert(s, r)
      PROVE  q \in DOMAIN Insert(t, r) /\ Insert(s, r)[q] <= Insert(t, r)[q]
  <2>1. CASE q = r
    <3>1. q \in DOMAIN Insert(t, r) /\ Insert(s, r)[q] = Ttl /\ Insert(t, r)[q] = Ttl
      BY <1>1, <2>1
    <3>2. QED
      BY <3>1, CleanerAssumption
  <2>2. CASE q # r
    <3>1. q \in DOMAIN s /\ q \in DOMAIN t /\ s[q] <= t[q]
      BY <1>1, <1>2, <2>2 DEF Covers
    <3>2. QED
      BY <1>1, <1>2, <2>2, <3>1
  <2>3. QED
    BY <2>1, <2>2
<1>3. QED
  BY <1>1, <1>2 DEF Covers

\* Steps keep DedupInv.
LEMMA DedupStep == ASSUME DedupInv, [Next]_vars PROVE DedupInv'
<1> USE DEF DedupInv
<1>1. CASE UNCHANGED <<dedup, saved, asked>> /\ UNCHANGED pc
  BY <1>1 DEF Timed, Covers, Aged
<1>2. CASE UNCHANGED <<dedup, saved, asked>> /\ Pass /\ ~Save
  <2>1. pc # "down" /\ pc' # "down" /\ pc' # "idle"
    BY <1>2 DEF Pass, AskStatus, ListHolding, ReadName, ReadRanges, EndOfPlan, SkipRequest,
       TakeRequest, CallOk, CallTimesOut, CallFails, Call, NextFile, Considering
  <2>2. QED
    BY <1>2, <2>1 DEF Timed, Covers, Aged
<1>3. CASE TakeRequest
  <2>1. pc # "down" /\ pc' = "call" /\ UNCHANGED saved
    BY <1>3 DEF TakeRequest, Considering
  <2>2. dedup' = Insert(dedup, Head(planned)) /\ asked' = Insert(asked, Head(planned))
    BY <1>3 DEF TakeRequest
  <2>3. Covers(dedup, dedup)
    BY CleanerAssumption DEF Covers, Timed
  <2>4. Timed(dedup') /\ Timed(asked') /\ Covers(asked', dedup')
    BY <2>1, <2>2, <2>3, InsertFacts
  <2>5. QED
    BY <2>1, <2>4 DEF Timed
<1>4. CASE Save
  <2>1. pc # "down" /\ pc' = "idle" /\ UNCHANGED <<dedup, asked>> /\ saved' = Aged(dedup)
    BY <1>4 DEF Save, Persisted
  <2>2. Timed(saved') /\ Covers(Aged(asked), saved')
    BY <2>1, AgedFacts
  <2>3. QED
    BY <2>1, <2>2
<1>5. CASE Stop
  <2>1. /\ pc # "down" /\ pc' = "down" /\ UNCHANGED saved /\ dedup' = <<>>
        /\ asked' = IF pc = "idle" THEN Aged(asked) ELSE saved
    BY <1>5 DEF Stop
  <2>2. Timed(dedup')
    BY <2>1 DEF Timed
  <2>3. Covers(saved, saved)
    BY CleanerAssumption DEF Covers, Timed
  <2>4. Timed(asked') /\ Covers(asked', saved)
    BY <2>1, <2>3, AgedFacts
  <2>5. QED
    BY <2>1, <2>2, <2>4
<1>6. CASE Start
  <2>1. pc = "down" /\ pc' = "idle" /\ UNCHANGED <<saved, asked>> /\ dedup' = saved
    BY <1>6 DEF Start
  <2>2. Covers(Aged(asked), saved)
    BY <2>1, AgedFacts
  <2>3. QED
    BY <2>1, <2>2
<1>7. CASE Tick
  <2>1. UNCHANGED <<pc, saved>> /\ dedup' = Aged(dedup) /\ asked' = Aged(asked)
    BY <1>7 DEF Tick
  <2>2. Timed(dedup') /\ Timed(asked')
    BY <2>1, AgedFacts
  <2>3. pc # "down" => Covers(asked', dedup')
    BY <2>1, AgedFacts
  <2>4. pc = "down" => Covers(asked', saved)
    BY <2>1, AgedFacts
  <2>5. pc = "idle" => Covers(Aged(asked'), saved)
    BY <2>1, <2>2, AgedFacts
  <2>6. QED
    BY <2>1, <2>2, <2>3, <2>4, <2>5
<1>8. QED
  BY <1>1, <1>2, <1>3, <1>4, <1>5, <1>6, <1>7, Frame

\* NoRefire, for any files, TTL, chunk counts and failures: a request is not
\* taken up again within dedup_ttl_secs, restarts included (try_insert, load and
\* save of dedup.rs).
THEOREM NeverRefired == Spec => NoRefire
<1>1. Init => DedupInv
  BY DEF Init, DedupInv, Timed, Covers, Aged
<1>2. DedupInv /\ [Next]_vars => DedupInv'
  BY DedupStep
<1>3. DedupInv /\ [Next]_vars => [pc = "consider" /\ pc' = "call" => Head(planned) \notin DOMAIN asked]_vars
  <2>1. ASSUME DedupInv, [Next]_vars, pc = "consider", pc' = "call"
        PROVE  Head(planned) \notin DOMAIN asked
    <3>1. TakeRequest
      BY <2>1, Frame DEF Pass, AskStatus, ListHolding, ReadName, ReadRanges, EndOfPlan,
         SkipRequest, CallOk, CallTimesOut, CallFails, Call, Save, Stop, Start
    <3>2. QED
      BY <2>1, <3>1 DEF TakeRequest, DedupInv, Covers
  <2>2. QED
    BY <2>1
<1>4. QED
  BY <1>1, <1>2, <1>3, PTL DEF Spec, NoRefire
-----------------------------------------------------------------------------
(* The state's shape and the budget of a pass.                             *)

QItems == [kind : {"Manifest", "Data", "Retransmit"}, id : Files, start : Nat, count : Nat \ {0}]

ManifestOK(m) ==
  /\ m \in [num : 1 .. MaxCount, named : BOOLEAN, bits : SUBSET Nat]
  /\ m.bits \subseteq 0 .. m.num - 1

PacketOK(p) ==
  /\ p.names \in BOOLEAN /\ p.chunk \in Nat /\ p.num \in 1 .. MaxCount
  /\ p.chunk < p.num

\* The receiver.
HoldInv ==
  /\ DOMAIN holding \subseteq known
  /\ \A i \in DOMAIN holding : ManifestOK(holding[i])
  /\ landed \subseteq known /\ known \subseteq Files

\* The sender's queue and the link.
QueueInv ==
  /\ queue \in Seq(QItems) /\ \A k \in DOMAIN queue : queue[k].id \in known
  /\ \A p \in wire : p.id \in known /\ PacketOK(p)
  /\ known \subseteq Files /\ gone \subseteq Files /\ cut \in Cuts

\* What the pass holds, and how much of its budget it has used.
PlanInv ==
  /\ pc \in PCs
  /\ ids \in Seq(known) /\ planned \in Seq(Requests)
  /\ \A k \in DOMAIN planned : planned[k].id \in known
  /\ known \subseteq Files
  /\ pc = "call" => planned # <<>> /\ acked < max_in_flight
  /\ pc \in {"name", "ranges"} => ids # <<>>
  /\ acked \in 0 .. max_in_flight

TablesInv == Table(dedup) /\ Table(saved) /\ Table(asked)

ShapeInv == HoldInv /\ QueueInv /\ PlanInv /\ TablesInv /\ disturbed \in BOOLEAN

\* The parts make up the type invariant.
LEMMA ShapeIsType == ASSUME ShapeInv PROVE TypeOK
<1>1. ASSUME NEW k \in DOMAIN queue
      PROVE  queue[k].id \in known /\ queue[k].count > 0
  <2>1. queue[k] \in QItems /\ queue[k].id \in known
    BY DEF ShapeInv, QueueInv
  <2>2. QED
    BY <2>1 DEF QItems
<1>2. ToSet(ids) \subseteq Files /\ ToSet(planned) \subseteq Requests
  BY DEF ShapeInv, PlanInv, ToSet
<1>3. QED
  BY <1>1, <1>2 DEF ShapeInv, HoldInv, QueueInv, PlanInv, TablesInv, TypeOK,
     ManifestOK, PacketOK

\* known grows, and by files.
LEMMA KnownGrows ==
  ASSUME known \subseteq Files, [Next]_vars
  PROVE  known \subseteq known' /\ known' \subseteq Files
BY Frame DEF Scan

\* What a packet adds to a manifest.
LEMMA LearnFacts ==
  ASSUME NEW m, ManifestOK(m)
  PROVE  /\ ManifestOK([m EXCEPT !.named = TRUE])
         /\ \A c \in 0 .. m.num - 1 : ManifestOK([m EXCEPT !.bits = @ \cup {c}])
<1>1. ManifestOK([m EXCEPT !.named = TRUE])
  BY DEF ManifestOK
<1>2. ASSUME NEW c \in 0 .. m.num - 1
      PROVE  ManifestOK([m EXCEPT !.bits = @ \cup {c}])
  <2> DEFINE B == m.bits \cup {c}
  <2>1. m.num \in Int /\ c \in Nat
    BY DEF ManifestOK
  <2>2. B \in SUBSET Nat /\ B \subseteq 0 .. m.num - 1
    BY <2>1 DEF ManifestOK
  <2> HIDE DEF B
  <2>3. ManifestOK([m EXCEPT !.bits = B])
    BY <2>2 DEF ManifestOK
  <2>4. QED
    BY <2>3 DEF B
<1>3. QED
  BY <1>1, <1>2

\* Steps keep HoldInv.
LEMMA HoldStep == ASSUME HoldInv, QueueInv, [Next]_vars PROVE HoldInv'
<1>1. known \subseteq known' /\ known' \subseteq Files
  BY KnownGrows DEF HoldInv
<1>2. CASE UNCHANGED <<holding, landed>>
  BY <1>1, <1>2 DEF HoldInv
<1>3. ASSUME NEW p \in wire, Arrive(p)
      PROVE  HoldInv'
  <2>1. p.id \in known /\ PacketOK(p) /\ UNCHANGED <<landed, known>>
    BY <1>3 DEF QueueInv, Arrive, payload
  <2>2. CASE Opens(p)
    <3>1. /\ DOMAIN holding' = DOMAIN holding \cup {p.id}
          /\ \A j \in DOMAIN holding' : holding'[j] =
               IF j = p.id THEN Rx!Assembly(p.num, p.names) ELSE holding[j]
      BY <2>2 DEF Opens, Rx!Open
    <3>2. ManifestOK(Rx!Assembly(p.num, p.names))
      BY <2>1 DEF PacketOK, ManifestOK, Rx!Assembly
    <3>3. QED
      BY <2>1, <3>1, <3>2 DEF HoldInv
  <2>3. CASE Updates(p)
    <3> DEFINE m == holding[p.id]
    <3>1. p.id \in DOMAIN holding /\ ManifestOK(m)
      BY <2>3 DEF Updates, HoldInv
    <3>2. ASSUME NEW x, ManifestOK(x), holding' = [holding EXCEPT ![p.id] = x]
          PROVE  HoldInv'
      BY <2>1, <3>1, <3>2 DEF HoldInv
    <3>3. CASE p.names
      <4>1. holding' = [holding EXCEPT ![p.id] = [m EXCEPT !.named = TRUE]]
        BY <2>3, <3>3 DEF Updates, Rx!LearnName
      <4>2. ManifestOK([m EXCEPT !.named = TRUE])
        BY <3>1, LearnFacts
      <4>3. QED
        BY <3>2, <4>1, <4>2
    <3>4. CASE ~p.names
      <4>1. /\ p.chunk \in 0 .. m.num - 1
            /\ holding' = [holding EXCEPT ![p.id] = [m EXCEPT !.bits = @ \cup {p.chunk}]]
        BY <2>3, <3>4 DEF Updates, Rx!LearnChunk
      <4>2. ManifestOK([m EXCEPT !.bits = @ \cup {p.chunk}])
        BY <3>1, <4>1, LearnFacts
      <4>3. QED
        BY <3>2, <4>1, <4>2
    <3>5. QED
      BY <3>3, <3>4
  <2>4. QED
    BY <1>3, <2>2, <2>3 DEF Arrive
<1>4. ASSUME NEW i \in Files, Finalize(i)
      PROVE  HoldInv'
  <2>1. i \in DOMAIN holding /\ holding' = [j \in DOMAIN holding \ {i} |-> holding[j]]
    BY <1>4 DEF Finalize, Rx!Leave
  <2>2. landed' = landed \cup {i} /\ UNCHANGED known
    BY <1>4 DEF Finalize, payload
  <2>3. QED
    BY <2>1, <2>2 DEF HoldInv
<1>5. QED
  BY <1>2, <1>3, <1>4, Frame

\* The chunk counts in use.
LEMMA CutFacts ==
  ASSUME QueueInv, NEW i \in Files
  PROVE  cut[i] \in 1 .. MaxCount /\ MaxCount \in Nat
BY MaxCountFacts DEF QueueInv

\* What is put in the queue when a call is carried out, and what can hit it.
LEMMA EnqueuedFacts ==
  ASSUME QueueInv, NEW r \in Requests, ~OutOfRange(r)
  PROVE  /\ Enqueued(r) \in Seq(QItems)
         /\ \A k \in DOMAIN Enqueued(r) : Enqueued(r)[k].id = r.id
         /\ r.kind = "ResendName" => Enqueued(r) = <<Tx!Item("Manifest", r.id, 0, 1)>>
         /\ r.kind = "Retransmit" /\ ~Wraps(r) =>
              \E c \in 1 .. r.count : Enqueued(r) = <<Tx!Item("Retransmit", r.id, r.start, c)>>
<1>1. /\ r.kind \in {"Retransmit", "ResendName"} /\ r.id \in Files
      /\ r.start \in Nat /\ r.count \in Nat
      /\ r.kind = "Retransmit" => r.count > 0
  BY RequestFacts
<1>2. cut[r.id] \in Nat \ {0}
  BY <1>1, CutFacts
<1>3. CASE r.kind = "ResendName"
  BY <1>1, <1>3 DEF Enqueued, Tx!Item, QItems
<1>4. CASE r.kind = "Retransmit" /\ Wraps(r)
  <2>1. Enqueued(r) = <<Tx!Item("Manifest", r.id, 0, 1), Tx!Item("Data", r.id, 0, cut[r.id])>>
    BY <1>4 DEF Enqueued, Tx!FullSend
  <2>2. Tx!Item("Manifest", r.id, 0, 1) \in QItems /\ Tx!Item("Data", r.id, 0, cut[r.id]) \in QItems
    BY <1>1, <1>2 DEF Tx!Item, QItems
  <2>3. Tx!Item("Manifest", r.id, 0, 1).id = r.id /\ Tx!Item("Data", r.id, 0, cut[r.id]).id = r.id
    BY DEF Tx!Item
  <2>4. QED
    BY <1>4, <2>1, <2>2, <2>3
<1>5. CASE r.kind = "Retransmit" /\ ~Wraps(r)
  <2> DEFINE c == IF r.count < cut[r.id] - r.start THEN r.count ELSE cut[r.id] - r.start
  <2>1. c \in 1 .. r.count
    BY <1>1, <1>2, <1>5 DEF OutOfRange
  <2>2. Enqueued(r) = <<Tx!Item("Retransmit", r.id, r.start, c)>>
    BY <1>5 DEF Enqueued
  <2> HIDE DEF c
  <2>3. Tx!Item("Retransmit", r.id, r.start, c) \in QItems /\ Tx!Item("Retransmit", r.id, r.start, c).id = r.id
    BY <1>1, <2>1 DEF Tx!Item, QItems
  <2>4. QED
    BY <1>5, <2>1, <2>2, <2>3
<1>6. QED
  BY <1>1, <1>3, <1>4, <1>5

\* x is what is left of y.
Within(x, y) ==
  /\ x.id = y.id /\ x.kind = y.kind
  /\ y.start <= x.start /\ x.start + x.count <= y.start + y.count

\* The queue after its head's first packet is sent.
LEMMA RestFacts ==
  ASSUME queue \in Seq(QItems), queue # <<>>
  PROVE  /\ Tx!Rest \in Seq(QItems)
         /\ \A k \in DOMAIN Tx!Rest : \E j \in DOMAIN queue : Within(Tx!Rest[k], queue[j])
<1> DEFINE h == Head(queue)
           x == Tx!Item(h.kind, h.id, h.start + 1, h.count - 1)
<1>1. /\ Len(queue) \in Nat \ {0} /\ DOMAIN queue = 1 .. Len(queue)
      /\ \A j \in DOMAIN queue : queue[j] \in QItems
      /\ h = queue[1] /\ Tail(queue) \in Seq(QItems) /\ Len(Tail(queue)) = Len(queue) - 1
      /\ \A k \in 1 .. Len(queue) - 1 : Tail(queue)[k] = queue[k + 1]
  OBVIOUS
<1>2. h \in QItems
  BY <1>1
<1>3. \A y \in QItems : Within(y, y)
  BY DEF Within, QItems
<1>4. CASE h.count > 1
  <2>1. x \in QItems /\ Within(x, h)
    BY <1>2, <1>4 DEF QItems, Within, Tx!Item
  <2>2. Tx!Rest = <<x>> \o Tail(queue)
    BY <1>4 DEF Tx!Rest
  <2> HIDE DEF h, x
  <2>3. /\ Tx!Rest \in Seq(QItems) /\ Len(Tx!Rest) = Len(queue) /\ Tx!Rest[1] = x
        /\ \A k \in 2 .. Len(queue) : Tx!Rest[k] = Tail(queue)[k - 1]
    BY <1>1, <2>1, <2>2
  <2>4. ASSUME NEW k \in 2 .. Len(queue)
        PROVE  Tx!Rest[k] = queue[k]
    <3>1. k - 1 \in 1 .. Len(queue) - 1
      BY <1>1
    <3>2. Tail(queue)[k - 1] = queue[(k - 1) + 1]
      BY <1>1, <3>1
    <3>3. QED
      BY <1>1, <2>3, <3>2
  <2>5. ASSUME NEW k \in DOMAIN Tx!Rest
        PROVE  \E j \in DOMAIN queue : Within(Tx!Rest[k], queue[j])
    <3>1. k \in 1 .. Len(queue)
      BY <2>3
    <3>2. CASE k = 1
      BY <1>1, <2>1, <2>3, <3>2
    <3>3. CASE k # 1
      BY <1>1, <1>3, <2>4, <3>1, <3>3
    <3>4. QED
      BY <3>2, <3>3
  <2>6. QED
    BY <2>3, <2>5
<1>5. CASE ~(h.count > 1)
  <2>1. Tx!Rest = Tail(queue)
    BY <1>5 DEF Tx!Rest
  <2>2. ASSUME NEW k \in 1 .. Len(queue) - 1
        PROVE  k + 1 \in DOMAIN queue /\ Tail(queue)[k] = queue[k + 1] /\ Within(Tail(queue)[k], queue[k + 1])
    BY <1>1, <1>3
  <2>3. DOMAIN Tail(queue) = 1 .. Len(queue) - 1
    BY <1>1
  <2>4. QED
    BY <1>1, <2>1, <2>2, <2>3
<1>6. QED
  BY <1>4, <1>5

\* The tail of a sequence.
LEMMA TailFacts ==
  ASSUME NEW S, NEW s \in Seq(S), s # <<>>
  PROVE  /\ Tail(s) \in Seq(S) /\ Head(s) = s[1] /\ 1 \in DOMAIN s
         /\ \A k \in DOMAIN Tail(s) : k + 1 \in DOMAIN s /\ Tail(s)[k] = s[k + 1] /\ k \in Nat \ {0}
OBVIOUS

\* The elements of a concatenation.
LEMMA ConcatFacts ==
  ASSUME NEW S, NEW u \in Seq(S), NEW v \in Seq(S)
  PROVE  /\ u \o v \in Seq(S)
         /\ \A k \in DOMAIN (u \o v) :
              \/ k \in DOMAIN u /\ (u \o v)[k] = u[k]
              \/ k - Len(u) \in DOMAIN v /\ (u \o v)[k] = v[k - Len(u)]
<1>1. u \o v \in Seq(S) /\ Len(u) \in Nat /\ Len(v) \in Nat
  OBVIOUS
<1>2. ASSUME NEW k \in DOMAIN (u \o v), k <= Len(u)
      PROVE  k \in DOMAIN u /\ (u \o v)[k] = u[k]
  BY <1>2
<1>3. ASSUME NEW k \in DOMAIN (u \o v), ~(k <= Len(u))
      PROVE  k - Len(u) \in DOMAIN v /\ (u \o v)[k] = v[k - Len(u)]
  BY <1>3
<1>4. QED
  BY <1>1, <1>2, <1>3

\* The files that are sent in full.
LEMMA FullSendFacts ==
  ASSUME QueueInv, NEW i \in Files
  PROVE  /\ Tx!FullSend(i, cut[i]) \in Seq(QItems)
         /\ \A k \in DOMAIN Tx!FullSend(i, cut[i]) : Tx!FullSend(i, cut[i])[k].id = i
<1> DEFINE x == Tx!Item("Manifest", i, 0, 1)
           y == Tx!Item("Data", i, 0, cut[i])
<1>1. x \in QItems /\ y \in QItems /\ x.id = i /\ y.id = i
  BY CutFacts DEF Tx!Item, QItems
<1>2. Tx!FullSend(i, cut[i]) = <<x, y>>
  BY DEF Tx!FullSend
<1> HIDE DEF x, y
<1>3. QED
  BY <1>1, <1>2

\* Steps keep QueueInv.
LEMMA QueueStep == ASSUME QueueInv, PlanInv, [Next]_vars PROVE QueueInv'
<1>1. known \subseteq known' /\ known' \subseteq Files
  BY KnownGrows DEF QueueInv
<1>2. gone' \subseteq Files /\ cut' \in Cuts
  BY Frame DEF QueueInv, Delete, ChangeChunkSize
<1>3. ASSUME NEW items \in Seq(QItems), \A k \in DOMAIN items : items[k].id \in known',
             queue' = items \o queue \/ queue' = queue \o items, UNCHANGED wire
      PROVE  QueueInv'
  <2>1. queue' \in Seq(QItems)
    BY <1>3, ConcatFacts DEF QueueInv
  <2>2. \A k \in DOMAIN queue' : \/ \E j \in DOMAIN items : queue'[k] = items[j]
                                 \/ \E j \in DOMAIN queue : queue'[k] = queue[j]
    <3>1. queue \in Seq(QItems)
      BY DEF QueueInv
    <3>2. CASE queue' = items \o queue
      BY <3>1, <3>2, ConcatFacts
    <3>3. CASE queue' = queue \o items
      BY <3>1, <3>3, ConcatFacts
    <3>4. QED
      BY <1>3, <3>2, <3>3
  <2>3. \A k \in DOMAIN queue' : queue'[k].id \in known'
    BY <1>1, <1>3, <2>2 DEF QueueInv
  <2>4. QED
    BY <1>1, <1>2, <1>3, <2>1, <2>3 DEF QueueInv
<1>4. ASSUME queue' \in Seq(QItems),
             \A k \in DOMAIN queue' : \E j \in DOMAIN queue : queue'[k].id = queue[j].id,
             \A p \in wire' : p \in wire \/ (p.id \in known /\ PacketOK(p))
      PROVE  QueueInv'
  BY <1>1, <1>2, <1>4 DEF QueueInv
<1>5. CASE UNCHANGED <<queue, wire>>
  BY <1>1, <1>2, <1>5 DEF QueueInv
<1>6. CASE Calls
  <2>1. pc = "call" /\ planned # <<>>
    BY <1>6 DEF Calls, CallOk, CallTimesOut, CallFails, Call, PlanInv
  <2>2. Head(planned) \in Requests /\ Head(planned).id \in known
    BY <2>1 DEF PlanInv
  <2>3. CASE UNCHANGED <<queue, wire>>
    BY <1>5, <2>3
  <2>4. CASE ~OutOfRange(Head(planned)) /\ Tx!Push(Enqueued(Head(planned)), TRUE)
    <3>1. /\ Enqueued(Head(planned)) \in Seq(QItems)
          /\ \A k \in DOMAIN Enqueued(Head(planned)) : Enqueued(Head(planned))[k].id \in known'
      BY <1>1, <2>2, <2>4, EnqueuedFacts
    <3>2. queue' = Enqueued(Head(planned)) \o queue /\ UNCHANGED wire
      BY <2>4 DEF Tx!Push
    <3>3. QED
      BY <1>3, <3>1, <3>2
  <2>5. QED
    BY <1>6, <2>3, <2>4 DEF Calls, CallOk, CallTimesOut, CallFails, Call
<1>7. ASSUME NEW i \in Files, Scan(i) \/ Operator(i)
      PROVE  QueueInv'
  <2>1. i \in known' /\ Tx!Push(Tx!FullSend(i, cut[i]), FALSE)
    BY <1>7 DEF Scan, Operator, payload
  <2>2. queue' = queue \o Tx!FullSend(i, cut[i]) /\ UNCHANGED wire
    BY <2>1 DEF Tx!Push
  <2>3. QED
    BY <1>3, <2>1, <2>2, FullSendFacts
<1>8. CASE SendNext
  <2>1. queue # <<>> /\ queue' = Tx!Rest /\ wire' = wire \cup {HeadPacket} /\ HeadPacket.chunk < HeadPacket.num
    BY <1>8 DEF SendNext, Tx!Send
  <2>2. Head(queue) \in QItems /\ Head(queue).id \in known /\ Head(queue).id \in Files
    BY <2>1 DEF QueueInv
  <2>3. HeadPacket.id \in known /\ PacketOK(HeadPacket)
    BY <2>1, <2>2, CutFacts DEF HeadPacket, PacketOK, QItems
  <2>4. queue' \in Seq(QItems) /\ \A k \in DOMAIN queue' : \E j \in DOMAIN queue : queue'[k].id = queue[j].id
    BY <2>1, RestFacts DEF QueueInv, Within
  <2>5. QED
    BY <1>4, <2>1, <2>3, <2>4
<1>9. CASE SendGone \/ SenderExits
  <2>1. queue # <<>> /\ (queue' = Tail(queue) \/ queue' = <<>>) /\ UNCHANGED wire
    BY <1>9 DEF SendGone, SenderExits, Tx!Skip, Tx!Clear
  <2>2. queue' \in Seq(QItems) /\ \A k \in DOMAIN queue' : \E j \in DOMAIN queue : queue'[k].id = queue[j].id
    <3>1. CASE queue' = Tail(queue)
      BY <2>1, <3>1, TailFacts DEF QueueInv
    <3>2. CASE queue' = <<>>
      BY <3>2
    <3>3. QED
      BY <2>1, <3>1, <3>2
  <2>3. QED
    BY <1>4, <2>1, <2>2
<1>10. ASSUME NEW p \in wire, Lose(p)
       PROVE  QueueInv'
  BY <1>1, <1>2, <1>10 DEF Lose, QueueInv
<1>11. QED
  BY <1>5, <1>6, <1>7, <1>8, <1>9, <1>10, Frame DEF Sends

\* in_flight lists ids of manifests, none twice.
LEMMA ListingFacts ==
  ASSUME HoldInv
  PROVE  /\ Ascending(DOMAIN holding) \in Seq(known)
         /\ \A j, k \in 1 .. Len(Ascending(DOMAIN holding)) :
              j # k => Ascending(DOMAIN holding)[j] # Ascending(DOMAIN holding)[k]
<1> DEFINE D == DOMAIN holding
<1>1. D \in SUBSET Files /\ D \subseteq Int
  <2>1. D \subseteq known /\ known \subseteq Files
    BY DEF HoldInv
  <2>2. Files \subseteq Int
    BY CleanerAssumption
  <2> HIDE DEF D
  <2>3. QED
    BY <2>1, <2>2
<1>2. IsFiniteSet(D)
  BY <1>1, FS_Subset, CleanerAssumption
<1>3. D \subseteq known
  BY DEF HoldInv
<1> HIDE DEF D
<1>4. /\ Ascending(D) \in Seq(D)
      /\ \A j, k \in 1 .. Len(Ascending(D)) : j # k => Ascending(D)[j] # Ascending(D)[k]
  BY <1>1, <1>2, AscendingFacts
<1>5. Ascending(D) \in Seq(known)
  BY <1>3, <1>4
<1>6. QED
  BY <1>4, <1>5 DEF D

\* Steps keep PlanInv.
LEMMA PlanStep == ASSUME HoldInv, QueueInv, PlanInv, [Next]_vars PROVE PlanInv'
<1>1. known \subseteq known' /\ known' \subseteq Files
  BY KnownGrows DEF QueueInv
<1>2. ids \in Seq(known') /\ \A k \in DOMAIN planned : planned[k].id \in known'
  BY <1>1 DEF PlanInv
<1>3. max_in_flight \in Nat
  BY CleanerAssumption
<1>4. CASE UNCHANGED <<pc, ids, planned, acked>>
  BY <1>1, <1>2, <1>4 DEF PlanInv
<1>5. CASE AskStatus \/ Start \/ Save
  BY <1>1, <1>2, <1>5 DEF PlanInv, AskStatus, Start, Save, PCs
<1>6. CASE ListHolding
  <2>1. ids' \in Seq(known') /\ UNCHANGED <<planned, acked>> /\ pc' = NextFile(ids')
    BY <1>1, <1>6, ListingFacts DEF ListHolding
  <2>2. QED
    BY <1>1, <1>2, <2>1 DEF PlanInv, NextFile, PCs
<1>7. CASE ReadName
  <2>1. /\ pc = "name" /\ pc' = "ranges" /\ UNCHANGED <<ids, acked>> /\ ids # <<>>
        /\ planned' = planned \/ planned' = Append(planned, Name(Head(ids)))
    BY <1>7 DEF ReadName, PlanInv
  <2>2. Head(ids) \in known
    BY <2>1 DEF PlanInv
  <2>3. Name(Head(ids)) \in Requests /\ Name(Head(ids)).id \in known
    BY <2>2 DEF Name, Requests, PlanInv
  <2>4. planned' \in Seq(Requests) /\ \A k \in DOMAIN planned' : planned'[k].id \in known'
    <3> DEFINE r == Name(Head(ids))
    <3>1. r \in Requests /\ r.id \in known' /\ planned \in Seq(Requests)
      BY <1>1, <2>3 DEF PlanInv
    <3>2. planned' = planned \/ planned' = Append(planned, r)
      BY <2>1
    <3> HIDE DEF r
    <3>3. CASE planned' = planned
      BY <1>2, <3>1, <3>3
    <3>4. CASE planned' = Append(planned, r)
      <4>1. /\ planned' \in Seq(Requests) /\ Len(planned') = Len(planned) + 1
            /\ \A k \in 1 .. Len(planned) : planned'[k] = planned[k]
            /\ planned'[Len(planned) + 1] = r
        BY <3>1, <3>4
      <4>2. QED
        BY <1>2, <3>1, <4>1
    <3>5. QED
      BY <3>2, <3>3, <3>4
  <2>5. QED
    BY <1>1, <1>2, <2>1, <2>4 DEF PlanInv, PCs
<1>8. CASE ReadRanges
  <2> DEFINE i == Head(ids)
             more == MissingRanges(i, holding[i])
  <2>1. /\ pc = "ranges" /\ ids' = Tail(ids) /\ pc' = NextFile(ids') /\ UNCHANGED acked
        /\ ids # <<>> /\ i \in known
    BY <1>8 DEF ReadRanges, PlanInv
  <2>2. planned' \in Seq(Requests) /\ \A k \in DOMAIN planned' : planned'[k].id \in known'
    <3>1. CASE i \in DOMAIN holding
      <4>1. planned' = planned \o more
        BY <1>8, <3>1 DEF ReadRanges
      <4>2. holding[i].num \in 1 .. MaxCount /\ i \in Files /\ MaxCount \in Nat
        BY <2>1, <3>1, CutFacts DEF HoldInv, ManifestOK
      <4>3. more \in Seq(Requests) /\ \A k \in 1 .. Len(more) : more[k].id = i
        BY <4>2, RangesFacts
      <4> HIDE DEF more, i
      <4>4. planned \in Seq(Requests) /\ i \in known'
        BY <1>1, <2>1 DEF PlanInv
      <4>5. /\ planned' \in Seq(Requests)
            /\ \A k \in DOMAIN planned' :
                 \/ \E j \in DOMAIN planned : planned'[k] = planned[j]
                 \/ \E j \in DOMAIN more : planned'[k] = more[j]
        BY <4>1, <4>3, <4>4, ConcatFacts
      <4>6. \A j \in DOMAIN more : more[j].id = i
        BY <4>3
      <4>7. QED
        BY <1>2, <4>4, <4>5, <4>6
    <3>2. CASE i \notin DOMAIN holding
      BY <1>2, <1>8, <3>2 DEF ReadRanges, PlanInv
    <3>3. QED
      BY <3>1, <3>2
  <2>3. ids' \in Seq(known')
    BY <1>2, <2>1
  <2>4. QED
    BY <1>1, <2>1, <2>2, <2>3 DEF PlanInv, NextFile, PCs
<1>9. CASE EndOfPlan
  BY <1>1, <1>2, <1>3, <1>9 DEF PlanInv, EndOfPlan, PCs
<1>10. CASE SkipRequest \/ Calls
  <2>1. planned # <<>> /\ planned' = Tail(planned) /\ UNCHANGED ids /\ pc' = "consider"
    BY <1>10 DEF SkipRequest, Considering, Calls, CallOk, CallTimesOut, CallFails, Call, PlanInv
  <2>2. acked' \in 0 .. max_in_flight
    <3>1. acked' = acked \/ (pc = "call" /\ acked' = acked + 1)
      BY <1>10 DEF SkipRequest, Calls, CallOk, CallTimesOut, CallFails, Call
    <3>2. QED
      BY <1>3, <3>1 DEF PlanInv
  <2>3. planned' \in Seq(Requests) /\ \A k \in DOMAIN planned' : planned'[k].id \in known'
    BY <1>2, <2>1, TailFacts DEF PlanInv
  <2>4. QED
    BY <1>1, <1>2, <2>1, <2>2, <2>3 DEF PlanInv, PCs
<1>11. CASE TakeRequest
  BY <1>1, <1>2, <1>3, <1>11 DEF PlanInv, TakeRequest, Considering, Exhausted, PCs
<1>12. CASE Stop
  BY <1>1, <1>3, <1>12 DEF PlanInv, Stop, PCs
<1>13. QED
  BY <1>4, <1>5, <1>6, <1>7, <1>8, <1>9, <1>10, <1>11, <1>12, Frame DEF Pass, Calls

\* Steps keep TablesInv.
LEMMA TablesStep == ASSUME PlanInv, TablesInv, [Next]_vars PROVE TablesInv'
<1>1. ASSUME NEW t, Table(t) PROVE Table(Aged(t))
  <2>1. Timed(Aged(t))
    BY <1>1, AgedFacts DEF Table, Timed
  <2>2. DOMAIN Aged(t) \subseteq DOMAIN t
    BY DEF Aged
  <2>3. QED
    BY <1>1, <2>1, <2>2 DEF Table, Timed
<1>2. ASSUME NEW t, NEW r \in Requests, Table(t) PROVE Table(Insert(t, r))
  BY <1>2, CleanerAssumption DEF Table, Insert
<1>3. CASE UNCHANGED <<dedup, saved, asked>>
  BY <1>3 DEF TablesInv
<1>4. CASE TakeRequest
  <2>1. Head(planned) \in Requests
    BY <1>4, TailFacts DEF TakeRequest, Considering, PlanInv
  <2>2. QED
    BY <1>2, <1>4, <2>1 DEF TakeRequest, TablesInv
<1>5. CASE Save \/ Start \/ Tick
  BY <1>1, <1>5 DEF Save, Persisted, Start, Tick, TablesInv
<1>6. CASE Stop
  <2>1. Table(<<>>)
    BY DEF Table
  <2>2. QED
    BY <1>1, <1>6, <2>1 DEF Stop, TablesInv
<1>7. QED
  BY <1>3, <1>4, <1>5, <1>6, Frame

\* The shape is an invariant: it is inductive.
LEMMA ShapeInit == ASSUME Init PROVE ShapeInv
<1>1. HoldInv
  BY DEF Init, HoldInv, Rx!Init
<1>2. QueueInv
  BY DEF Init, QueueInv, Tx!Init
<1>3. PlanInv
  BY CleanerAssumption DEF Init, PlanInv, PCs
<1>4. TablesInv
  BY DEF Init, TablesInv, Table
<1>5. QED
  BY <1>1, <1>2, <1>3, <1>4 DEF ShapeInv, Init

LEMMA ShapeStep == ASSUME ShapeInv, [Next]_vars PROVE ShapeInv'
<1>1. HoldInv' /\ QueueInv' /\ PlanInv' /\ TablesInv'
  BY HoldStep, QueueStep, PlanStep, TablesStep DEF ShapeInv
<1>2. disturbed' \in BOOLEAN
  <2>1. disturbed \in BOOLEAN
    BY DEF ShapeInv
  <2>2. CASE Calls
    BY <2>1, <2>2, Zenon DEF Calls, CallOk, CallTimesOut, CallFails, Call
  <2>3. ASSUME NEW i \in Files, Scan(i) \/ Operator(i)
        PROVE  disturbed' \in BOOLEAN
    BY <2>3, Zenon DEF Scan, Operator
  <2>4. CASE UNCHANGED <<status, disturbed>> \/ AskStatus \/ EndOfPlan \/ Stop
    BY <2>1, <2>4, Zenon DEF AskStatus, EndOfPlan, Stop
  <2>5. QED
    BY <2>2, <2>3, <2>4, Frame
<1>3. QED
  BY <1>1, <1>2 DEF ShapeInv

\* The type invariant, for any files, chunk counts, budget, TTL and failures:
\* the sender's and the receiver's answers are about files the payload has, what
\* is asked for are ranges of chunks, and no pass has more than max_in_flight
\* requests answered (run_pass).
THEOREM CleanerTypes == Spec => []TypeOK
<1>1. Init => ShapeInv
  BY ShapeInit
<1>2. ShapeInv /\ [Next]_vars => ShapeInv'
  BY ShapeStep
<1>3. ShapeInv => TypeOK
  BY ShapeIsType
<1>4. QED
  BY <1>1, <1>2, <1>3, PTL DEF Spec
-----------------------------------------------------------------------------
(* Nothing that is on its way is asked for.                                *)

\* Item x of a queue has some of what r asks for.
Hits(r, x) ==
  /\ x.id = r.id
  /\ IF r.kind = "ResendName" THEN x.kind = "Manifest"
     ELSE x.kind # "Manifest" /\ Overlap(r, x)

\* Two requests for different things.
Apart(r, s) == r.id # s.id \/ r.kind # s.kind \/ (r.kind = "Retransmit" /\ ~Overlap(r, s))

\* The plan has nothing twice, and nothing of the files that are still to be read.
OrderInv ==
  /\ \A j, k \in DOMAIN ids : j # k => ids[j] # ids[k]
  /\ pc \in {"idle", "list", "save", "down"} => planned = <<>>
  /\ pc = "name" =>
       \A j \in DOMAIN planned, k \in DOMAIN ids : planned[j].id # ids[k]
  /\ pc = "ranges" =>
       \A j \in DOMAIN planned, k \in DOMAIN ids :
         planned[j].id = ids[k] => k = 1 /\ planned[j].kind = "ResendName"
  /\ \A j, k \in DOMAIN planned : j # k => Apart(planned[j], planned[k])

\* x was in the queue, or was part of an item, when the status was read.
Reported(x) == \E j \in DOMAIN status : Within(x, status[j])

\* Unless whole files were queued since: the queue holds nothing that was not
\* reported, but for requests of this pass that no other request of it hits.
PendingInv ==
  status # None /\ ~disturbed =>
    /\ status \in Seq(QItems)
    /\ \A k \in DOMAIN queue :
         \/ Reported(queue[k])
         \/ /\ pc \in {"consider", "call"}
            /\ \A j \in DOMAIN planned : ~Hits(planned[j], queue[k])
    /\ pc = "call" => ~IsAlreadyPending(Head(planned))

\* Steps keep OrderInv.
LEMMA OrderStep == ASSUME ShapeInv, OrderInv, [Next]_vars PROVE OrderInv'
<1>1. /\ ids \in Seq(known) /\ planned \in Seq(Requests)
      /\ pc \in {"name", "ranges"} => ids # <<>>
      /\ pc = "call" => planned # <<>>
  BY DEF ShapeInv, PlanInv
<1>2. CASE UNCHANGED <<pc, ids, planned, acked>>
  BY <1>2 DEF OrderInv
<1>3. CASE AskStatus \/ Start \/ Save
  BY <1>3 DEF OrderInv, AskStatus, Start, Save
<1>4. CASE ListHolding
  <2>1. planned = <<>> /\ UNCHANGED planned /\ pc' \in {"consider", "name"}
    BY <1>4 DEF ListHolding, OrderInv, NextFile
  <2>2. \A j, k \in DOMAIN ids' : j # k => ids'[j] # ids'[k]
    BY <1>4, ListingFacts DEF ListHolding, ShapeInv
  <2>3. QED
    BY <2>1, <2>2 DEF OrderInv
<1>5. CASE ReadName
  <2>1. /\ pc = "name" /\ pc' = "ranges" /\ UNCHANGED ids /\ ids # <<>>
        /\ planned' = planned \/ planned' = Append(planned, Name(Head(ids)))
    BY <1>1, <1>5 DEF ReadName
  <2>2. CASE planned' = planned
    BY <2>1, <2>2 DEF OrderInv
  <2>3. CASE planned' = Append(planned, Name(Head(ids)))
    <3> DEFINE r == Name(Head(ids))
               n == Len(planned)
    <3>1. r.id = ids[1] /\ r.kind = "ResendName" /\ 1 \in DOMAIN ids
      BY <1>1, <2>1 DEF Name
    <3> HIDE DEF r
    <3>2. /\ DOMAIN planned = 1 .. n /\ DOMAIN planned' = 1 .. n + 1 /\ n \in Nat
          /\ planned'[n + 1] = r /\ \A j \in 1 .. n : planned'[j] = planned[j]
      BY <1>1, <2>3 DEF r
    <3> HIDE DEF n
    <3>3. \A j \in 1 .. n, k \in DOMAIN ids : planned[j].id # ids[k]
      BY <2>1, <3>2 DEF OrderInv
    <3>4. ASSUME NEW j \in DOMAIN planned', NEW k \in DOMAIN ids, planned'[j].id = ids[k]
          PROVE  k = 1 /\ planned'[j].kind = "ResendName"
      BY <3>1, <3>2, <3>3, <3>4 DEF OrderInv
    <3>5. ASSUME NEW j \in DOMAIN planned', NEW k \in DOMAIN planned', j # k
          PROVE  Apart(planned'[j], planned'[k])
      <4>1. CASE j # n + 1 /\ k # n + 1
        BY <3>2, <3>5, <4>1 DEF OrderInv
      <4>2. CASE j = n + 1 \/ k = n + 1
        BY <3>1, <3>2, <3>3, <3>5, <4>2 DEF Apart
      <4>3. QED
        BY <4>1, <4>2
    <3>6. QED
      BY <2>1, <3>4, <3>5 DEF OrderInv
  <2>4. QED
    BY <2>1, <2>2, <2>3
<1>6. CASE ReadRanges
  <2> DEFINE i == Head(ids)
             more == MissingRanges(i, holding[i])
  <2>1. /\ pc = "ranges" /\ ids # <<>> /\ ids' = Tail(ids) /\ pc' \in {"consider", "name"}
        /\ i = ids[1] /\ 1 \in DOMAIN ids /\ i \in Files
    BY <1>1, <1>6, TailFacts DEF ReadRanges, NextFile, ShapeInv, PlanInv
  <2>2. \A k \in DOMAIN ids' : k + 1 \in DOMAIN ids /\ ids'[k] = ids[k + 1] /\ k \in Nat \ {0}
    BY <1>1, <2>1, TailFacts
  <2>3. \A j, k \in DOMAIN ids' : j # k => ids'[j] # ids'[k]
    BY <2>2 DEF OrderInv
  <2>4. \A k \in DOMAIN ids' : ids'[k] # i
    BY <2>1, <2>2 DEF OrderInv
  <2>5. \A j \in DOMAIN planned, k \in DOMAIN ids' : planned[j].id # ids'[k]
    BY <2>1, <2>2 DEF OrderInv
  <2>6. \A j \in DOMAIN planned : planned[j].id = i => planned[j].kind = "ResendName"
    BY <2>1 DEF OrderInv
  <2>7. CASE i \notin DOMAIN holding
    <3>1. planned' = planned
      BY <1>6, <2>7 DEF ReadRanges
    <3>2. QED
      BY <2>1, <2>3, <2>5, <3>1 DEF OrderInv
  <2>8. CASE i \in DOMAIN holding
    <3>1. planned' = planned \o more
      BY <1>6, <2>8 DEF ReadRanges
    <3>2. holding[i].num \in 1 .. MaxCount /\ MaxCount \in Nat
      BY <2>1, <2>8, CutFacts DEF ShapeInv, HoldInv, ManifestOK
    <3>3. /\ more \in Seq(Requests)
          /\ \A k \in 1 .. Len(more) : more[k].kind = "Retransmit" /\ more[k].id = i
          /\ \A j, k \in 1 .. Len(more) : j # k => ~Overlap(more[j], more[k])
      BY <2>1, <3>2, RangesFacts
    <3> HIDE DEF more, i
    <3>4. \A k \in DOMAIN planned' :
            \/ k \in DOMAIN planned /\ planned'[k] = planned[k]
            \/ /\ k - Len(planned) \in 1 .. Len(more)
               /\ planned'[k] = more[k - Len(planned)]
               /\ planned'[k].kind = "Retransmit" /\ planned'[k].id = i
      BY <1>1, <3>1, <3>3, ConcatFacts
    <3>5. \A j \in DOMAIN planned', k \in DOMAIN ids' : planned'[j].id # ids'[k]
      BY <2>4, <2>5, <3>4
    <3>6. ASSUME NEW j \in DOMAIN planned', NEW k \in DOMAIN planned', j # k
          PROVE  Apart(planned'[j], planned'[k])
      <4>1. CASE j \in DOMAIN planned /\ planned'[j] = planned[j] /\ k \in DOMAIN planned /\ planned'[k] = planned[k]
        BY <3>6, <4>1 DEF OrderInv
      <4>2. ASSUME NEW u \in DOMAIN planned', NEW v \in DOMAIN planned',
                   u \in DOMAIN planned, planned'[u] = planned[u],
                   planned'[v].kind = "Retransmit", planned'[v].id = i
            PROVE  Apart(planned'[u], planned'[v]) /\ Apart(planned'[v], planned'[u])
        BY <2>6, <4>2 DEF Apart
      <4>3. CASE /\ j - Len(planned) \in 1 .. Len(more) /\ planned'[j] = more[j - Len(planned)]
                 /\ k - Len(planned) \in 1 .. Len(more) /\ planned'[k] = more[k - Len(planned)]
        <5>1. j - Len(planned) # k - Len(planned)
          BY <1>1, <3>1, <3>3, <3>6
        <5>2. ~Overlap(planned'[j], planned'[k]) /\ planned'[j].kind = "Retransmit"
          BY <3>3, <4>3, <5>1
        <5>3. QED
          BY <5>2 DEF Apart
      <4>4. QED
        BY <3>4, <4>1, <4>2, <4>3
    <3>7. QED
      BY <2>1, <2>3, <3>5, <3>6 DEF OrderInv
  <2>9. QED
    BY <2>7, <2>8
<1>7. CASE EndOfPlan \/ Stop
  BY <1>7 DEF EndOfPlan, Stop, OrderInv
<1>8. CASE SkipRequest \/ Calls
  <2>1. planned # <<>> /\ planned' = Tail(planned) /\ UNCHANGED ids /\ pc' = "consider"
    BY <1>1, <1>8 DEF SkipRequest, Considering, Calls, CallOk, CallTimesOut, CallFails, Call
  <2>2. \A k \in DOMAIN planned' : k + 1 \in DOMAIN planned /\ planned'[k] = planned[k + 1] /\ k \in Nat
    BY <1>1, <2>1, TailFacts
  <2>3. \A j, k \in DOMAIN planned' : j # k => Apart(planned'[j], planned'[k])
    BY <2>2 DEF OrderInv
  <2>4. QED
    BY <2>1, <2>3 DEF OrderInv
<1>9. CASE TakeRequest
  BY <1>9 DEF TakeRequest, Considering, OrderInv
<1>10. QED
  BY <1>2, <1>3, <1>4, <1>5, <1>6, <1>7, <1>8, <1>9, Frame DEF Pass, Calls

\* What is left of an item hits no more than the item did.
LEMMA WithinHits ==
  ASSUME NEW r \in Requests, NEW x \in QItems, NEW y \in QItems, Within(x, y), Hits(r, x)
  PROVE  Hits(r, y)
<1>1. r.start \in Nat /\ r.count \in Nat
  BY RequestFacts
<1>2. x.start \in Nat /\ x.count \in Nat /\ y.start \in Nat /\ y.count \in Nat
  BY DEF QItems
<1>3. /\ x.id = y.id /\ x.kind = y.kind
      /\ y.start <= x.start /\ x.start + x.count <= y.start + y.count
  BY DEF Within
<1>4. Overlap(r, x) => Overlap(r, y)
  BY <1>1, <1>2, <1>3 DEF Overlap
<1>5. QED
  BY <1>3, <1>4 DEF Hits

LEMMA WithinTransitive ==
  ASSUME NEW x \in QItems, NEW y \in QItems, NEW z \in QItems, Within(x, y), Within(y, z)
  PROVE  Within(x, z)
BY DEF Within, QItems

\* The item that a request which does not wrap becomes hits no request apart from it.
LEMMA EnqueuedHits ==
  ASSUME QueueInv, NEW r \in Requests, NEW s \in Requests, ~OutOfRange(r), ~Wraps(r), Apart(r, s),
         NEW k \in DOMAIN Enqueued(r)
  PROVE  ~Hits(s, Enqueued(r)[k])
<1>1. /\ r.kind \in {"Retransmit", "ResendName"} /\ r.start \in Nat /\ r.count \in Nat
      /\ s.kind \in {"Retransmit", "ResendName"} /\ s.start \in Nat /\ s.count \in Nat
  BY RequestFacts
<1>2. CASE r.kind = "ResendName"
  <2>1. Enqueued(r) = <<Tx!Item("Manifest", r.id, 0, 1)>>
    BY <1>2, EnqueuedFacts
  <2>2. Enqueued(r)[k].kind = "Manifest" /\ Enqueued(r)[k].id = r.id
    BY <2>1 DEF Tx!Item
  <2>3. QED
    BY <1>1, <1>2, <2>2 DEF Hits, Apart
<1>3. CASE r.kind = "Retransmit"
  <2>1. PICK c \in 1 .. r.count : Enqueued(r) = <<Tx!Item("Retransmit", r.id, r.start, c)>>
    BY <1>3, EnqueuedFacts
  <2>2. /\ Enqueued(r)[k].kind = "Retransmit" /\ Enqueued(r)[k].id = r.id
        /\ Enqueued(r)[k].start = r.start /\ Enqueued(r)[k].count = c
    BY <2>1 DEF Tx!Item
  <2>3. Overlap(s, Enqueued(r)[k]) => Overlap(r, s)
    BY <1>1, <2>1, <2>2 DEF Overlap
  <2>4. QED
    BY <1>1, <1>3, <2>2, <2>3 DEF Hits, Apart
<1>4. QED
  BY <1>1, <1>2, <1>3

\* Steps keep PendingInv.
LEMMA PendingStep == ASSUME ShapeInv, OrderInv, PendingInv, [Next]_vars PROVE PendingInv'
<1> SUFFICES ASSUME status' # None, ~disturbed'
             PROVE  /\ status' \in Seq(QItems)
                    /\ \A k \in DOMAIN queue' :
                         \/ Reported(queue[k])'
                         \/ /\ pc' \in {"consider", "call"}
                            /\ \A j \in DOMAIN planned' : ~Hits(planned'[j], queue'[k])
                    /\ pc' = "call" => ~IsAlreadyPending(Head(planned))'
  BY DEF PendingInv
<1>1. /\ queue \in Seq(QItems) /\ planned \in Seq(Requests)
      /\ pc = "call" => planned # <<>>
      /\ \A y \in QItems : Within(y, y)
  BY DEF ShapeInv, QueueInv, PlanInv, Within, QItems
<1>2. CASE AskStatus
  <2>1. status' = queue /\ UNCHANGED queue /\ pc' = "list"
    BY <1>2 DEF AskStatus, others
  <2>2. QED
    BY <1>1, <2>1 DEF Reported
<1>3. CASE EndOfPlan \/ Stop
  BY <1>3 DEF EndOfPlan, Stop
<1>4. ASSUME NEW i \in Files, Scan(i) \/ Operator(i)
      PROVE  FALSE
  BY <1>4 DEF Scan, Operator, daemon
<1>5. CASE Calls
  <2> DEFINE r == Head(planned)
  <2>1. /\ pc = "call" /\ pc' = "consider" /\ planned' = Tail(planned) /\ UNCHANGED status
        /\ planned # <<>> /\ r \in Requests /\ r = planned[1] /\ 1 \in DOMAIN planned
    <3>1. pc = "call" /\ pc' = "consider" /\ planned' = Tail(planned) /\ UNCHANGED status
      BY <1>5, Zenon DEF Calls, CallOk, CallTimesOut, CallFails, Call
    <3>2. QED
      BY <1>1, <3>1
  <2>2. \A k \in DOMAIN planned' : k + 1 \in DOMAIN planned /\ planned'[k] = planned[k + 1] /\ k \in Nat \ {0}
    BY <1>1, <2>1, TailFacts
  <2>3. ~disturbed
    BY <1>5, Zenon DEF Calls, CallOk, CallTimesOut, CallFails, Call
  <2>4. /\ status \in Seq(QItems)
        /\ \A k \in DOMAIN queue : Reported(queue[k]) \/ \A j \in DOMAIN planned : ~Hits(planned[j], queue[k])
    BY <2>1, <2>3 DEF PendingInv
  <2>5. \A k \in DOMAIN queue : Reported(queue[k]) \/ \A j \in DOMAIN planned' : ~Hits(planned'[j], queue[k])
    BY <2>2, <2>4
  <2>6. CASE UNCHANGED queue
    BY <2>1, <2>4, <2>5, <2>6 DEF Reported
  <2>7. CASE ~OutOfRange(r) /\ ~Wraps(r) /\ queue' = Enqueued(r) \o queue
    <3>1. Enqueued(r) \in Seq(QItems)
      BY <2>1, <2>7, EnqueuedFacts DEF ShapeInv
    <3>2. \A j \in DOMAIN planned' : planned'[j] \in Requests /\ Apart(r, planned'[j])
      BY <1>1, <2>1, <2>2 DEF OrderInv
    <3>3. \A k \in DOMAIN Enqueued(r), j \in DOMAIN planned' : ~Hits(planned'[j], Enqueued(r)[k])
      BY <2>1, <2>7, <3>2, EnqueuedHits DEF ShapeInv
    <3>4. \A k \in DOMAIN queue' : \/ \E m \in DOMAIN Enqueued(r) : queue'[k] = Enqueued(r)[m]
                                   \/ \E m \in DOMAIN queue : queue'[k] = queue[m]
      BY <1>1, <2>7, <3>1, ConcatFacts
    <3>5. ASSUME NEW k \in DOMAIN queue'
          PROVE  Reported(queue'[k]) \/ \A j \in DOMAIN planned' : ~Hits(planned'[j], queue'[k])
      BY <2>5, <3>3, <3>4
    <3>6. QED
      BY <2>1, <2>4, <3>5 DEF Reported
  <2>8. QED
    <3>1. UNCHANGED queue \/ (~OutOfRange(r) /\ ~Wraps(r) /\ Tx!Push(Enqueued(r), TRUE))
      BY <1>5, <2>1, Zenon DEF Calls, CallOk, CallTimesOut, CallFails, Call
    <3>2. QED
      BY <2>6, <2>7, <3>1 DEF Tx!Push
<1>6. CASE Sends
  <2>1. UNCHANGED <<pc, planned, status, disturbed>>
    BY <1>6 DEF Sends, SendNext, SendGone, SenderExits, daemon
  <2>2. queue' \in Seq(QItems) /\ \A k \in DOMAIN queue' : \E m \in DOMAIN queue : Within(queue'[k], queue[m])
    <3>1. queue # <<>> /\ (queue' = Tx!Rest \/ queue' = Tail(queue) \/ queue' = <<>>)
      BY <1>6 DEF Sends, SendNext, SendGone, SenderExits, Tx!Send, Tx!Skip, Tx!Clear
    <3>2. CASE queue' = Tx!Rest
      BY <1>1, <3>1, <3>2, RestFacts
    <3>3. CASE queue' = Tail(queue)
      BY <1>1, <3>1, <3>3, TailFacts
    <3>4. CASE queue' = <<>>
      BY <3>4
    <3>5. QED
      BY <3>1, <3>2, <3>3, <3>4
  <2>3. /\ status \in Seq(QItems)
        /\ \A k \in DOMAIN queue :
             \/ Reported(queue[k])
             \/ /\ pc \in {"consider", "call"}
                /\ \A j \in DOMAIN planned : ~Hits(planned[j], queue[k])
        /\ pc = "call" => ~IsAlreadyPending(Head(planned))
    BY <2>1 DEF PendingInv
  <2>4. ASSUME NEW k \in DOMAIN queue'
        PROVE  \/ Reported(queue'[k])
               \/ /\ pc \in {"consider", "call"}
                  /\ \A j \in DOMAIN planned : ~Hits(planned[j], queue'[k])
    <3>1. PICK m \in DOMAIN queue : Within(queue'[k], queue[m])
      BY <2>2
    <3>2. queue'[k] \in QItems /\ queue[m] \in QItems
      BY <1>1, <2>2
    <3>3. CASE Reported(queue[m])
      BY <2>3, <3>1, <3>2, <3>3, WithinTransitive DEF Reported
    <3>4. CASE pc \in {"consider", "call"} /\ \A j \in DOMAIN planned : ~Hits(planned[j], queue[m])
      BY <1>1, <3>1, <3>2, <3>4, WithinHits
    <3>5. QED
      BY <2>3, <3>3, <3>4
  <2>5. QED
    BY <2>1, <2>3, <2>4 DEF Reported, IsAlreadyPending
<1>7. ASSUME UNCHANGED <<status, disturbed>>
      PROVE  /\ status \in Seq(QItems)
             /\ \A k \in DOMAIN queue :
                  \/ Reported(queue[k])
                  \/ /\ pc \in {"consider", "call"}
                     /\ \A j \in DOMAIN planned : ~Hits(planned[j], queue[k])
             /\ pc = "call" => ~IsAlreadyPending(Head(planned))
  BY <1>7 DEF PendingInv
<1>8. CASE UNCHANGED <<queue, status, disturbed, pc, planned>>
  BY <1>7, <1>8 DEF Reported, IsAlreadyPending
<1>9. CASE ListHolding \/ ReadName \/ ReadRanges \/ Save \/ Start
  <2>1. UNCHANGED <<queue, status, disturbed>> /\ pc \notin {"consider", "call"} /\ pc' # "call"
    BY <1>9 DEF ListHolding, ReadName, ReadRanges, Save, Start, NextFile, others
  <2>2. QED
    BY <1>7, <2>1 DEF Reported
<1>10. CASE SkipRequest
  <2>1. /\ planned # <<>> /\ planned' = Tail(planned) /\ UNCHANGED <<queue, status, disturbed>>
        /\ pc' = "consider" /\ pc = "consider"
    BY <1>10 DEF SkipRequest, Considering, others
  <2>2. \A k \in DOMAIN planned' : k + 1 \in DOMAIN planned /\ planned'[k] = planned[k + 1]
    BY <1>1, <2>1, TailFacts
  <2>3. QED
    BY <1>7, <2>1, <2>2 DEF Reported
<1>11. CASE TakeRequest
  <2>1. /\ UNCHANGED <<queue, status, disturbed, planned>> /\ pc' = "call" /\ pc = "consider"
        /\ ~IsAlreadyPending(Head(planned))
    BY <1>11 DEF TakeRequest, Considering, others
  <2>2. QED
    BY <1>7, <2>1 DEF Reported, IsAlreadyPending
<1>12. QED
  <2>1. ASSUME NEW p \in wire, Lose(p)
        PROVE  UNCHANGED <<queue, status, disturbed, pc, planned>>
    BY <2>1 DEF Lose, daemon
  <2>2. QED
    BY <1>2, <1>3, <1>4, <1>5, <1>6, <1>8, <1>9, <1>10, <1>11, <2>1, Frame DEF Pass, Calls

\* NeverDoubled, for any files, chunk counts, budget, TTL and failures, and any
\* length of the queue: run_pass asks for nothing that the sender has queued.
THEOREM NothingDoubled == Spec => NeverDoubled
<1> DEFINE Inv == ShapeInv /\ OrderInv /\ PendingInv
<1>1. Init => Inv
  <2>1. Init => OrderInv /\ PendingInv
    BY DEF Init, OrderInv, PendingInv
  <2>2. QED
    BY <2>1, ShapeInit
<1>2. Inv /\ [Next]_vars => Inv'
  BY ShapeStep, OrderStep, PendingStep
<1>3. ASSUME Inv, [Next]_vars, pc = "call", status # None, ~disturbed
      PROVE  ~Queued(Head(planned))
  <2> DEFINE r == Head(planned)
  <2>1. planned \in Seq(Requests) /\ planned # <<>> /\ queue \in Seq(QItems)
    BY <1>3 DEF ShapeInv, PlanInv, QueueInv
  <2>2. r \in Requests /\ r = planned[1] /\ 1 \in DOMAIN planned
    BY <2>1, TailFacts
  <2>3. /\ status \in Seq(QItems) /\ ~IsAlreadyPending(r)
        /\ \A k \in DOMAIN queue : Reported(queue[k]) \/ ~Hits(r, queue[k])
    BY <1>3, <2>2 DEF PendingInv
  <2> HIDE DEF r
  <2>4. \A j \in DOMAIN status : ~Hits(r, status[j])
    BY <1>3, <2>3 DEF IsAlreadyPending, Hits
  <2>5. ASSUME NEW k \in DOMAIN queue PROVE ~Hits(r, queue[k])
    <3>1. CASE Reported(queue[k])
      <4>1. PICK j \in DOMAIN status : Within(queue[k], status[j])
        BY <3>1 DEF Reported
      <4>2. queue[k] \in QItems /\ status[j] \in QItems
        BY <2>1, <2>3
      <4>3. QED
        BY <2>2, <2>4, <4>1, <4>2, WithinHits
    <3>2. QED
      BY <2>3, <3>1
  <2>6. QED
    BY <2>5 DEF Queued, Hits, r
<1>4. Inv /\ [Next]_vars =>
        [pc = "call" /\ pc' = "consider" /\ queue' # queue =>
           status = None \/ disturbed \/ ~Queued(Head(planned))]_vars
  BY <1>3
<1>5. QED
  BY <1>1, <1>2, <1>4, PTL DEF Spec, NeverDoubled
-----------------------------------------------------------------------------
(* The gaps of an assembly.                                                *)

\* For all files, chunk counts and states of a sidecar, a pass plans a request for
\* every chunk that is missing in it, once, and for none that was received.
THEOREM GapsArePlanned == Spec => PlansTheGaps
<1> DEFINE m == holding[Head(ids)]
           added == Len(planned) + 1 .. Len(planned')
           asks(k, c) == /\ planned'[k].kind = "Retransmit" /\ planned'[k].id = Head(ids)
                         /\ c \in planned'[k].start .. planned'[k].start + planned'[k].count - 1
           Exact == \A c \in 0 .. m.num - 1 :
                      IF c \in m.bits THEN \A k \in added : ~asks(k, c)
                      ELSE \E k \in added : asks(k, c) /\ \A j \in added \ {k} : ~asks(j, c)
<1>1. ASSUME ShapeInv, [Next]_vars,
             pc = "ranges", ids' # ids, pc' # "down", Head(ids) \in DOMAIN holding
      PROVE  Exact
  <2> DEFINE i == Head(ids)
             p == MissingRanges(i, m)
             n == Len(planned)
             in(k, c) == c \in p[k].start .. p[k].start + p[k].count - 1
  <2>1. ReadRanges
    <3>1. Pass \/ Stop \/ Start
      BY <1>1, Frame
    <3>2. QED
      BY <1>1, <3>1 DEF Stop, Start, Pass, AskStatus, ListHolding, ReadName, EndOfPlan,
         SkipRequest, TakeRequest, Considering, CallOk, CallTimesOut, CallFails, Call, Save
  <2>2. planned' = planned \o p
    BY <1>1, <2>1 DEF ReadRanges
  <2>3. /\ i \in Files /\ m.num \in 1 .. MaxCount /\ MaxCount \in Nat
        /\ planned \in Seq(Requests)
    <3>1. i \in Files /\ m.num \in 1 .. MaxCount
      BY <1>1 DEF ShapeInv, HoldInv, ManifestOK
    <3>2. QED
      BY <1>1, <3>1, CutFacts DEF ShapeInv, PlanInv
  <2>4. /\ p \in Seq(Requests)
        /\ \A k \in 1 .. Len(p) : p[k].kind = "Retransmit" /\ p[k].id = i
    BY <2>3, RangesFacts
  <2>5. \A c \in 0 .. m.num - 1 :
          IF c \in m.bits THEN \A k \in 1 .. Len(p) : ~in(k, c)
          ELSE \E k \in 1 .. Len(p) : in(k, c) /\ \A j \in (1 .. Len(p)) \ {k} : ~in(j, c)
    BY <2>3, GapsCovered
  <2> HIDE DEF p, m, i
  <2>6. n \in Nat /\ Len(p) \in Nat /\ added = n + 1 .. n + Len(p)
    BY <2>2, <2>3, <2>4
  <2>7. ASSUME NEW k \in added
        PROVE  k - n \in 1 .. Len(p) /\ planned'[k] = p[k - n]
    BY <2>2, <2>3, <2>4, <2>6
  <2>8. ASSUME NEW k \in 1 .. Len(p)
        PROVE  n + k \in added /\ (n + k) - n = k
    BY <2>6
  <2> HIDE DEF added, n
  <2>9. ASSUME NEW k \in added, NEW c
        PROVE  asks(k, c) <=> in(k - n, c)
    BY <2>4, <2>7, <2>9 DEF i
  <2>10. ASSUME NEW c \in 0 .. m.num - 1, c \in m.bits, NEW k \in added
         PROVE  ~asks(k, c)
    BY <2>5, <2>7, <2>9, <2>10
  <2>11. ASSUME NEW c \in 0 .. m.num - 1, c \notin m.bits
         PROVE  \E k \in added : asks(k, c) /\ \A j \in added \ {k} : ~asks(j, c)
    <3>1. PICK l \in 1 .. Len(p) : in(l, c) /\ \A j \in (1 .. Len(p)) \ {l} : ~in(j, c)
      BY <2>5, <2>11
    <3>2. n + l \in added /\ asks(n + l, c)
      BY <2>8, <2>9, <3>1
    <3>3. ASSUME NEW j \in added \ {n + l} PROVE ~asks(j, c)
      <4>1. j - n \in 1 .. Len(p) /\ j - n # l
        BY <2>6, <2>7 DEF added
      <4>2. QED
        BY <2>9, <3>1, <4>1
    <3>4. QED
      BY <3>2, <3>3
  <2>12. QED
    BY <2>10, <2>11
<1>2. ASSUME ShapeInv, [Next]_vars
      PROVE  [pc = "ranges" /\ ids' # ids /\ pc' # "down" /\ Head(ids) \in DOMAIN holding
                => Exact]_vars
  BY <1>1, <1>2
<1>3. QED
  <2>1. Spec => []ShapeInv
    BY ShapeInit, ShapeStep, PTL DEF Spec
  <2>2. QED
    BY <1>2, <2>1, PTL DEF Spec, PlansTheGaps
-----------------------------------------------------------------------------
\* BitmapIsASet, for files of any size: the byte-wise create, set, is_set,
\* is_complete and missing_ranges of Manifest, and the count that stats reports,
\* are those of a set of chunk numbers, however many bytes the bitmap takes.
THEOREM SidecarIsSet == Spec => []BitmapIsASet
<1>1. \A n \in 1 .. MaxChunks : n \in Nat
  BY ManifestAssumption
<1>2. Marking
  <2>1. ASSUME NEW n \in 1 .. MaxChunks, NEW marked \in SUBSET (0 .. n + 1), NEW c \in 0 .. n + 1
        PROVE  SetBit(Bitmap(marked, n), c) = Bitmap(marked \cup {c}, n)
    BY <1>1, MarkingFacts
  <2>2. ASSUME NEW n \in 1 .. MaxChunks
        PROVE  Bitmap({}, n) = Blank(n)
    BY <1>1, MarkingFacts
  <2>3. QED
    BY <2>1, <2>2 DEF Marking, EveryBitmap
<1>3. Membership
  BY <1>1, IsSetFacts, CompleteFacts DEF Membership, EveryBitmap
<1>4. Ranges
  <2>1. ASSUME NEW n \in 1 .. MaxChunks, NEW marked, NEW q, q = MissingRangesOf(Bitmap(marked, n), n)
        PROVE  /\ ToSet(q) = MissingRuns(marked, n)
               /\ \A j, k \in DOMAIN q : j < k => q[j][1] < q[k][1]
    <3>1. /\ q \in Seq(Pairs) /\ ToSet(q) = MissingRuns(marked, n)
          /\ \A j, k \in 1 .. Len(q) : j < k => q[j][1] < q[k][1]
      BY <1>1, <2>1, MissingRangesFacts
    <3>2. DOMAIN q = 1 .. Len(q)
      BY <3>1
    <3>3. QED
      BY <3>1, <3>2
  <2>2. QED
    BY <2>1 DEF Ranges, EveryBitmap
<1>5. Counting
  BY <1>1, ReceivedFacts DEF Counting, EveryBitmap
<1>6. BitmapIsASet
  BY <1>2, <1>3, <1>4, <1>5 DEF BitmapIsASet
<1>7. QED
  BY <1>6, PTL
-----------------------------------------------------------------------------
(* The composition: around a pass there are no other daemons than the ones that
   Reassembler and Sender are shown to implement.                          *)

\* A packet has a chunk count that its file was once cut with.
CountsInUse == \A p \in wire : p.id \in Files /\ p.num \in {c[p.id] : c \in Cuts}

\* Steps keep CountsInUse.
LEMMA CountsStep == ASSUME QueueInv, CountsInUse, [Next]_vars PROVE CountsInUse'
<1>1. CASE SendNext
  <2>1. queue # <<>> /\ wire' = wire \cup {HeadPacket}
    BY <1>1 DEF SendNext
  <2>2. HeadPacket.id = Head(queue).id /\ HeadPacket.num = cut[Head(queue).id]
    BY DEF HeadPacket
  <2>3. Head(queue).id \in Files /\ cut \in Cuts
    BY <2>1 DEF QueueInv
  <2>4. QED
    BY <2>1, <2>2, <2>3 DEF CountsInUse
<1>2. CASE wire' \subseteq wire
  BY <1>2 DEF CountsInUse
<1>3. QED
  BY <1>1, <1>2, Frame DEF Calls, CallOk, CallTimesOut, CallFails, Call, Sends, SendGone,
     SenderExits, Scan, Operator, Lose, Tx!Push, Tx!Skip, Tx!Clear

\* Whatever the link, the sender and the pass do, the holding directory in this
\* composition changes only as Holding allows, which Reassembler implements.
THEOREM ReceiverAsPromised == Spec => Rx!Spec
<1> DEFINE Inv == ShapeInv /\ CountsInUse
<1>1. Init => Inv /\ Rx!Init
  BY ShapeInit DEF Init, CountsInUse, Tx!Init
<1>2. Inv /\ [Next]_vars => Inv'
  BY ShapeStep, CountsStep DEF ShapeInv
<1>3. ASSUME Inv, [Next]_vars PROVE [Rx!Next]_(Rx!vars)
  <2>1. CASE UNCHANGED holding
    BY <2>1 DEF Rx!vars
  <2>2. ASSUME NEW p \in wire, Arrive(p) PROVE Rx!Next
    <3> DEFINE counts == {c[p.id] : c \in Cuts}
    <3>1. p.id \in Files /\ p.num \in counts /\ p.names \in BOOLEAN
      BY <1>3 DEF CountsInUse, ShapeInv, QueueInv, PacketOK
    <3>2. CASE Rx!Open(p.id, p.num, p.names)
      BY <3>1, <3>2 DEF Rx!Next
    <3>3. CASE Rx!LearnName(p.id)
      BY <3>1, <3>3 DEF Rx!Next
    <3>4. CASE p.num = holding[p.id].num /\ Rx!LearnChunk(p.id, p.chunk)
      <4>1. p.chunk \in 0 .. p.num - 1
        BY <3>4 DEF Rx!LearnChunk
      <4>2. QED
        BY <3>1, <3>4, <4>1 DEF Rx!Next
    <3>5. QED
      BY <2>2, <3>2, <3>3, <3>4 DEF Arrive, Opens, Updates
  <2>3. ASSUME NEW i \in Files, Finalize(i) PROVE Rx!Next
    BY <2>3 DEF Finalize, Rx!Next
  <2>4. QED
    BY <1>3, <2>1, <2>2, <2>3, Frame
<1>4. QED
  BY <1>1, <1>2, <1>3, PTL DEF Spec, Rx!Spec

\* What is pushed is work, one item or a whole file.
LEMMA PushedIsWork ==
  ASSUME queue \in Seq(QItems), NEW items \in Seq(QItems), Len(items) \in {1, 2},
         Tx!Work(items), NEW interrupt \in BOOLEAN, Tx!Push(items, interrupt)
  PROVE  Tx!PushWork
<1> DEFINE n == Len(items)
<1>1. CASE interrupt
  <2>1. queue' = items \o queue /\ UNCHANGED wire
    BY <1>1 DEF Tx!Push
  <2>2. Len(queue') = n + Len(queue) /\ SubSeq(queue', 1, n) = items /\ Len(queue) \in Nat
    BY <2>1, Prefixed
  <2>3. Len(queue') = Len(queue) + n
    BY <2>2
  <2>4. Tx!Work(SubSeq(queue', 1, n)) /\ Tx!Push(SubSeq(queue', 1, n), TRUE)
    BY <2>1, <2>2 DEF Tx!Push
  <2>5. QED
    BY <2>3, <2>4 DEF Tx!PushWork
<1>2. CASE ~interrupt
  <2>1. queue' = queue \o items /\ UNCHANGED wire
    BY <1>2 DEF Tx!Push
  <2>2. Len(queue') = Len(queue) + n /\ SubSeq(queue', Len(queue) + 1, Len(queue')) = items
    BY <2>1, Prefixed
  <2>3. Tx!Push(SubSeq(queue', Len(queue) + 1, Len(queue')), FALSE)
    BY <2>1, <2>2 DEF Tx!Push
  <2>4. QED
    BY <2>2, <2>3 DEF Tx!PushWork
<1>3. QED
  BY <1>1, <1>2

\* The files that are sent in full, and the requests that are carried out, are work.
LEMMA EnqueuedIsWork ==
  ASSUME QueueInv
  PROVE  /\ \A i \in Files : LET s == Tx!FullSend(i, cut[i]) IN
              Tx!Work(s) /\ Len(s) = 2
         /\ \A r \in Requests : ~OutOfRange(r) =>
              Tx!Work(Enqueued(r)) /\ Len(Enqueued(r)) \in {1, 2}
<1>1. ASSUME NEW i \in Files
      PROVE  Tx!Work(Tx!FullSend(i, cut[i])) /\ Len(Tx!FullSend(i, cut[i])) = 2
  BY DEF Tx!Work, Tx!FullSend, Tx!Item
<1>2. ASSUME NEW r \in Requests, ~OutOfRange(r)
      PROVE  Tx!Work(Enqueued(r)) /\ Len(Enqueued(r)) \in {1, 2}
  <2>1. r.kind \in {"Retransmit", "ResendName"} /\ r.id \in Files /\ r.start \in Nat /\ r.count \in Nat
    BY RequestFacts
  <2>2. CASE r.kind = "ResendName"
    <3>1. Enqueued(r) = <<Tx!Item("Manifest", r.id, 0, 1)>>
      BY <1>2, <2>2, EnqueuedFacts
    <3>2. QED
      BY <2>1, <3>1 DEF Tx!Work, Tx!Item
  <2>3. CASE Wraps(r)
    <3>1. Enqueued(r) = Tx!FullSend(r.id, cut[r.id])
      BY <2>3 DEF Enqueued, Wraps
    <3>2. QED
      BY <1>1, <2>1, <3>1
  <2>4. CASE r.kind = "Retransmit" /\ ~Wraps(r)
    <3>1. PICK c \in 1 .. r.count : Enqueued(r) = <<Tx!Item("Retransmit", r.id, r.start, c)>>
      BY <1>2, <2>4, EnqueuedFacts
    <3>2. QED
      BY <2>1, <3>1 DEF Tx!Work, Tx!Item
  <2>5. QED
    BY <2>1, <2>2, <2>3, <2>4
<1>3. QED
  BY <1>1, <1>2

\* The link loses a packet.
Lossy == \E p \in wire : wire' = wire \ {p} /\ UNCHANGED queue

\* Whatever the pass asks for and whoever else queues files, the queue and what was
\* sent from it change only as SendQueue allows, which Sender implements, but for
\* the packets that the link loses.
THEOREM SenderAsPromised == Spec => Tx!Init /\ [][Tx!Next \/ Lossy]_(Tx!vars)
<1>1. ASSUME ShapeInv, [Next]_vars PROVE [Tx!Next \/ Lossy]_(Tx!vars)
  <2>1. QueueInv /\ queue \in Seq(QItems)
    BY <1>1 DEF ShapeInv, QueueInv
  <2>2. CASE UNCHANGED <<queue, wire>>
    BY <2>2 DEF Tx!vars
  <2>3. CASE Calls
    <3> DEFINE r == Head(planned)
    <3>1. r \in Requests
      <4>1. pc = "call"
        BY <2>3 DEF Calls, CallOk, CallTimesOut, CallFails, Call
      <4>2. planned \in Seq(Requests) /\ planned # <<>>
        BY <1>1, <4>1 DEF ShapeInv, PlanInv
      <4>3. QED
        BY <4>2
    <3> HIDE DEF r
    <3>2. CASE ~OutOfRange(r) /\ Tx!Push(Enqueued(r), TRUE)
      <4>1. /\ Enqueued(r) \in Seq(QItems) /\ Len(Enqueued(r)) \in {1, 2}
            /\ Tx!Work(Enqueued(r))
        BY <2>1, <3>1, <3>2, EnqueuedFacts, EnqueuedIsWork
      <4>2. QED
        BY <2>1, <3>2, <4>1, PushedIsWork DEF Tx!Next
    <3>3. QED
      BY <2>2, <2>3, <3>2 DEF Calls, CallOk, CallTimesOut, CallFails, Call, r
  <2>4. ASSUME NEW i \in Files, Scan(i) \/ Operator(i) PROVE Tx!Next
    <3>1. Tx!Push(Tx!FullSend(i, cut[i]), FALSE)
      BY <2>4 DEF Scan, Operator
    <3>2. /\ Tx!FullSend(i, cut[i]) \in Seq(QItems) /\ Len(Tx!FullSend(i, cut[i])) = 2
          /\ Tx!Work(Tx!FullSend(i, cut[i]))
      BY <2>1, FullSendFacts, EnqueuedIsWork
    <3>3. QED
      BY <2>1, <3>1, <3>2, PushedIsWork DEF Tx!Next
  <2>5. CASE Sends
    BY <2>5 DEF Sends, SendNext, SendGone, SenderExits, Tx!Next
  <2>6. ASSUME NEW p \in wire, Lose(p) PROVE Lossy
    BY <2>6 DEF Lose, Lossy
  <2>7. QED
    BY <1>1, <2>2, <2>3, <2>4, <2>5, <2>6, Frame
<1>2. Init => Tx!Init
  BY DEF Init
<1>3. Spec => []ShapeInv
  BY ShapeInit, ShapeStep, PTL DEF Spec
<1>4. QED
  BY <1>1, <1>2, <1>3, PTL DEF Spec
=============================================================================
