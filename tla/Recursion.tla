------------------------------ MODULE Recursion ------------------------------
(***************************************************************************)
(* Induction over numbers, functions defined by recursion, and what the    *)
(* recursive operators on sequences return.  The library's principles take *)
(* a predicate as a parameter; here it is the set of the numbers that      *)
(* satisfy it.                                                             *)
(***************************************************************************)
EXTENDS Integers, SequencesExt, SequenceTheorems, WellFoundedInduction, TLAPS

\* A nonempty set of numbers has a least one.
LEMMA Least ==
  ASSUME NEW S, S \subseteq Nat, S # {}
  PROVE  \E k \in S : \A j \in S : k <= j
<1>1. PICK k \in S : \A j \in S : ~(<<j, k>> \in OpToRel(<, Nat))
  BY WFMin, NatLessThanWellFounded
<1>2. ASSUME NEW j \in S PROVE k <= j
  <2>1. j \in Nat /\ k \in Nat
    OBVIOUS
  <2>2. j < k => <<j, k>> \in OpToRel(<, Nat)
    BY <2>1 DEF OpToRel
  <2>3. ~(<<j, k>> \in OpToRel(<, Nat))
    BY <1>1
  <2>4. ~(j < k)
    BY <2>2, <2>3
  <2>5. QED
    BY <2>1, <2>4
<1>3. QED
  BY <1>2

\* Upwards from 0.
LEMMA Induction ==
  ASSUME NEW T, 0 \in T, \A n \in Nat : n \in T => n + 1 \in T
  PROVE  \A n \in Nat : n \in T
<1> DEFINE B == {n \in Nat : n \notin T}
<1>1. SUFFICES ASSUME B # {} PROVE FALSE
  OBVIOUS
<1>2. PICK k \in B : \A j \in B : k <= j
  BY <1>1, Least
<1>3. k \in Nat /\ k # 0 /\ k \notin T
  OBVIOUS
<1>4. k - 1 \in Nat /\ k - 1 \notin B
  BY <1>2, <1>3
<1>5. k - 1 \in T
  BY <1>4
<1>6. (k - 1) + 1 \in T
  BY <1>4, <1>5
<1>7. QED
  BY <1>3, <1>6

\* Downwards from n.
LEMMA DownInduction ==
  ASSUME NEW n \in Nat, NEW T,
         \A i \in 0 .. n : (\A j \in i + 1 .. n : j \in T) => i \in T
  PROVE  \A i \in 0 .. n : i \in T
<1> DEFINE B == {d \in 0 .. n : n - d \notin T}
<1>1. ASSUME B # {} PROVE FALSE
  <2>1. B \subseteq Nat
    OBVIOUS
  <2>2. PICK d \in B : \A j \in B : d <= j
    BY <1>1, <2>1, Least
  <2>3. ASSUME NEW j \in n - d + 1 .. n PROVE j \in T
    <3>1. n - j \in 0 .. n /\ n - j < d /\ n - (n - j) = j
      BY <2>2
    <3>2. n - j \notin B
      BY <2>2, <3>1
    <3>3. QED
      BY <3>1, <3>2
  <2>4. n - d \in 0 .. n /\ n - d \notin T
    BY <2>2
  <2>5. QED
    BY <2>3, <2>4
<1>2. ASSUME NEW i \in 0 .. n PROVE i \in T
  <2>1. n - i \in 0 .. n /\ n - (n - i) = i
    OBVIOUS
  <2>2. QED
    BY <1>1, <2>1
<1>3. QED
  BY <1>2

\* The value that H gives a function from S to V at x depends only on its values
\* at arguments of lower rank d, and ranks are bounded.
ByRank(S, V, N, d, H) ==
  /\ N \in Nat /\ d \in [S -> 0 .. N]
  /\ V # {} /\ H \in [S \X [S -> V] -> V]
  /\ \A x \in S : \A f, g \in [S -> V] :
       (\A y \in S : d[y] < d[x] => f[y] = g[y]) => H[<<x, f>>] = H[<<x, g>>]

\* Then there is a function that takes the values H gives it.
LEMMA RecursiveFunction ==
  ASSUME NEW S, NEW V, NEW N, NEW d, NEW H, ByRank(S, V, N, d, H)
  PROVE  \E f \in [S -> V] : \A x \in S : f[x] = H[<<x, f>>]
<1> USE DEF ByRank
<1> DEFINE Good(f, m) == \A x \in S : d[x] < m => f[x] = H[<<x, f>>]
           T == {m \in Nat : \E f \in [S -> V] : Good(f, m)}
<1>1. \A x \in S : d[x] \in 0 .. N
  OBVIOUS
<1>2. 0 \in T
  <2>1. PICK v : v \in V
    OBVIOUS
  <2>2. [x \in S |-> v] \in [S -> V]
    BY <2>1
  <2>3. \A f : Good(f, 0)
    BY <1>1
  <2>4. QED
    BY <2>2, <2>3
<1>3. ASSUME NEW m \in Nat, m \in T PROVE m + 1 \in T
  <2>1. PICK f \in [S -> V] : Good(f, m)
    BY <1>3
  <2> DEFINE g == [x \in S |-> IF d[x] = m THEN H[<<x, f>>] ELSE f[x]]
  <2>2. g \in [S -> V]
    OBVIOUS
  <2>3. \A y \in S : g[y] = IF d[y] = m THEN H[<<y, f>>] ELSE f[y]
    OBVIOUS
  <2> HIDE DEF g
  <2>4. ASSUME NEW x \in S, d[x] < m + 1 PROVE g[x] = H[<<x, g>>]
    <3>1. ASSUME NEW y \in S, d[y] < d[x] PROVE f[y] = g[y]
      <4>1. d[y] # m
        BY <1>1, <2>4, <3>1
      <4>2. QED
        BY <2>3, <4>1
    <3>2. H[<<x, f>>] = H[<<x, g>>]
      BY <2>2, <3>1
    <3>3. CASE d[x] = m
      BY <2>3, <3>2, <3>3
    <3>4. CASE d[x] < m
      BY <2>1, <2>3, <3>2, <3>4
    <3>5. d[x] \in Int
      BY <1>1
    <3>6. d[x] = m \/ d[x] < m
      BY <2>4, <3>5
    <3>7. QED
      BY <3>3, <3>4, <3>6
  <2>5. QED
    BY <2>2, <2>4
<1>4. \A m \in Nat : m \in T
  <2> HIDE DEF T
  <2>1. QED
    BY <1>2, <1>3, Induction
<1>5. N + 1 \in T
  <2> HIDE DEF T
  <2>1. QED
    BY <1>4
<1>6. PICK f \in [S -> V] : Good(f, N + 1)
  BY <1>5
<1>7. \A x \in S : d[x] < N + 1
  BY <1>1
<1>8. QED
  BY <1>6, <1>7

\* A sequence of values, each made from the one before by G.
Steps(n, V, b, G) == n \in Nat /\ b \in V /\ G \in [(1 .. n) \X V -> V]

Stepped(n, V, b, G, f) ==
  /\ f \in [0 .. n -> V]
  /\ f[0] = b /\ \A k \in 1 .. n : f[k] = G[<<k, f[k - 1]>>]

\* There is one.
LEMMA PrimitiveRecursion ==
  ASSUME NEW n, NEW V, NEW b, NEW G, Steps(n, V, b, G)
  PROVE  \E f : Stepped(n, V, b, G, f)
<1> USE DEF Steps
<1> DEFINE S == 0 .. n
           d == [k \in S |-> k]
           E(f, k) == IF k = 0 THEN b ELSE G[<<k, f[k - 1]>>]
           H == [p \in S \X [S -> V] |-> E(p[2], p[1])]
<1>1. d \in [S -> 0 .. n] /\ \A k \in S : d[k] = k
  OBVIOUS
<1>2. \A k \in S : k = 0 \/ (k \in 1 .. n /\ k - 1 \in S /\ k - 1 < k)
  OBVIOUS
<1>3. ASSUME NEW k \in S, NEW f \in [S -> V]
      PROVE  E(f, k) \in V /\ H[<<k, f>>] = E(f, k)
  <2>1. E(f, k) \in V
    <3> HIDE DEF S
    <3>1. QED
      BY <1>2
  <2> HIDE DEF E, S
  <2>2. QED
    BY <2>1
<1>4. H \in [S \X [S -> V] -> V]
  <2> HIDE DEF E, S
  <2>1. QED
    BY <1>3
<1>5. ASSUME NEW k \in S, NEW f \in [S -> V], NEW g \in [S -> V],
             \A j \in S : d[j] < d[k] => f[j] = g[j]
      PROVE  H[<<k, f>>] = H[<<k, g>>]
  <2> HIDE DEF S, d
  <2>1. k # 0 => k - 1 \in S /\ d[k - 1] < d[k]
    BY <1>1, <1>2
  <2>2. k # 0 => f[k - 1] = g[k - 1]
    BY <1>5, <2>1
  <2>3. E(f, k) = E(g, k)
    BY <2>2, Zenon
  <2> HIDE DEF E, H
  <2>4. QED
    BY <1>3, <2>3
<1>6. \E f \in [S -> V] : \A k \in S : f[k] = E(f, k)
  <2> HIDE DEF E, S, H, d
  <2>1. ByRank(S, V, n, d, H)
    BY <1>1, <1>4, <1>5 DEF ByRank
  <2>2. \E f \in [S -> V] : \A k \in S : f[k] = H[<<k, f>>]
    BY <2>1, RecursiveFunction
  <2>3. QED
    BY <1>3, <2>2
<1>7. PICK f \in [S -> V] : \A k \in S : f[k] = E(f, k)
  BY <1>6
<1>8. f[0] = b
  <2>1. 0 \in S
    OBVIOUS
  <2>2. f[0] = E(f, 0)
    BY <1>7, <2>1, Zenon
  <2>3. QED
    BY <2>2, Zenon
<1>9. ASSUME NEW k \in 1 .. n PROVE f[k] = G[<<k, f[k - 1]>>]
  <2>1. k \in S /\ k # 0
    OBVIOUS
  <2>2. f[k] = E(f, k)
    BY <1>7, <2>1
  <2>3. QED
    BY <2>1, <2>2, Zenon
<1>10. QED
  BY <1>7, <1>8, <1>9 DEF Stepped

\* What steps that way stays within V.
LEMMA StepsStay ==
  ASSUME NEW n, NEW V, NEW b, NEW G, Steps(n, V, b, G), NEW f, f[0] = b,
         \A k \in 1 .. n : f[k - 1] \in V => f[k] = G[<<k, f[k - 1]>>]
  PROVE  \A k \in 0 .. n : f[k] \in V
<1> DEFINE T == {k \in Nat : k <= n => f[k] \in V}
<1>1. n \in Nat /\ b \in V /\ \A k \in 1 .. n, v \in V : G[<<k, v>>] \in V
  BY DEF Steps
<1>2. 0 \in T
  BY <1>1
<1>3. ASSUME NEW k \in Nat, k \in T PROVE k + 1 \in T
  <2>1. SUFFICES ASSUME k + 1 <= n PROVE f[k + 1] \in V
    OBVIOUS
  <2>2. k <= n /\ k + 1 \in 1 .. n /\ (k + 1) - 1 = k
    BY <1>1, <2>1
  <2>3. f[k] \in V
    BY <1>3, <2>2
  <2>4. f[k + 1] = G[<<k + 1, f[k]>>]
    BY <2>2, <2>3
  <2>5. QED
    BY <1>1, <2>2, <2>3, <2>4
<1>4. \A k \in Nat : k \in T
  <2> HIDE DEF T
  <2>1. QED
    BY <1>2, <1>3, Induction
<1>5. QED
  BY <1>1, <1>4
-----------------------------------------------------------------------------
(* Sequences.                                                              *)

\* The first m elements.
LEMMA PrefixFacts ==
  ASSUME NEW V, NEW s \in Seq(V), NEW m \in 0 .. Len(s)
  PROVE  /\ SubSeq(s, 1, m) \in Seq(V) /\ Len(SubSeq(s, 1, m)) = m
         /\ \A i \in 1 .. m : SubSeq(s, 1, m)[i] = s[i]
<1>1. Len(s) \in Nat /\ \A i \in 1 .. Len(s) : s[i] \in V
  BY LenProperties, ElementOfSeq
<1>2. 1 \in Int /\ m \in Int /\ 1 <= m + 1 /\ \A i \in 1 .. m : s[i] \in V
  BY <1>1
<1>3. SubSeq(s, 1, m) \in Seq(V) /\ Len(SubSeq(s, 1, m)) = m
  BY <1>1, <1>2, SubSeqProperties
<1>4. ASSUME NEW i \in 1 .. m PROVE SubSeq(s, 1, m)[i] = s[i]
  <2>1. SubSeq(s, 1, m)[i] = s[1 + i - 1] /\ 1 + i - 1 = i
    BY <1>2, SubSeqProperties
  <2>2. QED
    BY <2>1
<1>5. QED
  BY <1>3, <1>4

\* A prefix of a sequence, one longer.
LEMMA PrefixAppend ==
  ASSUME NEW V, NEW s \in Seq(V), NEW m \in 1 .. Len(s) + 1, NEW n \in m .. Len(s)
  PROVE  /\ SubSeq(s, m, n) = Append(SubSeq(s, m, n - 1), s[n])
         /\ SubSeq(s, m, n - 1) \in Seq(V)
<1>1. Len(s) \in Nat /\ \A k \in 1 .. Len(s) : s[k] \in V
  BY LenProperties, ElementOfSeq
<1>2. m \in 1 .. Len(s) /\ n \in m .. Len(s) /\ n - 1 \in Int
  BY <1>1
<1>3. SubSeq(s, m, n) = SubSeq(s, m, n - 1) \o <<s[n]>>
  BY <1>2, SubSeqRecursiveSecond
<1>4. \A i \in m .. n - 1 : s[i] \in V
  BY <1>1, <1>2
<1>5. SubSeq(s, m, n - 1) \in Seq(V)
  BY <1>2, <1>4, SubSeqProperties
<1>6. s[n] \in V
  BY <1>1, <1>2
<1>7. QED
  BY <1>3, <1>5, <1>6, AppendIsConcat

\* A sequence by its elements.
LEMMA SeqOfElements ==
  ASSUME NEW S, NEW n \in Nat, NEW f \in [1 .. n -> S]
  PROVE  f \in Seq(S) /\ Len(f) = n /\ DOMAIN f = 1 .. n
OBVIOUS

\* A sequence is a prefix of itself.
LEMMA WholePrefix == ASSUME NEW S, NEW s \in Seq(S) PROVE IsPrefix(s, s)
<1>1. Len(s) \in Nat /\ SubSeq(s, 1, Len(s)) = s
  BY LenProperties, SubSeqFull
<1>2. QED
  BY <1>1 DEF IsPrefix

\* A prefix or a suffix of a concatenation is what was put there.
LEMMA Prefixed ==
  ASSUME NEW S, NEW a \in Seq(S), NEW b \in Seq(S)
  PROVE  /\ Len(a \o b) = Len(a) + Len(b)
         /\ SubSeq(a \o b, 1, Len(a)) = a
         /\ SubSeq(a \o b, Len(a) + 1, Len(a \o b)) = b
<1> DEFINE s == a \o b
<1>1. /\ s \in Seq(S) /\ Len(a) \in Nat /\ Len(b) \in Nat /\ Len(s) = Len(a) + Len(b)
      /\ \A k \in 1 .. Len(a) : s[k] = a[k]
      /\ \A k \in 1 .. Len(b) : s[k + Len(a)] = b[k]
  OBVIOUS
<1> HIDE DEF s
<1>2. SubSeq(s, 1, Len(a)) = a
  <2> DEFINE p == SubSeq(s, 1, Len(a))
  <2>1. p \in Seq(S) /\ Len(p) = Len(a) /\ \A k \in 1 .. Len(a) : p[k] = s[k]
    BY <1>1
  <2> HIDE DEF p
  <2>2. p = a
    BY <1>1, <2>1
  <2>3. QED
    BY <2>2 DEF p
<1>3. SubSeq(s, Len(a) + 1, Len(s)) = b
  <2> DEFINE p == SubSeq(s, Len(a) + 1, Len(s))
  <2>1. p \in Seq(S) /\ Len(p) = Len(b) /\ \A k \in 1 .. Len(b) : p[k] = s[k + Len(a)]
    BY <1>1
  <2> HIDE DEF p
  <2>2. p = b
    BY <1>1, <2>1
  <2>3. QED
    BY <2>2 DEF p
<1>4. QED
  BY <1>1, <1>2, <1>3 DEF s

\* Tuples, one longer.
LEMMA Pair ==
  ASSUME NEW x, NEW y
  PROVE  Append(<<x>>, y) = <<x, y>>
<1> DEFINE S == {x, y}
<1>1. <<x>> \in Seq(S) /\ <<x, y>> \in Seq(S) /\ y \in S
  OBVIOUS
<1>2. Len(<<x>>) = 1 /\ Len(<<x, y>>) = 2
  OBVIOUS
<1>3. /\ Append(<<x>>, y) \in Seq(S) /\ Len(Append(<<x>>, y)) = 2
      /\ \A i \in 1 .. 1 : Append(<<x>>, y)[i] = <<x>>[i]
      /\ Append(<<x>>, y)[2] = y
  BY <1>1, <1>2, AppendProperties
<1> HIDE DEF S
<1>4. \A i \in 1 .. 2 : Append(<<x>>, y)[i] = <<x, y>>[i]
  BY <1>3
<1>5. QED
  BY <1>1, <1>2, <1>3, <1>4, SeqEqual

\* A pair and one more.
LEMMA Triple ==
  ASSUME NEW x, NEW y, NEW z
  PROVE  Append(<<x, y>>, z) = <<x, y, z>>
<1> DEFINE S == {x, y, z}
<1>1. <<x, y>> \in Seq(S) /\ <<x, y, z>> \in Seq(S) /\ z \in S
  OBVIOUS
<1>2. Len(<<x, y>>) = 2 /\ Len(<<x, y, z>>) = 3
  OBVIOUS
<1>3. /\ Append(<<x, y>>, z) \in Seq(S) /\ Len(Append(<<x, y>>, z)) = 3
      /\ \A i \in 1 .. 2 : Append(<<x, y>>, z)[i] = <<x, y>>[i]
      /\ Append(<<x, y>>, z)[3] = z
  BY <1>1, <1>2, AppendProperties
<1> HIDE DEF S
<1>4. \A i \in 1 .. 3 : Append(<<x, y>>, z)[i] = <<x, y, z>>[i]
  BY <1>3
<1>5. QED
  BY <1>1, <1>2, <1>3, <1>4, SeqEqual

\* A triple and one more.
LEMMA Quadruple ==
  ASSUME NEW x, NEW y, NEW z, NEW w
  PROVE  Append(<<x, y, z>>, w) = <<x, y, z, w>>
<1> DEFINE S == {x, y, z, w}
<1>1. <<x, y, z>> \in Seq(S) /\ <<x, y, z, w>> \in Seq(S) /\ w \in S
  OBVIOUS
<1>2. Len(<<x, y, z>>) = 3 /\ Len(<<x, y, z, w>>) = 4
  OBVIOUS
<1>3. /\ Append(<<x, y, z>>, w) \in Seq(S) /\ Len(Append(<<x, y, z>>, w)) = 4
      /\ \A i \in 1 .. 3 : Append(<<x, y, z>>, w)[i] = <<x, y, z>>[i]
      /\ Append(<<x, y, z>>, w)[4] = w
  BY <1>1, <1>2, AppendProperties
<1> HIDE DEF S
<1>4. \A i \in 1 .. 4 : Append(<<x, y, z>>, w)[i] = <<x, y, z, w>>[i]
  BY <1>3
<1>5. QED
  BY <1>1, <1>2, <1>3, <1>4, SeqEqual

\* What is where in u = s \o t.
Joined(V, s, t, u) ==
  /\ u \in Seq(V) /\ Len(s) \in Nat /\ Len(t) \in Nat /\ Len(u) = Len(s) + Len(t)
  /\ \A i \in 1 .. Len(s) : u[i] = s[i]
  /\ \A i \in 1 .. Len(t) : u[Len(s) + i] = t[i]

\* The parts of a concatenation.
LEMMA ConcatParts ==
  ASSUME NEW V, NEW s \in Seq(V), NEW t \in Seq(V)
  PROVE  Joined(V, s, t, s \o t)
<1>1. s \o t \in Seq(V) /\ Len(s) \in Nat /\ Len(t) \in Nat /\ Len(s \o t) = Len(s) + Len(t)
  BY ConcatProperties, LenProperties
<1>2. \A i \in 1 .. Len(s) + Len(t) : (s \o t)[i] = IF i <= Len(s) THEN s[i] ELSE t[i - Len(s)]
  BY ConcatProperties
<1>3. \A i \in 1 .. Len(s) : (s \o t)[i] = s[i]
  BY <1>1, <1>2
<1>4. ASSUME NEW i \in 1 .. Len(t) PROVE (s \o t)[Len(s) + i] = t[i]
  <2>1. Len(s) + i \in 1 .. Len(s) + Len(t) /\ ~(Len(s) + i <= Len(s)) /\ (Len(s) + i) - Len(s) = i
    BY <1>1
  <2>2. QED
    BY <1>2, <2>1
<1>5. QED
  BY <1>1, <1>3, <1>4 DEF Joined

\* One more element.
LEMMA JoinedOne ==
  ASSUME NEW V, NEW s, NEW t, NEW u, Joined(V, s, t, u), Len(t) = 1
  PROVE  /\ Len(u) = Len(s) + 1 /\ u[Len(s) + 1] = t[1]
         /\ \A i \in 1 .. Len(s) : u[i] = s[i]
<1>1. 1 \in 1 .. Len(t)
  OBVIOUS
<1>2. QED
  BY <1>1 DEF Joined

\* FlattenSeq, one piece after the other.
Flattening(V, q, f) ==
  /\ f \in [1 .. Len(q) -> Seq(V)]
  /\ f[1] = q[1] /\ FlattenSeq(q) = f[Len(q)]
  /\ \A k \in 2 .. Len(q) : f[k] = f[k - 1] \o q[k]

\* FlattenSeq, by recursion over the pieces.
LEMMA FlattenEquation ==
  ASSUME NEW V, NEW q \in Seq(Seq(V)), q # <<>>
  PROVE  \E f : Flattening(V, q, f)
<1> DEFINE n == Len(q)
           T == Seq(V)
           G == [p \in (1 .. n) \X T |-> p[2] \o q[p[1]]]
           E(f, i) == IF i = 1 THEN q[i] ELSE f[i - 1] \o q[i]
<1>1. n \in Nat /\ n # 0 /\ \A k \in 1 .. n : q[k] \in T
  BY EmptySeq, ElementOfSeq, LenProperties
<1>2. <<>> \in T /\ \A t, u \in T : t \o u \in T
  OBVIOUS
<1>3. \A t \in T : <<>> \o t = t
  BY ConcatEmptySeq
<1> HIDE DEF n, T
<1>4. G \in [(1 .. n) \X T -> T] /\ \A k \in 1 .. n, t \in T : G[<<k, t>>] = t \o q[k]
  BY <1>1, <1>2
<1> HIDE DEF G
<1>5. PICK g : Stepped(n, T, <<>>, G, g)
  <2>1. Steps(n, T, <<>>, G)
    BY <1>1, <1>2, <1>4 DEF Steps
  <2>2. QED
    BY <2>1, PrimitiveRecursion
<1>6. ASSUME NEW k \in 1 .. n PROVE g[k] = g[k - 1] \o q[k] /\ k - 1 \in 0 .. n /\ g[k - 1] \in T
  <2>1. k - 1 \in 0 .. n
    BY <1>1
  <2>2. QED
    BY <1>4, <1>5, <2>1 DEF Stepped
<1> DEFINE h == [i \in 1 .. n |-> g[i]]
<1>7. h = [i \in 1 .. n |-> E(h, i)]
  <2>1. ASSUME NEW i \in 1 .. n PROVE g[i] = E(h, i)
    <3>1. CASE i = 1
      <4>1. g[i] = g[i - 1] \o q[i] /\ q[i] \in T
        BY <1>1, <1>6
      <4>2. i - 1 = 0 /\ g[0] = <<>>
        BY <1>5, <3>1 DEF Stepped
      <4>3. g[i] = <<>> \o q[i]
        BY <4>1, <4>2
      <4>4. QED
        BY <1>3, <3>1, <4>1, <4>3
    <3>2. CASE i # 1
      <4>1. i - 1 \in 1 .. n
        BY <1>1, <3>2
      <4>2. h[i - 1] = g[i - 1]
        BY <4>1
      <4>3. QED
        BY <1>6, <3>2, <4>2
    <3>3. QED
      BY <3>1, <3>2
  <2> HIDE DEF E
  <2>2. QED
    BY <2>1
<1>8. \E f : f = [i \in 1 .. n |-> E(f, i)]
  <2> HIDE DEF E, h
  <2>1. QED
    BY <1>7
<1> DEFINE flat == CHOOSE f : f = [i \in 1 .. n |-> E(f, i)]
<1>9. FlattenSeq(q) = flat[n]
  BY <1>1 DEF FlattenSeq, n
<1>10. flat = [i \in 1 .. n |-> E(flat, i)]
  <2> HIDE DEF E
  <2>1. QED
    BY <1>8
<1> HIDE DEF flat
<1>11. \A i \in 1 .. n : flat[i] = E(flat, i)
  <2> HIDE DEF E
  <2>1. QED
    BY <1>10
<1>12. flat[1] = q[1]
  <2>1. 1 \in 1 .. n
    BY <1>1
  <2>2. flat[1] = E(flat, 1)
    BY <1>11, <2>1, Zenon
  <2>3. QED
    BY <2>2, Zenon
<1>13. ASSUME NEW k \in 2 .. n PROVE flat[k] = flat[k - 1] \o q[k]
  <2>1. k \in 1 .. n /\ k # 1
    BY <1>1
  <2>2. flat[k] = E(flat, k)
    BY <1>11, <2>1, Zenon
  <2>3. QED
    BY <2>1, <2>2, Zenon
<1>14. \A k \in 1 .. n : flat[k] \in T
  <2> DEFINE U == {m \in Nat : m + 1 <= n => flat[m + 1] \in T}
  <2>1. 0 \in U
    BY <1>1, <1>12
  <2>2. ASSUME NEW m \in Nat, m \in U PROVE m + 1 \in U
    <3>1. SUFFICES ASSUME (m + 1) + 1 <= n PROVE flat[(m + 1) + 1] \in T
      BY <2>2
    <3>2. (m + 1) + 1 \in 2 .. n /\ (m + 1) + 1 \in 1 .. n /\ ((m + 1) + 1) - 1 = m + 1 /\ m + 1 <= n
      BY <1>1, <3>1
    <3>3. flat[m + 1] \in T
      BY <2>2, <3>2
    <3>4. flat[(m + 1) + 1] = flat[m + 1] \o q[(m + 1) + 1]
      BY <1>13, <3>2
    <3>5. QED
      BY <1>1, <1>2, <3>2, <3>3, <3>4
  <2>3. \A m \in Nat : m \in U
    <3> HIDE DEF U
    <3>1. QED
      BY <2>1, <2>2, Induction
  <2>4. ASSUME NEW k \in 1 .. n PROVE flat[k] \in T
    <3>1. k - 1 \in Nat /\ (k - 1) + 1 = k /\ k <= n
      BY <1>1
    <3>2. k - 1 \in U
      BY <2>3, <3>1
    <3>3. QED
      BY <3>1, <3>2
  <2>5. QED
    BY <2>4
<1>15. flat \in [1 .. n -> T]
  <2> HIDE DEF E
  <2>1. QED
    BY <1>10, <1>14
<1>16. QED
  BY <1>9, <1>12, <1>13, <1>15 DEF Flattening, n, T

\* So flattening goes piece by piece.
LEMMA FlattenAppend ==
  ASSUME NEW V
  PROVE  /\ FlattenSeq(<<>>) = <<>>
         /\ \A q \in Seq(Seq(V)) : FlattenSeq(q) \in Seq(V)
         /\ \A q \in Seq(Seq(V)), x \in Seq(V) :
              FlattenSeq(Append(q, x)) = FlattenSeq(q) \o x
<1>1. FlattenSeq(<<>>) = <<>>
  BY DEF FlattenSeq
<1>2. ASSUME NEW q \in Seq(Seq(V)) PROVE FlattenSeq(q) \in Seq(V)
  <2>1. CASE q = <<>>
    <3>1. <<>> \in Seq(V)
      OBVIOUS
    <3>2. QED
      BY <1>1, <2>1, <3>1
  <2>2. CASE q # <<>>
    <3>1. PICK f : Flattening(V, q, f)
      BY <2>2, FlattenEquation
    <3>2. Len(q) \in 1 .. Len(q)
      BY <2>2, EmptySeq, LenProperties
    <3>3. QED
      BY <3>1, <3>2 DEF Flattening
  <2>3. QED
    BY <2>1, <2>2
<1>3. ASSUME NEW q \in Seq(Seq(V)), NEW x \in Seq(V)
      PROVE  FlattenSeq(Append(q, x)) = FlattenSeq(q) \o x
  <2> DEFINE p == Append(q, x)
             n == Len(q)
  <2>1. /\ p \in Seq(Seq(V)) /\ p # <<>> /\ Len(p) = n + 1 /\ n \in Nat
        /\ \A k \in 1 .. n : p[k] = q[k]
        /\ p[n + 1] = x
    BY AppendProperties, LenProperties
  <2> HIDE DEF p
  <2>2. PICK f : Flattening(V, p, f)
    BY <2>1, FlattenEquation
  <2>3. /\ f[1] = p[1] /\ FlattenSeq(p) = f[n + 1]
        /\ \A k \in 2 .. n + 1 : f[k] = f[k - 1] \o p[k]
    BY <2>1, <2>2 DEF Flattening
  <2>4. CASE q = <<>>
    <3>1. n = 0
      BY <2>4
    <3>2. FlattenSeq(p) = x
      BY <2>1, <2>3, <3>1
    <3>3. <<>> \o x = x
      BY ConcatEmptySeq
    <3>4. QED
      BY <1>1, <2>4, <3>2, <3>3 DEF p
  <2>5. CASE q # <<>>
    <3>1. PICK g : Flattening(V, q, g)
      BY <2>5, FlattenEquation
    <3>2. /\ g[1] = q[1] /\ FlattenSeq(q) = g[n]
          /\ \A k \in 2 .. n : g[k] = g[k - 1] \o q[k]
      BY <3>1 DEF Flattening
    <3>3. n # 0
      BY <2>5, EmptySeq
    <3> HIDE DEF n
    <3> DEFINE U == {m \in Nat : m + 1 <= n => f[m + 1] = g[m + 1]}
    <3>4. 0 \in U
      BY <2>1, <2>3, <3>1, <3>3, <3>2
    <3>5. ASSUME NEW m \in Nat, m \in U PROVE m + 1 \in U
      <4>1. SUFFICES ASSUME (m + 1) + 1 <= n PROVE f[(m + 1) + 1] = g[(m + 1) + 1]
        BY <3>5
      <4> DEFINE k == (m + 1) + 1
      <4>2. k \in 2 .. n /\ k \in 2 .. n + 1 /\ k \in 1 .. n /\ k - 1 = m + 1 /\ m + 1 <= n
        BY <2>1, <4>1
      <4>3. f[m + 1] = g[m + 1]
        BY <3>5, <4>2
      <4> HIDE DEF k
      <4>4. f[k] = f[m + 1] \o p[k] /\ g[k] = g[m + 1] \o q[k] /\ p[k] = q[k]
        BY <2>1, <2>3, <3>2, <4>2
      <4>5. QED
        BY <4>3, <4>4 DEF k
    <3>6. n - 1 \in U
      <4>1. \A m \in Nat : m \in U
        <5> HIDE DEF U
        <5>1. QED
          BY <3>4, <3>5, Induction
      <4>2. n - 1 \in Nat
        BY <2>1, <3>3
      <4> HIDE DEF U
      <4>3. QED
        BY <4>1, <4>2
    <3>7. f[n] = g[n]
      <4>1. (n - 1) + 1 = n /\ n <= n
        BY <2>1
      <4>2. QED
        BY <3>6, <4>1
    <3>8. n + 1 \in 2 .. n + 1 /\ (n + 1) - 1 = n
      BY <2>1, <3>3
    <3>9. FlattenSeq(p) = f[n] \o p[n + 1]
      BY <2>3, <3>8
    <3>10. QED
      BY <2>1, <3>2, <3>7, <3>9 DEF p
  <2>6. QED
    BY <2>4, <2>5
<1>4. QED
  BY <1>1, <1>2, <1>3

\* Where the j-th piece ends.
Off(q, j) == Len(FlattenSeq(SubSeq(q, 1, j)))

\* What is where in a flattened sequence.
LEMMA FlattenPositions ==
  ASSUME NEW V, NEW q \in Seq(Seq(V))
  PROVE  /\ Off(q, 0) = 0 /\ Off(q, Len(q)) = Len(FlattenSeq(q))
         /\ \A j \in 0 .. Len(q) : Off(q, j) \in 0 .. Len(FlattenSeq(q))
         /\ \A j \in 1 .. Len(q) :
              /\ Off(q, j) = Off(q, j - 1) + Len(q[j])
              /\ \A i \in 1 .. Len(q[j]) : FlattenSeq(q)[Off(q, j - 1) + i] = q[j][i]
<1> DEFINE n == Len(q)
           P(j) == FlattenSeq(SubSeq(q, 1, j))
<1>1. n \in Nat /\ DOMAIN q = 1 .. n /\ \A k \in 1 .. n : q[k] \in Seq(V)
  BY LenProperties, ElementOfSeq
<1>2. SubSeq(q, 1, 0) = <<>> /\ SubSeq(q, 1, n) = q
  BY SubSeqEmpty, SubSeqFull
<1>3. P(0) = <<>> /\ P(n) = FlattenSeq(q)
  BY <1>2, FlattenAppend
<1>4. ASSUME NEW j \in 1 .. n
      PROVE  P(j) = P(j - 1) \o q[j] /\ P(j) \in Seq(V) /\ P(j - 1) \in Seq(V)
  <2>1. SubSeq(q, 1, j) = Append(SubSeq(q, 1, j - 1), q[j]) /\ SubSeq(q, 1, j - 1) \in Seq(Seq(V))
    <3>1. 1 \in 1 .. Len(q) + 1
      BY <1>1
    <3>2. QED
      BY <3>1, PrefixAppend
  <2>2. q[j] \in Seq(V)
    BY <1>1
  <2>3. P(j) = P(j - 1) \o q[j] /\ P(j - 1) \in Seq(V)
    BY <2>1, <2>2, FlattenAppend
  <2> HIDE DEF P
  <2>4. P(j - 1) \o q[j] \in Seq(V)
    BY <2>2, <2>3, ConcatProperties
  <2>5. QED
    BY <2>3, <2>4
<1>5. Off(q, 0) = 0 /\ \A j : Off(q, j) = Len(P(j))
  BY <1>3 DEF Off
<1> HIDE DEF P, n
<1>6. ASSUME NEW j \in 1 .. n
      PROVE  /\ Len(P(j - 1)) \in Nat /\ Len(q[j]) \in Nat
             /\ Len(P(j)) = Len(P(j - 1)) + Len(q[j])
             /\ \A i \in 1 .. Len(P(j - 1)) : P(j)[i] = P(j - 1)[i]
             /\ \A i \in 1 .. Len(q[j]) : P(j)[Len(P(j - 1)) + i] = q[j][i]
  <2> DEFINE s == P(j - 1)
             t == q[j]
  <2>1. s \in Seq(V) /\ t \in Seq(V) /\ P(j) = s \o t
    BY <1>1, <1>4
  <2> HIDE DEF s, t
  <2>2. Len(s) \in Nat /\ Len(t) \in Nat /\ Len(s \o t) = Len(s) + Len(t)
    BY <2>1, ConcatProperties, LenProperties
  <2>3. \A i \in 1 .. Len(s) + Len(t) : (s \o t)[i] = IF i <= Len(s) THEN s[i] ELSE t[i - Len(s)]
    BY <2>1, ConcatProperties
  <2>4. \A i \in 1 .. Len(s) : (s \o t)[i] = s[i]
    BY <2>2, <2>3
  <2>5. ASSUME NEW i \in 1 .. Len(t) PROVE (s \o t)[Len(s) + i] = t[i]
    <3>1. Len(s) + i \in 1 .. Len(s) + Len(t) /\ ~(Len(s) + i <= Len(s)) /\ (Len(s) + i) - Len(s) = i
      BY <2>2
    <3>2. QED
      BY <2>3, <3>1
  <2>6. QED
    BY <2>1, <2>2, <2>4, <2>5 DEF s, t
<1>7. ASSUME NEW j \in 0 .. n
      PROVE  \A k \in Nat : j + k <= n =>
               /\ Len(P(j)) \in Nat /\ Len(P(j + k)) \in Nat /\ Len(P(j)) <= Len(P(j + k))
               /\ \A i \in 1 .. Len(P(j)) : P(j + k)[i] = P(j)[i]
  <2> DEFINE Ok(k) == /\ Len(P(j)) \in Nat /\ Len(P(j + k)) \in Nat /\ Len(P(j)) <= Len(P(j + k))
                      /\ \A i \in 1 .. Len(P(j)) : P(j + k)[i] = P(j)[i]
             T == {k \in Nat : j + k <= n => Ok(k)}
  <2>1. Len(P(j)) \in Nat
    <3>1. CASE j = 0
      BY <1>3, <3>1
    <3>2. CASE j # 0
      <4>1. j \in 1 .. n
        BY <1>1, <3>2
      <4>2. P(j) \in Seq(V)
        BY <1>4, <4>1
      <4>3. QED
        BY <4>2, LenProperties
    <3>3. QED
      BY <3>1, <3>2
  <2>2. 0 \in T
    <3>1. j + 0 = j
      BY <1>1
    <3>2. Ok(0)
      BY <2>1, <3>1
    <3>3. QED
      BY <3>2
  <2>3. ASSUME NEW k \in Nat, k \in T PROVE k + 1 \in T
    <3>1. SUFFICES ASSUME j + (k + 1) <= n PROVE Ok(k + 1)
      OBVIOUS
    <3> DEFINE m == j + (k + 1)
    <3>2. m \in 1 .. n /\ m - 1 = j + k /\ j + k <= n
      BY <1>1, <3>1
    <3>3. /\ Len(P(j)) \in Nat /\ Len(P(j + k)) \in Nat /\ Len(P(j)) <= Len(P(j + k))
          /\ \A i \in 1 .. Len(P(j)) : P(j + k)[i] = P(j)[i]
      BY <2>3, <3>2
    <3> HIDE DEF m, T
    <3>4. /\ Len(P(j + k)) \in Nat /\ Len(q[m]) \in Nat
          /\ Len(P(m)) = Len(P(j + k)) + Len(q[m])
          /\ \A i \in 1 .. Len(P(j + k)) : P(m)[i] = P(j + k)[i]
      BY <1>6, <3>2
    <3>5. \A i \in 1 .. Len(P(j)) : i \in 1 .. Len(P(j + k))
      BY <3>3, <3>4
    <3>6. Len(P(m)) \in Nat /\ Len(P(j)) <= Len(P(m))
      <4>1. \A a, b, c \in Nat : a <= b => b + c \in Nat /\ a <= b + c
        OBVIOUS
      <4>2. QED
        BY <3>3, <3>4, <4>1, Zenon
    <3>7. ASSUME NEW i \in 1 .. Len(P(j)) PROVE P(m)[i] = P(j)[i]
      BY <3>3, <3>4, <3>5
    <3>8. QED
      BY <2>1, <3>6, <3>7 DEF m
  <2>4. \A k \in Nat : k \in T
    <3> HIDE DEF T
    <3>1. QED
      BY <2>2, <2>3, Induction
  <2>5. QED
    BY <2>4
<1>8. ASSUME NEW j \in 0 .. n
      PROVE  /\ Len(P(j)) \in Nat /\ Len(P(n)) \in Nat /\ Len(P(j)) <= Len(P(n))
             /\ \A i \in 1 .. Len(P(j)) : P(n)[i] = P(j)[i]
  <2>1. n - j \in Nat /\ j + (n - j) = n /\ j + (n - j) <= n
    BY <1>1
  <2>2. /\ Len(P(j)) \in Nat /\ Len(P(j + (n - j))) \in Nat /\ Len(P(j)) <= Len(P(j + (n - j)))
        /\ \A i \in 1 .. Len(P(j)) : P(j + (n - j))[i] = P(j)[i]
    BY <1>7, <2>1
  <2>3. QED
    BY <2>1, <2>2
<1>9. ASSUME NEW j \in 1 .. n, NEW i \in 1 .. Len(q[j])
      PROVE  P(n)[Len(P(j - 1)) + i] = q[j][i]
  <2>1. j \in 0 .. n
    BY <1>1
  <2>2. /\ Len(P(j - 1)) \in Nat /\ Len(q[j]) \in Nat /\ Len(P(j)) = Len(P(j - 1)) + Len(q[j])
        /\ P(j)[Len(P(j - 1)) + i] = q[j][i]
    BY <1>6
  <2>3. Len(P(j - 1)) + i \in 1 .. Len(P(j))
    BY <2>2
  <2>4. QED
    BY <1>8, <2>1, <2>2, <2>3
<1>10. \A j \in 1 .. n : Len(P(j)) = Len(P(j - 1)) + Len(q[j])
  BY <1>6
<1>11. \A j \in 0 .. n : Len(P(j)) \in 0 .. Len(P(n))
  BY <1>8
<1>12. Off(q, 0) = 0 /\ Off(q, n) = Len(FlattenSeq(q))
  BY <1>3, <1>5
<1>13. \A j \in 0 .. n : Off(q, j) \in 0 .. Len(FlattenSeq(q))
  BY <1>3, <1>5, <1>11, Zenon
<1>14. ASSUME NEW j \in 1 .. n PROVE Off(q, j) = Off(q, j - 1) + Len(q[j])
  BY <1>5, <1>10, Zenon
<1>15. ASSUME NEW j \in 1 .. n, NEW i \in 1 .. Len(q[j])
       PROVE  FlattenSeq(q)[Off(q, j - 1) + i] = q[j][i]
  BY <1>3, <1>5, <1>9, Zenon
<1>16. QED
  BY <1>12, <1>13, <1>14, <1>15, Zenon DEF n
=============================================================================
