-------------------------- MODULE ReconcilerProofs ---------------------------
(***************************************************************************)
(* Proofs about Reconciler, for any files, period, grace and failures:     *)
(* what a pass holds, that a file is requested once per period, and that   *)
(* the snapshot's text, whole or cut short, is read as what was written,   *)
(* for any characters and ledgers.                                         *)
(***************************************************************************)
EXTENDS Reconciler, Recursion

(* The snapshot as text.  Both readers are loops over characters: their    *)
(* states are followed over a row, a header and a dump.                    *)

\* The lines of a text, one character after the other.
LineState(V) == [done : Seq(Seq(V)), cur : Seq(V)]

NextLine(st, c) ==
  IF c = Break THEN [done |-> NonBlank(st), cur |-> <<>>]
  ELSE [st EXCEPT !.cur = Append(@, c)]

\* The states of the loop over a text's lines, each from the one before.
LEMMA LineStatesEquation ==
  ASSUME NEW V, NEW text \in Seq(V)
  PROVE  LET st == LineStates(text)
         IN  /\ st \in [0 .. Len(text) -> LineState(V)]
             /\ st[0] = [done |-> <<>>, cur |-> <<>>]
             /\ \A k \in 1 .. Len(text) : st[k] = NextLine(st[k - 1], text[k])
<1> DEFINE n == Len(text)
           T == LineState(V)
           b == [done |-> <<>>, cur |-> <<>>]
           G == [p \in (1 .. n) \X T |-> NextLine(p[2], text[p[1]])]
           E(f, k) == IF k = 0 THEN b ELSE NextLine(f[k - 1], text[k])
<1>1. n \in Nat /\ \A k \in 1 .. n : text[k] \in V
  BY ElementOfSeq, LenProperties
<1>2. b \in T
  BY DEF LineState
<1>3. ASSUME NEW t \in T, NEW c \in V PROVE NextLine(t, c) \in T
  <2>1. t.done \in Seq(Seq(V)) /\ t.cur \in Seq(V)
    BY DEF LineState
  <2>2. Append(t.cur, c) \in Seq(V) /\ Append(t.done, t.cur) \in Seq(Seq(V))
    BY <2>1, AppendProperties
  <2>3. NonBlank(t) \in Seq(Seq(V))
    BY <2>1, <2>2 DEF NonBlank
  <2>4. [done |-> NonBlank(t), cur |-> <<>>] \in T
    BY <2>3 DEF LineState
  <2>5. [t EXCEPT !.cur = Append(@, c)] \in T
    BY <2>2 DEF LineState
  <2>6. QED
    BY <2>4, <2>5, Zenon DEF NextLine
<1> HIDE DEF n, T, b
<1>4. G \in [(1 .. n) \X T -> T] /\ \A k \in 1 .. n, t \in T : G[<<k, t>>] = NextLine(t, text[k])
  BY <1>1, <1>3
<1> HIDE DEF G
<1>5. Steps(n, T, b, G)
  BY <1>1, <1>2, <1>4 DEF Steps
<1>6. PICK g : Stepped(n, T, b, G, g)
  BY <1>5, PrimitiveRecursion
<1>7. g = [k \in 0 .. n |-> E(g, k)]
  <2>1. ASSUME NEW k \in 0 .. n PROVE g[k] = E(g, k)
    <3>1. CASE k = 0
      BY <1>6, <3>1 DEF Stepped
    <3>2. CASE k # 0
      <4>1. k \in 1 .. n /\ k - 1 \in 0 .. n
        BY <1>1, <3>2
      <4>2. g[k] = NextLine(g[k - 1], text[k])
        BY <1>4, <1>6, <4>1 DEF Stepped
      <4>3. QED
        BY <3>2, <4>2, Zenon
    <3>3. QED
      BY <3>1, <3>2
  <2>2. g \in [0 .. n -> T]
    BY <1>6 DEF Stepped
  <2> HIDE DEF E
  <2>3. QED
    BY <2>1, <2>2
<1> DEFINE st == CHOOSE f : f = [k \in 0 .. n |-> E(f, k)]
<1>8. LineStates(text) = st
  BY DEF LineStates, NextLine, n, b
<1>9. st = [k \in 0 .. n |-> E(st, k)]
  <2> HIDE DEF E
  <2>1. QED
    BY <1>7
<1> HIDE DEF st
<1>10. \A k \in 0 .. n : st[k] = E(st, k)
  <2> HIDE DEF E
  <2>1. QED
    BY <1>9
<1>11. st[0] = b
  <2>1. 0 \in 0 .. n
    BY <1>1
  <2>2. st[0] = E(st, 0)
    BY <1>10, <2>1, Zenon
  <2>3. QED
    BY <2>2, Zenon
<1>12. ASSUME NEW k \in 1 .. n PROVE st[k] = NextLine(st[k - 1], text[k])
  <2>1. k \in 0 .. n /\ k # 0
    BY <1>1
  <2>2. st[k] = E(st, k)
    BY <1>10, <2>1, Zenon
  <2>3. QED
    BY <2>1, <2>2, Zenon
<1>13. \A k \in 0 .. n : st[k] \in T
  BY <1>4, <1>5, <1>11, <1>12, StepsStay
<1>14. st \in [0 .. n -> T]
  <2> HIDE DEF E
  <2>1. QED
    BY <1>9, <1>13
<1>15. QED
  BY <1>8, <1>11, <1>12, <1>14 DEF n, T, b

\* The fields of a line.
FieldState(V) == [out : Seq(Seq(V)), cur : Seq(V), quoted : BOOLEAN, skip : BOOLEAN]

NextField(line, k, st) == Take(st, line[k], IF k < Len(line) THEN line[k + 1] ELSE "")

\* A turn of the loop over a line keeps the shape of its state.
LEMMA TakeTyped ==
  ASSUME NEW V, NEW t \in FieldState(V), NEW c \in V, NEW next
  PROVE  Take(t, c, next) \in FieldState(V)
<1>1. t.out \in Seq(Seq(V)) /\ t.cur \in Seq(V) /\ t.quoted \in BOOLEAN /\ t.skip \in BOOLEAN
  BY DEF FieldState
<1>2. Append(t.cur, c) \in Seq(V) /\ Append(t.out, t.cur) \in Seq(Seq(V)) /\ <<>> \in Seq(V)
  BY <1>1, AppendProperties
<1>3. [t EXCEPT !.skip = FALSE] \in FieldState(V)
  BY <1>1 DEF FieldState
<1>4. c = Quote => [t EXCEPT !.cur = Append(@, Quote), !.skip = TRUE] \in FieldState(V)
  BY <1>1, <1>2 DEF FieldState
<1>5. [t EXCEPT !.quoted = ~@] \in FieldState(V)
  BY <1>1 DEF FieldState
<1>6. [t EXCEPT !.out = Append(@, t.cur), !.cur = <<>>] \in FieldState(V)
  BY <1>1, <1>2 DEF FieldState
<1>7. [t EXCEPT !.cur = Append(@, c)] \in FieldState(V)
  BY <1>1, <1>2 DEF FieldState
<1>8. QED
  BY <1>3, <1>4, <1>5, <1>6, <1>7 DEF Take

\* The states of split_csv_line's loop, each from the one before.
LEMMA SplitStatesEquation ==
  ASSUME NEW V, NEW line \in Seq(V)
  PROVE  LET st == SplitStates(line)
         IN  /\ st \in [0 .. Len(line) -> FieldState(V)]
             /\ st[0] = [out |-> <<>>, cur |-> <<>>, quoted |-> FALSE, skip |-> FALSE]
             /\ \A k \in 1 .. Len(line) : st[k] = NextField(line, k, st[k - 1])
<1> DEFINE n == Len(line)
           T == FieldState(V)
           b == [out |-> <<>>, cur |-> <<>>, quoted |-> FALSE, skip |-> FALSE]
           G == [p \in (1 .. n) \X T |-> NextField(line, p[1], p[2])]
           E(f, k) == IF k = 0 THEN b ELSE NextField(line, k, f[k - 1])
<1>1. n \in Nat /\ \A k \in 1 .. n : line[k] \in V
  BY ElementOfSeq, LenProperties
<1>2. b \in T
  BY DEF FieldState
<1>3. ASSUME NEW t \in T, NEW k \in 1 .. n PROVE NextField(line, k, t) \in T
  BY <1>1, TakeTyped DEF NextField
<1> HIDE DEF n, T, b
<1>4. G \in [(1 .. n) \X T -> T] /\ \A k \in 1 .. n, t \in T : G[<<k, t>>] = NextField(line, k, t)
  BY <1>1, <1>3
<1> HIDE DEF G
<1>5. Steps(n, T, b, G)
  BY <1>1, <1>2, <1>4 DEF Steps
<1>6. PICK g : Stepped(n, T, b, G, g)
  BY <1>5, PrimitiveRecursion
<1>7. g = [k \in 0 .. n |-> E(g, k)]
  <2>1. ASSUME NEW k \in 0 .. n PROVE g[k] = E(g, k)
    <3>1. CASE k = 0
      BY <1>6, <3>1 DEF Stepped
    <3>2. CASE k # 0
      <4>1. k \in 1 .. n /\ k - 1 \in 0 .. n
        BY <1>1, <3>2
      <4>2. g[k] = NextField(line, k, g[k - 1])
        BY <1>4, <1>6, <4>1 DEF Stepped
      <4>3. QED
        BY <3>2, <4>2, Zenon
    <3>3. QED
      BY <3>1, <3>2
  <2>2. g \in [0 .. n -> T]
    BY <1>6 DEF Stepped
  <2> HIDE DEF E
  <2>3. QED
    BY <2>1, <2>2
<1> DEFINE st == CHOOSE f : f = [k \in 0 .. n |-> E(f, k)]
<1>8. SplitStates(line) = st
  BY DEF SplitStates, NextField, n, b
<1>9. st = [k \in 0 .. n |-> E(st, k)]
  <2> HIDE DEF E
  <2>1. QED
    BY <1>7
<1> HIDE DEF st
<1>10. \A k \in 0 .. n : st[k] = E(st, k)
  <2> HIDE DEF E
  <2>1. QED
    BY <1>9
<1>11. st[0] = b
  <2>1. 0 \in 0 .. n
    BY <1>1
  <2>2. st[0] = E(st, 0)
    BY <1>10, <2>1, Zenon
  <2>3. QED
    BY <2>2, Zenon
<1>12. ASSUME NEW k \in 1 .. n PROVE st[k] = NextField(line, k, st[k - 1])
  <2>1. k \in 0 .. n /\ k # 0
    BY <1>1
  <2>2. st[k] = E(st, k)
    BY <1>10, <2>1, Zenon
  <2>3. QED
    BY <2>1, <2>2, Zenon
<1>13. \A k \in 0 .. n : st[k] \in T
  BY <1>4, <1>5, <1>11, <1>12, StepsStay
<1>14. st \in [0 .. n -> T]
  <2> HIDE DEF E
  <2>1. QED
    BY <1>9, <1>13
<1>15. QED
  BY <1>8, <1>11, <1>12, <1>14 DEF n, T, b

\* Between two characters, when none has been dealt with ahead.
Plain(o, cur) == [out |-> o, cur |-> cur, quoted |-> FALSE, skip |-> FALSE]

InQuotes(o, cur) == [out |-> o, cur |-> cur, quoted |-> TRUE, skip |-> FALSE]

Skipping(o, cur) == [out |-> o, cur |-> cur, quoted |-> TRUE, skip |-> TRUE]

\* A character at a time.
LEMMA TakePlain ==
  ASSUME NEW o, NEW cur, NEW c, NEW next, c # Comma, c # Quote
  PROVE  Take(Plain(o, cur), c, next) = Plain(o, Append(cur, c))
BY DEF Take, Plain, InQuotes, Skipping, Comma, Quote

\* A comma ends a field.
LEMMA TakeComma ==
  ASSUME NEW o, NEW cur, NEW next
  PROVE  Take(Plain(o, cur), Comma, next) = Plain(Append(o, cur), <<>>)
BY DEF Take, Plain, InQuotes, Skipping, Comma, Quote

\* A quote opens one.
LEMMA TakeOpen ==
  ASSUME NEW o, NEW cur, NEW next
  PROVE  Take(Plain(o, cur), Quote, next) = InQuotes(o, cur)
BY DEF Take, Plain, InQuotes, Skipping, Comma, Quote

\* Anything but a quote, a comma too, is part of a quoted field.
LEMMA TakeQuoted ==
  ASSUME NEW o, NEW cur, NEW c, NEW next, c # Quote
  PROVE  Take(InQuotes(o, cur), c, next) = InQuotes(o, Append(cur, c))
BY DEF Take, Plain, InQuotes, Skipping, Comma, Quote

\* A quote that no other follows closes it.
LEMMA TakeClose ==
  ASSUME NEW o, NEW cur, NEW next, next # Quote
  PROVE  Take(InQuotes(o, cur), Quote, next) = Plain(o, cur)
BY DEF Take, Plain, InQuotes, Skipping, Comma, Quote

\* Two quotes stand for one.
LEMMA TakeDouble ==
  ASSUME NEW o, NEW cur
  PROVE  Take(InQuotes(o, cur), Quote, Quote) = Skipping(o, Append(cur, Quote))
BY DEF Take, Plain, InQuotes, Skipping, Comma, Quote

\* The second has been dealt with.
LEMMA TakeSkipped ==
  ASSUME NEW o, NEW cur, NEW c, NEW next
  PROVE  Take(Skipping(o, cur), c, next) = InQuotes(o, cur)
BY DEF Take, Plain, InQuotes, Skipping, Comma, Quote

\* Characters that mean nothing to the parser, outside quotes.
PlainRun(V, line, a, o, s) ==
  /\ line \in Seq(V) /\ s \in Seq(V) /\ a \in Nat
  /\ a + Len(s) <= Len(line) /\ SplitStates(line)[a] = Plain(o, <<>>)
  /\ \A i \in 1 .. Len(s) : line[a + i] = s[i] /\ s[i] \notin {Comma, Quote}

\* A run of characters without commas and quotes goes to the field under way.
LEMMA SplitPlain ==
  ASSUME NEW V, NEW line, NEW a, NEW o, NEW s, PlainRun(V, line, a, o, s)
  PROVE  \A i \in 0 .. Len(s) : SplitStates(line)[a + i] = Plain(o, SubSeq(s, 1, i))
<1> USE DEF PlainRun
<1> DEFINE st == SplitStates(line)
           T == {i \in Nat : i <= Len(s) => st[a + i] = Plain(o, SubSeq(s, 1, i))}
<1>1. Len(s) \in Nat /\ Len(line) \in Nat
  BY LenProperties
<1>2. \A k \in 1 .. Len(line) : st[k] = NextField(line, k, st[k - 1])
  BY SplitStatesEquation
<1> HIDE DEF st
<1>3. 0 \in T
  <2>1. SubSeq(s, 1, 0) = <<>> /\ a + 0 = a
    BY SubSeqEmpty
  <2>2. QED
    BY <2>1 DEF st
<1>4. ASSUME NEW i \in Nat, i \in T PROVE i + 1 \in T
  <2>1. SUFFICES ASSUME i + 1 <= Len(s) PROVE st[a + (i + 1)] = Plain(o, SubSeq(s, 1, i + 1))
    OBVIOUS
  <2>2. /\ i <= Len(s) /\ i + 1 \in 1 .. Len(s) /\ 1 \in 1 .. Len(s) + 1 /\ (i + 1) - 1 = i
        /\ a + (i + 1) \in 1 .. Len(line) /\ (a + (i + 1)) - 1 = a + i
    BY <1>1, <2>1
  <2>3. st[a + i] = Plain(o, SubSeq(s, 1, i))
    BY <1>4, <2>2
  <2>4. line[a + (i + 1)] = s[i + 1] /\ s[i + 1] \notin {Comma, Quote}
    BY <2>2
  <2> DEFINE next == IF a + (i + 1) < Len(line) THEN line[(a + (i + 1)) + 1] ELSE ""
  <2>5. st[a + (i + 1)] = Take(st[a + i], s[i + 1], next)
    BY <1>2, <2>2, <2>4 DEF NextField
  <2> HIDE DEF next
  <2> DEFINE cur == SubSeq(s, 1, i)
             c == s[i + 1]
  <2>6. st[a + (i + 1)] = Plain(o, Append(cur, c))
    <3>1. c # Comma /\ c # Quote /\ st[a + (i + 1)] = Take(Plain(o, cur), c, next)
      BY <2>3, <2>4, <2>5
    <3> HIDE DEF cur, c
    <3>2. QED
      BY <3>1, TakePlain
  <2>7. SubSeq(s, 1, i + 1) = Append(SubSeq(s, 1, i), s[i + 1])
    BY <2>2, PrefixAppend
  <2>8. QED
    BY <2>6, <2>7
<1>5. \A i \in Nat : i \in T
  <2> HIDE DEF T
  <2>1. QED
    BY <1>3, <1>4, Induction
<1>6. QED
  BY <1>1, <1>5 DEF st

\* A comma ends a field.
CommaAt(V, line, k, o, cur) ==
  /\ line \in Seq(V) /\ k \in 1 .. Len(line)
  /\ SplitStates(line)[k - 1] = Plain(o, cur) /\ line[k] = Comma

\* A comma after such a run ends the field.
LEMMA SplitComma ==
  ASSUME NEW V, NEW line, NEW k, NEW o, NEW cur, CommaAt(V, line, k, o, cur)
  PROVE  SplitStates(line)[k] = Plain(Append(o, cur), <<>>)
<1> DEFINE next == IF k < Len(line) THEN line[k + 1] ELSE ""
<1>1. SplitStates(line)[k] = Take(Plain(o, cur), Comma, next)
  BY SplitStatesEquation DEF NextField, CommaAt
<1> HIDE DEF next
<1>2. QED
  BY <1>1, TakeComma

\* Where the characters of a name are once its quotes are doubled.
Doubled(name, e, off) ==
  /\ off \in [0 .. Len(name) -> 0 .. Len(e)] /\ off[0] = 0 /\ off[Len(name)] = Len(e)
  /\ \A j \in 1 .. Len(name) :
       IF name[j] = Quote
       THEN off[j] = off[j - 1] + 2 /\ e[off[j - 1] + 1] = Quote /\ e[off[j - 1] + 2] = Quote
       ELSE off[j] = off[j - 1] + 1 /\ e[off[j - 1] + 1] = name[j]

\* replace('"', "\"\"") doubles the quotes of a name and keeps everything else.
LEMMA ReplaceFacts ==
  ASSUME NEW V, NEW name \in Seq(V)
  PROVE  /\ Replace(name, Quote, <<Quote, Quote>>) \in Seq(V)
         /\ \E off : Doubled(name, Replace(name, Quote, <<Quote, Quote>>), off)
<1> DEFINE n == Len(name)
           q == [k \in DOMAIN name |-> IF name[k] = Quote THEN <<Quote, Quote>> ELSE <<name[k]>>]
           e == FlattenSeq(q)
<1>1. n \in Nat /\ DOMAIN name = 1 .. n /\ \A k \in 1 .. n : name[k] \in V
  BY LenProperties, ElementOfSeq
<1>2. ASSUME NEW k \in 1 .. n
      PROVE  /\ q[k] \in Seq(V)
             /\ name[k] = Quote => Len(q[k]) = 2 /\ q[k][1] = Quote /\ q[k][2] = Quote
             /\ name[k] # Quote => Len(q[k]) = 1 /\ q[k][1] = name[k]
  <2>1. name[k] \in V
    BY <1>1
  <2>2. CASE name[k] = Quote
    <3>1. q[k] = <<Quote, Quote>>
      BY <1>1, <2>2
    <3>2. Quote \in V
      BY <2>1, <2>2
    <3> HIDE DEF q
    <3>3. <<Quote, Quote>> \in Seq(V)
      BY <3>2
    <3>4. QED
      BY <2>2, <3>1, <3>3
  <2>3. CASE name[k] # Quote
    <3>1. q[k] = <<name[k]>>
      BY <1>1, <2>3
    <3> HIDE DEF q
    <3>2. <<name[k]>> \in Seq(V)
      BY <2>1
    <3>3. QED
      BY <2>3, <3>1, <3>2
  <2>4. QED
    BY <2>2, <2>3
<1>3. q \in Seq(Seq(V)) /\ Len(q) = n
  <2>1. q \in [1 .. n -> Seq(V)]
    <3>1. DOMAIN q = 1 .. n /\ q = [k \in 1 .. n |-> q[k]]
      BY <1>1
    <3> HIDE DEF q
    <3>2. QED
      BY <1>2, <3>1
  <2> HIDE DEF q
  <2>2. q \in Seq(Seq(V))
    BY <1>1, <2>1
  <2>3. QED
    BY <1>1, <2>1, <2>2
<1>4. Replace(name, Quote, <<Quote, Quote>>) = e
  BY DEF Replace
<1> HIDE DEF q, n, e
<1>5. e \in Seq(V)
  BY <1>3, FlattenAppend DEF e
<1> DEFINE off == [j \in 0 .. n |-> Off(q, j)]
<1>6. /\ Off(q, 0) = 0 /\ Off(q, n) = Len(e)
      /\ \A j \in 0 .. n : Off(q, j) \in 0 .. Len(e)
      /\ \A j \in 1 .. n :
           /\ Off(q, j) = Off(q, j - 1) + Len(q[j])
           /\ \A i \in 1 .. Len(q[j]) : e[Off(q, j - 1) + i] = q[j][i]
  BY <1>3, FlattenPositions DEF e
<1>7. off \in [0 .. n -> 0 .. Len(e)] /\ off[0] = 0 /\ off[n] = Len(e)
  BY <1>1, <1>6
<1>8. ASSUME NEW j \in 1 .. n
      PROVE  /\ name[j] = Quote =>
                  off[j] = off[j - 1] + 2 /\ e[off[j - 1] + 1] = Quote /\ e[off[j - 1] + 2] = Quote
             /\ name[j] # Quote => off[j] = off[j - 1] + 1 /\ e[off[j - 1] + 1] = name[j]
  <2>1. off[j] = Off(q, j) /\ off[j - 1] = Off(q, j - 1)
    BY <1>1
  <2> HIDE DEF off
  <2>2. \A i \in 1 .. Len(q[j]) : e[off[j - 1] + i] = q[j][i]
    BY <1>6, <2>1
  <2>3. off[j] = off[j - 1] + Len(q[j])
    BY <1>6, <2>1
  <2>4. CASE name[j] = Quote
    <3>1. Len(q[j]) = 2 /\ q[j][1] = Quote /\ q[j][2] = Quote
      BY <1>2, <2>4
    <3>2. 1 \in 1 .. Len(q[j]) /\ 2 \in 1 .. Len(q[j])
      BY <3>1
    <3>3. e[off[j - 1] + 1] = Quote /\ e[off[j - 1] + 2] = Quote
      BY <2>2, <3>1, <3>2
    <3>4. QED
      BY <2>3, <2>4, <3>1, <3>3
  <2>5. CASE name[j] # Quote
    <3>1. Len(q[j]) = 1 /\ q[j][1] = name[j]
      BY <1>2, <2>5
    <3>2. 1 \in 1 .. Len(q[j])
      BY <3>1
    <3>3. e[off[j - 1] + 1] = name[j]
      BY <2>2, <3>1, <3>2
    <3>4. QED
      BY <2>3, <2>5, <3>1, <3>3
  <2>6. QED
    BY <2>4, <2>5
<1>9. Doubled(name, e, off)
  <2> HIDE DEF off
  <2>1. QED
    BY <1>7, <1>8 DEF Doubled, n
<1>10. QED
  BY <1>4, <1>5, <1>9

\* A quoted name.
QuotedRun(V, line, a, o, name, e, off) ==
  /\ line \in Seq(V) /\ name \in Seq(V) /\ e \in Seq(V) /\ a \in Nat
  /\ Doubled(name, e, off) /\ a + Len(e) + 2 < Len(line)
  /\ SplitStates(line)[a] = Plain(o, <<>>)
  /\ line[a + 1] = Quote /\ \A i \in 1 .. Len(e) : line[a + 1 + i] = e[i]
  /\ line[a + Len(e) + 2] = Quote /\ line[a + Len(e) + 3] # Quote

\* A name whose quotes were doubled is read back from between its quotes.
LEMMA SplitQuoted ==
  ASSUME NEW V, NEW line, NEW a, NEW o, NEW name, NEW e, NEW off,
         QuotedRun(V, line, a, o, name, e, off)
  PROVE  /\ SplitStates(line)[a + Len(e) + 2] = Plain(o, name)
         /\ \A i \in 0 .. Len(e) + 2 : SplitStates(line)[a + i].out = o
<1> USE DEF QuotedRun
<1> DEFINE st == SplitStates(line)
           n == Len(name)
           m == Len(e)
           Ok(j) == /\ st[a + 1 + off[j]] = InQuotes(o, SubSeq(name, 1, j))
                    /\ \A i \in 0 .. off[j] + 1 : st[a + i].out = o
           T == {j \in Nat : j <= n => Ok(j)}
<1>1. n \in Nat /\ m \in Nat /\ Len(line) \in Nat
  BY LenProperties
<1>2. ASSUME NEW k \in 1 .. Len(line), k < Len(line)
      PROVE  st[k] = Take(st[k - 1], line[k], line[k + 1])
  <2>1. st[k] = NextField(line, k, st[k - 1])
    BY SplitStatesEquation
  <2> HIDE DEF st
  <2>2. QED
    BY <1>2, <2>1 DEF NextField
<1>3. /\ \A j \in 0 .. n : off[j] \in Nat /\ off[j] <= m
      /\ off[0] = 0 /\ off[n] = m
  <2>1. off \in [0 .. n -> 0 .. m] /\ off[0] = 0 /\ off[n] = m
    BY DEF Doubled
  <2> HIDE DEF n, m
  <2>2. QED
    BY <1>1, <2>1
<1>4. \A o1, c1 : Plain(o1, c1).out = o1 /\ InQuotes(o1, c1).out = o1 /\ Skipping(o1, c1).out = o1
  BY DEF Plain, InQuotes, Skipping
<1>5. st[a] = Plain(o, <<>>)
  OBVIOUS
<1>6. st[a + 1] = InQuotes(o, <<>>)
  <2>1. a + 1 \in 1 .. Len(line) /\ a + 1 < Len(line) /\ (a + 1) - 1 = a
    BY <1>1
  <2>2. st[a + 1] = Take(st[a], Quote, line[(a + 1) + 1])
    BY <1>2, <2>1
  <2> HIDE DEF st
  <2>3. QED
    BY <1>5, <2>2, TakeOpen
<1> HIDE DEF st, m, n
<1>7. 0 \in T
  <2>1. SubSeq(name, 1, 0) = <<>> /\ (a + 1) + 0 = a + 1 /\ a + 0 = a
    BY SubSeqEmpty
  <2>2. st[a + 1 + off[0]] = InQuotes(o, SubSeq(name, 1, 0))
    BY <1>3, <1>6, <2>1
  <2>3. st[a + 0].out = o /\ st[a + 1].out = o
    BY <1>4, <1>5, <1>6, <2>1
  <2>4. \A i \in 0 .. off[0] + 1 : i = 0 \/ i = 1
    BY <1>3
  <2>5. QED
    BY <2>2, <2>3, <2>4
<1>8. ASSUME NEW j \in Nat, j \in T PROVE j + 1 \in T
  <2>1. SUFFICES ASSUME j + 1 <= n PROVE Ok(j + 1)
    OBVIOUS
  <2>2. j <= n /\ j \in 0 .. n /\ j + 1 \in 1 .. n /\ j + 1 \in 0 .. n /\ (j + 1) - 1 = j /\ 1 \in 1 .. n + 1
    BY <1>1, <2>1
  <2>3. /\ st[a + 1 + off[j]] = InQuotes(o, SubSeq(name, 1, j))
        /\ \A i \in 0 .. off[j] + 1 : st[a + i].out = o
    BY <1>8, <2>2
  <2> DEFINE d == off[j]
             k == a + 1 + d + 1
             cur == SubSeq(name, 1, j)
             c == name[j + 1]
  <2>4. SubSeq(name, 1, j + 1) = Append(cur, c)
    BY <2>2, PrefixAppend DEF n
  <2>5. d \in Nat /\ d <= m /\ off[j + 1] \in Nat /\ off[j + 1] <= m
    BY <1>3, <2>2
  <2>6. IF c = Quote THEN off[j + 1] = d + 2 /\ e[d + 1] = Quote /\ e[d + 2] = Quote
        ELSE off[j + 1] = d + 1 /\ e[d + 1] = c
    BY <2>2 DEF Doubled, n
  <2>7. st[a + 1 + d] = InQuotes(o, cur)
    BY <2>3
  <2> HIDE DEF d, cur, c, T
  <2>8. d + 1 <= m /\ (c = Quote => d + 2 <= m)
    <3>1. m \in Nat /\ (c = Quote => off[j + 1] = d + 2) /\ (c # Quote => off[j + 1] = d + 1)
      BY <1>1, <2>6
    <3>2. QED
      BY <2>5, <3>1
  <2>9. /\ k \in 1 .. Len(line) /\ k < Len(line) /\ k - 1 = a + 1 + d
        /\ d + 1 \in 1 .. m /\ k = (a + 1) + (d + 1) /\ k = a + (d + 2)
    <3>1. Len(line) \in Nat /\ m \in Nat /\ a + m + 2 < Len(line)
      BY <1>1 DEF m
    <3>2. QED
      BY <2>5, <2>8, <3>1
  <2>10. line[k] = e[d + 1]
    BY <2>9 DEF m
  <2>11. st[k] = Take(InQuotes(o, cur), line[k], line[k + 1])
    BY <1>2, <2>7, <2>9
  <2>12. CASE c # Quote
    <3>1. off[j + 1] = d + 1 /\ line[k] = c /\ (a + 1) + (d + 1) = k
      BY <2>6, <2>9, <2>10, <2>12
    <3> HIDE DEF k
    <3>2. st[k] = InQuotes(o, Append(cur, c))
      BY <2>11, <2>12, <3>1, TakeQuoted
    <3>3. st[a + 1 + off[j + 1]] = InQuotes(o, SubSeq(name, 1, j + 1))
      BY <2>4, <3>1, <3>2
    <3>4. ASSUME NEW i \in 0 .. off[j + 1] + 1 PROVE st[a + i].out = o
      <4>1. i \in 0 .. d + 1 \/ i = d + 2
        BY <2>5, <3>1
      <4>2. st[a + (d + 2)].out = o
        BY <1>4, <2>9, <3>2
      <4>3. QED
        BY <2>3, <4>1, <4>2 DEF d
    <3>5. QED
      BY <3>3, <3>4
  <2>13. CASE c = Quote
    <3>1. /\ off[j + 1] = d + 2 /\ line[k] = Quote /\ e[d + 2] = Quote
          /\ d + 2 \in 1 .. m
      BY <2>5, <2>6, <2>8, <2>10, <2>13
    <3>2. /\ k + 1 = (a + 1) + (d + 2) /\ k + 1 \in 1 .. Len(line) /\ k + 1 < Len(line)
          /\ (k + 1) - 1 = k /\ k + 1 = a + (d + 3)
      BY <1>1, <2>5, <3>1 DEF m
    <3>3. line[k + 1] = Quote
      <4>1. line[(a + 1) + (d + 2)] = e[d + 2]
        BY <3>1 DEF m
      <4> HIDE DEF k
      <4>2. QED
        BY <3>1, <3>2, <4>1
    <3> HIDE DEF k
    <3>4. st[k] = Skipping(o, Append(cur, c))
      BY <2>11, <2>13, <3>1, <3>3, TakeDouble
    <3>5. st[k + 1] = Take(st[k], line[k + 1], line[(k + 1) + 1])
      BY <1>2, <3>2
    <3>6. st[k + 1] = InQuotes(o, Append(cur, c))
      BY <3>4, <3>5, TakeSkipped
    <3>7. st[a + 1 + off[j + 1]] = InQuotes(o, SubSeq(name, 1, j + 1))
      BY <2>4, <3>1, <3>2, <3>6
    <3>8. ASSUME NEW i \in 0 .. off[j + 1] + 1 PROVE st[a + i].out = o
      <4>1. i \in 0 .. d + 1 \/ i = d + 2 \/ i = d + 3
        BY <2>5, <3>1
      <4>2. st[a + (d + 2)].out = o
        BY <1>4, <2>9, <3>4
      <4>3. st[a + (d + 3)].out = o
        BY <1>4, <3>2, <3>6
      <4>4. QED
        BY <2>3, <4>1, <4>2, <4>3 DEF d
    <3>9. QED
      BY <3>7, <3>8
  <2>14. QED
    BY <2>12, <2>13
<1>9. \A j \in Nat : j \in T
  <2> HIDE DEF T
  <2>1. QED
    BY <1>7, <1>8, Induction
<1>10. /\ st[a + 1 + m] = InQuotes(o, name)
       /\ \A i \in 0 .. m + 1 : st[a + i].out = o
  <2>1. Ok(n)
    BY <1>1, <1>9
  <2>2. SubSeq(name, 1, n) = name
    BY SubSeqFull DEF n
  <2>3. QED
    BY <1>3, <2>1, <2>2
<1>11. st[a + m + 2] = Plain(o, name)
  <2> DEFINE k == a + m + 2
  <2>1. k \in 1 .. Len(line) /\ k < Len(line) /\ k - 1 = a + 1 + m /\ k + 1 = a + m + 3
    BY <1>1 DEF m
  <2>2. line[k] = Quote /\ line[a + m + 3] # Quote
    BY DEF m
  <2> HIDE DEF k
  <2>3. st[k] = Take(InQuotes(o, name), Quote, line[k + 1]) /\ line[k + 1] # Quote
    BY <1>2, <1>10, <2>1, <2>2
  <2>4. QED
    BY <2>3, TakeClose DEF k
<1>12. ASSUME NEW i \in 0 .. m + 2 PROVE st[a + i].out = o
  <2>1. i \in 0 .. m + 1 \/ i = m + 2
    BY <1>1
  <2>2. a + (m + 2) = a + m + 2
    BY <1>1
  <2>3. st[a + (m + 2)].out = o
    BY <1>4, <1>11, <2>2
  <2>4. QED
    BY <1>10, <2>1, <2>3
<1>13. QED
  BY <1>11, <1>12 DEF st, m

\* What comes next matters only to a quote, and never to the fields that are done.
LEMMA TakeNext ==
  ASSUME NEW V, NEW t \in FieldState(V), NEW c, NEW x, NEW y
  PROVE  /\ Take(t, c, x).out = Take(t, c, y).out
         /\ c # Quote => Take(t, c, x) = Take(t, c, y)
<1>1. c # Quote => Take(t, c, x) = Take(t, c, y)
  BY Zenon DEF Take
<1>2. ASSUME c = Quote, NEW z PROVE Take(t, c, z).out = t.out
  <2>1. c # Comma
    BY <1>2 DEF Comma, Quote
  <2>2. QED
    BY <1>2, <2>1 DEF Take, FieldState
<1>3. QED
  BY <1>1, <1>2

\* The first characters of a line.
LEMMA PrefixStates ==
  ASSUME NEW V, NEW line \in Seq(V), NEW p \in Seq(V), Len(p) <= Len(line),
         \A k \in 1 .. Len(p) : p[k] = line[k]
  PROVE  /\ SplitStates(p)[Len(p)].out = SplitStates(line)[Len(p)].out
         /\ (Len(p) > 0 => line[Len(p)] # Quote) =>
              SplitStates(p)[Len(p)] = SplitStates(line)[Len(p)]
<1> DEFINE m == Len(p)
           ps == SplitStates(p)
           st == SplitStates(line)
           T == {k \in Nat : k < m => ps[k] = st[k]}
<1>1. m \in Nat /\ Len(line) \in Nat
  BY LenProperties
<1>2. /\ ps \in [0 .. m -> FieldState(V)]
      /\ ps[0] = st[0]
      /\ \A k \in 1 .. m : ps[k] = NextField(p, k, ps[k - 1])
      /\ \A k \in 1 .. Len(line) : st[k] = NextField(line, k, st[k - 1])
  BY SplitStatesEquation
<1> HIDE DEF ps, st
<1>3. 0 \in T
  BY <1>2
<1>4. ASSUME NEW k \in Nat, k \in T PROVE k + 1 \in T
  <2>1. SUFFICES ASSUME k + 1 < m PROVE ps[k + 1] = st[k + 1]
    OBVIOUS
  <2>2. /\ k < m /\ k + 1 \in 1 .. m /\ (k + 1) + 1 \in 1 .. m /\ k + 1 \in 1 .. Len(line) /\ (k + 1) - 1 = k
        /\ k + 1 < Len(p) /\ k + 1 < Len(line)
    BY <1>1, <2>1
  <2>3. ps[k] = st[k] /\ p[k + 1] = line[k + 1] /\ p[(k + 1) + 1] = line[(k + 1) + 1]
    BY <1>4, <2>2
  <2>4. ps[k + 1] = NextField(p, k + 1, ps[k]) /\ st[k + 1] = NextField(line, k + 1, st[k])
    BY <1>2, <2>2
  <2>5. NextField(p, k + 1, ps[k]) = NextField(line, k + 1, st[k])
    BY <2>2, <2>3 DEF NextField
  <2>6. QED
    BY <2>4, <2>5
<1>5. \A k \in Nat : k \in T
  <2> HIDE DEF T
  <2>1. QED
    BY <1>3, <1>4, Induction
<1>6. CASE m = 0
  BY <1>2, <1>6 DEF ps, st
<1>7. CASE m # 0
  <2>1. m - 1 \in Nat /\ m - 1 < m /\ m \in 1 .. m /\ m \in 1 .. Len(line) /\ m - 1 \in 0 .. m /\ m > 0
    BY <1>1, <1>7
  <2>2. ps[m - 1] = st[m - 1] /\ ps[m - 1] \in FieldState(V) /\ p[m] = line[m]
    BY <1>2, <1>5, <2>1
  <2>3. PICK x : ps[m] = Take(ps[m - 1], line[m], x)
    BY <1>2, <2>1, <2>2 DEF NextField
  <2>4. PICK y : st[m] = Take(ps[m - 1], line[m], y)
    BY <1>2, <2>1, <2>2 DEF NextField
  <2>5. ps[m].out = st[m].out /\ (line[m] # Quote => ps[m] = st[m])
    BY <2>2, <2>3, <2>4, TakeNext
  <2>6. QED
    BY <2>1, <2>5 DEF ps, st
<1>8. QED
  BY <1>6, <1>7

Chars ==
  Letters \cup Digits \cup {Comma, Quote, Break, "t", "f"}
  \cup {"file_id", "file_name", "file_size", "still_exists"}

Flag(r) == IF r.still_exists THEN "t" ELSE "f"

\* The characters of a row's fields: numbers hold none of the special ones.
LEMMA RowTyped ==
  ASSUME NEW r \in LedgerRows
  PROVE  /\ r.id \in Seq(Chars) /\ r.name \in Seq(Chars) /\ r.size \in Seq(Chars)
         /\ Flag(r) \in Chars /\ Flag(r) \notin {Comma, Quote, Break}
         /\ Len(r.id) > 0 /\ Len(r.size) > 0
         /\ \A i \in 1 .. Len(r.id) : r.id[i] \in Digits /\ r.id[i] \notin {Comma, Quote, Break}
         /\ \A i \in 1 .. Len(r.size) : r.size[i] \in Digits /\ r.size[i] \notin {Comma, Quote, Break}
<1>1. Flag(r) \in Chars /\ Flag(r) \notin {Comma, Quote, Break}
  BY DEF Flag, Chars, Comma, Quote, Break
<1>2. r.id \in Numbers /\ r.size \in Numbers /\ r.name \in Names
  BY DEF LedgerRows
<1>3. ASSUME NEW s \in Numbers
      PROVE  /\ s \in Seq(Chars) /\ Len(s) > 0
             /\ \A i \in 1 .. Len(s) : s[i] \in Digits /\ s[i] \notin {Comma, Quote, Break}
  <2>1. PICK n \in NumberLens : s \in [1 .. n -> Digits]
    BY DEF Numbers
  <2>2. n \in Nat /\ n > 0
    BY SnapshotAssumption
  <2>3. s \in Seq(Digits)
    BY <2>1, <2>2
  <2>4. Len(s) = n
    BY <2>1, <2>2, <2>3
  <2>5. s \in [1 .. n -> Chars]
    BY <2>1 DEF Chars
  <2>6. s \in Seq(Chars)
    BY <2>2, <2>5
  <2>7. ASSUME NEW i \in 1 .. Len(s) PROVE s[i] \in Digits /\ s[i] \notin {Comma, Quote, Break}
    BY <2>1, <2>4, SnapshotAssumption
  <2>8. QED
    BY <2>2, <2>4, <2>6, <2>7
<1>4. ASSUME NEW s \in Names PROVE s \in Seq(Chars)
  <2>1. PICK n \in 1 .. MaxNameLen : s \in [1 .. n -> Letters]
    BY DEF Names
  <2>2. n \in Nat /\ s \in [1 .. n -> Chars]
    BY <2>1, SnapshotAssumption DEF Chars
  <2>3. QED
    BY <2>2
<1>5. QED
  BY <1>1, <1>2, <1>3, <1>4

\* How a name is written: as it is, or quoted.
LEMMA EscapeFacts ==
  ASSUME NEW name \in Seq(Chars)
  PROVE  /\ CsvEscape(name) \in Seq(Chars)
         /\ \/ /\ CsvEscape(name) = name
               /\ \A i \in 1 .. Len(name) : name[i] \notin {Comma, Quote, Break}
            \/ \E e \in Seq(Chars) :
                 /\ CsvEscape(name) = <<Quote>> \o e \o <<Quote>> /\ \E off : Doubled(name, e, off)
<1> DEFINE e == Replace(name, Quote, <<Quote, Quote>>)
<1>1. e \in Seq(Chars) /\ \E off : Doubled(name, e, off)
  BY ReplaceFacts
<1> HIDE DEF e
<1>2. Len(name) \in Nat /\ DOMAIN name = 1 .. Len(name)
  BY LenProperties
<1>3. ToSet(name) = {name[i] : i \in 1 .. Len(name)}
  BY <1>2 DEF ToSet
<1>4. <<Quote>> \in Seq(Chars)
  BY DEF Chars
<1>5. <<Quote>> \o e \o <<Quote>> \in Seq(Chars)
  BY <1>1, <1>4, ConcatProperties
<1>6. CASE {Comma, Quote, Break} \cap ToSet(name) = {}
  <2>1. CsvEscape(name) = name
    BY <1>6 DEF CsvEscape
  <2>2. ASSUME NEW i \in 1 .. Len(name) PROVE name[i] \notin {Comma, Quote, Break}
    BY <1>3, <1>6
  <2>3. QED
    BY <2>1, <2>2
<1>7. CASE {Comma, Quote, Break} \cap ToSet(name) # {}
  <2>1. CsvEscape(name) = <<Quote>> \o e \o <<Quote>>
    BY <1>7 DEF CsvEscape, e
  <2>2. QED
    BY <1>1, <1>5, <2>1
<1>8. QED
  BY <1>6, <1>7

\* What is where in a row of the dump.
Layout(r, e, row) ==
  /\ row \in Seq(Chars) /\ e \in Seq(Chars)
  /\ Len(r.id) \in Nat /\ Len(e) \in Nat /\ Len(r.size) \in Nat
  /\ Len(row) = Len(r.id) + Len(e) + Len(r.size) + 4
  /\ \A i \in 1 .. Len(r.id) : row[i] = r.id[i]
  /\ row[Len(r.id) + 1] = Comma
  /\ \A i \in 1 .. Len(e) : row[Len(r.id) + 1 + i] = e[i]
  /\ row[Len(r.id) + Len(e) + 2] = Comma
  /\ \A i \in 1 .. Len(r.size) : row[Len(r.id) + Len(e) + 2 + i] = r.size[i]
  /\ row[Len(r.id) + Len(e) + Len(r.size) + 3] = Comma
  /\ row[Len(r.id) + Len(e) + Len(r.size) + 4] = Flag(r)

\* dump_csv lays a row out that way.
LEMMA RowLayout ==
  ASSUME NEW r \in LedgerRows
  PROVE  Layout(r, CsvEscape(r.name), DumpRow(r))
<1> DEFINE a == r.id
           e == CsvEscape(r.name)
           b == r.size
           c == <<Comma>>
           f == <<Flag(r)>>
           s1 == a \o c
           s2 == s1 \o e
           s3 == s2 \o c
           s4 == s3 \o b
           s5 == s4 \o c
           s6 == s5 \o f
           A == Len(a)
           E == Len(e)
           B == Len(b)
<1>1. a \in Seq(Chars) /\ e \in Seq(Chars) /\ b \in Seq(Chars)
  BY RowTyped, EscapeFacts
<1>2. c \in Seq(Chars) /\ f \in Seq(Chars)
  BY RowTyped DEF Chars
<1>3. Len(c) = 1 /\ c[1] = Comma /\ Len(f) = 1 /\ f[1] = Flag(r) /\ 1 \in 1 .. 1
  OBVIOUS
<1>4. DumpRow(r) = s6
  BY DEF DumpRow, Flag
<1> HIDE DEF a, e, b, c, f
<1>5. /\ Joined(Chars, a, c, s1)
      /\ Joined(Chars, s1, e, s2)
      /\ Joined(Chars, s2, c, s3)
      /\ Joined(Chars, s3, b, s4)
      /\ Joined(Chars, s4, c, s5)
      /\ Joined(Chars, s5, f, s6)
  <2>1. Joined(Chars, a, c, s1) /\ s1 \in Seq(Chars)
    <3>1. Joined(Chars, a, c, a \o c)
      BY <1>1, <1>2, ConcatParts
    <3>2. QED
      BY <3>1 DEF Joined
  <2> HIDE DEF s1
  <2>2. Joined(Chars, s1, e, s2) /\ s2 \in Seq(Chars)
    <3>1. Joined(Chars, s1, e, s1 \o e)
      BY <1>1, <1>2, <2>1, ConcatParts
    <3>2. QED
      BY <3>1 DEF Joined
  <2> HIDE DEF s2
  <2>3. Joined(Chars, s2, c, s3) /\ s3 \in Seq(Chars)
    <3>1. Joined(Chars, s2, c, s2 \o c)
      BY <1>1, <1>2, <2>2, ConcatParts
    <3>2. QED
      BY <3>1 DEF Joined
  <2> HIDE DEF s3
  <2>4. Joined(Chars, s3, b, s4) /\ s4 \in Seq(Chars)
    <3>1. Joined(Chars, s3, b, s3 \o b)
      BY <1>1, <1>2, <2>3, ConcatParts
    <3>2. QED
      BY <3>1 DEF Joined
  <2> HIDE DEF s4
  <2>5. Joined(Chars, s4, c, s5) /\ s5 \in Seq(Chars)
    <3>1. Joined(Chars, s4, c, s4 \o c)
      BY <1>1, <1>2, <2>4, ConcatParts
    <3>2. QED
      BY <3>1 DEF Joined
  <2> HIDE DEF s5
  <2>6. Joined(Chars, s5, f, s6) /\ s6 \in Seq(Chars)
    <3>1. Joined(Chars, s5, f, s5 \o f)
      BY <1>1, <1>2, <2>5, ConcatParts
    <3>2. QED
      BY <3>1 DEF Joined
  <2> HIDE DEF s6
  <2>7. QED
    BY <2>1, <2>2, <2>3, <2>4, <2>5, <2>6
<1> HIDE DEF s1, s2, s3, s4, s5, s6
<1>6. /\ A \in Nat /\ Len(s1) = A + 1
      /\ \A i \in 1 .. A : s1[i] = a[i]
      /\ s1[A + 1] = Comma
  BY <1>5, <1>3 DEF Joined
<1> HIDE DEF A
<1>7. /\ E \in Nat /\ Len(s2) = A + 1 + E
      /\ \A i \in 1 .. A + 1 : s2[i] = s1[i]
      /\ \A i \in 1 .. E : s2[A + 1 + i] = e[i]
  BY <1>5, <1>6 DEF Joined
<1> HIDE DEF E
<1>8. /\ Len(s3) = A + E + 2
      /\ \A i \in 1 .. A + 1 + E : s3[i] = s2[i]
      /\ s3[A + E + 2] = Comma
  <2>1. A + 1 + E + 1 = A + E + 2
    BY <1>6, <1>7
  <2>2. QED
    BY <1>5, <1>3, <1>7, <2>1, JoinedOne
<1>9. /\ B \in Nat /\ Len(s4) = A + E + 2 + B
      /\ \A i \in 1 .. A + E + 2 : s4[i] = s3[i]
      /\ \A i \in 1 .. B : s4[A + E + 2 + i] = b[i]
  BY <1>5, <1>8 DEF Joined
<1> HIDE DEF B
<1>10. /\ Len(s5) = A + E + B + 3
       /\ \A i \in 1 .. A + E + 2 + B : s5[i] = s4[i]
       /\ s5[A + E + B + 3] = Comma
  <2>1. A + E + 2 + B + 1 = A + E + B + 3
    BY <1>6, <1>7, <1>9
  <2>2. QED
    BY <1>5, <1>3, <1>9, <2>1, JoinedOne
<1>11. /\ s6 \in Seq(Chars) /\ Len(s6) = A + E + B + 4
       /\ \A i \in 1 .. A + E + B + 3 : s6[i] = s5[i]
       /\ s6[A + E + B + 4] = Flag(r)
  <2>1. A + E + B + 3 + 1 = A + E + B + 4
    BY <1>6, <1>7, <1>9
  <2>2. QED
    <3>1. s6 \in Seq(Chars)
      BY <1>5 DEF Joined
    <3>2. QED
      BY <1>5, <1>3, <1>10, <2>1, <3>1, JoinedOne
<1>12. ASSUME NEW i \in 1 .. A PROVE s6[i] = a[i]
  <2>1. /\ i \in 1 .. A + 1 /\ i \in 1 .. A + 1 + E /\ i \in 1 .. A + E + 2
        /\ i \in 1 .. A + E + 2 + B /\ i \in 1 .. A + E + B + 3
    BY <1>6, <1>7, <1>9
  <2>2. QED
    BY <1>6, <1>7, <1>8, <1>9, <1>10, <1>11, <2>1
<1>13. s6[A + 1] = Comma
  <2>1. /\ A + 1 \in 1 .. A + 1 /\ A + 1 \in 1 .. A + 1 + E /\ A + 1 \in 1 .. A + E + 2
        /\ A + 1 \in 1 .. A + E + 2 + B /\ A + 1 \in 1 .. A + E + B + 3
    BY <1>6, <1>7, <1>9
  <2>2. s6[A + 1] = s5[A + 1] /\ s5[A + 1] = s4[A + 1] /\ s4[A + 1] = s3[A + 1]
    BY <1>9, <1>10, <1>11, <2>1
  <2>3. s3[A + 1] = s2[A + 1] /\ s2[A + 1] = s1[A + 1]
    BY <1>7, <1>8, <2>1
  <2>4. QED
    BY <1>6, <2>2, <2>3
<1>14. ASSUME NEW i \in 1 .. E PROVE s6[A + 1 + i] = e[i]
  <2>1. /\ A + 1 + i \in 1 .. A + 1 + E /\ A + 1 + i \in 1 .. A + E + 2
        /\ A + 1 + i \in 1 .. A + E + 2 + B /\ A + 1 + i \in 1 .. A + E + B + 3
    BY <1>6, <1>7, <1>9
  <2>2. QED
    BY <1>7, <1>8, <1>9, <1>10, <1>11, <2>1
<1>15. s6[A + E + 2] = Comma
  <2>1. /\ A + E + 2 \in 1 .. A + E + 2
        /\ A + E + 2 \in 1 .. A + E + 2 + B /\ A + E + 2 \in 1 .. A + E + B + 3
    BY <1>6, <1>7, <1>9
  <2>2. QED
    BY <1>8, <1>9, <1>10, <1>11, <2>1
<1>16. ASSUME NEW i \in 1 .. B PROVE s6[A + E + 2 + i] = b[i]
  <2>1. A + E + 2 + i \in 1 .. A + E + 2 + B /\ A + E + 2 + i \in 1 .. A + E + B + 3
    BY <1>6, <1>7, <1>9
  <2>2. QED
    BY <1>9, <1>10, <1>11, <2>1
<1>17. s6[A + E + B + 3] = Comma
  <2>1. A + E + B + 3 \in 1 .. A + E + B + 3
    <3>1. \A x \in Nat : x + 3 \in 1 .. x + 3
      OBVIOUS
    <3>2. A + E + B \in Nat
      BY <1>6, <1>7, <1>9
    <3>3. QED
      BY <3>1, <3>2
  <2>2. s5[A + E + B + 3] = Comma
    BY <1>10
  <2>3. s6[A + E + B + 3] = s5[A + E + B + 3]
    BY <1>11, <2>1
  <2>4. QED
    BY <2>2, <2>3
<1>18. QED
  BY <1>1, <1>4, <1>6, <1>7, <1>9, <1>11, <1>12, <1>13, <1>14, <1>15, <1>16, <1>17
  DEF Layout, a, e, b, A, E, B

\* The fields of a row, as they are split.
RowSplit(r, e, st) ==
  LET A == Len(r.id)
      E == Len(e)
      B == Len(r.size)
  IN  /\ \A k \in 0 .. A : st[k].out = <<>>
      /\ \A k \in 0 .. E : st[A + 1 + k].out = <<r.id>>
      /\ \A k \in 0 .. B : st[A + E + 2 + k] = Plain(<<r.id, r.name>>, SubSeq(r.size, 1, k))
      /\ st[A + E + B + 3] = Plain(<<r.id, r.name, r.size>>, <<>>)
      /\ st[A + E + B + 4] = Plain(<<r.id, r.name, r.size>>, <<Flag(r)>>)

\* split_csv_line goes over a whole row that way.
LEMMA RowStates ==
  ASSUME NEW r \in LedgerRows, NEW e, NEW row, e = CsvEscape(r.name), Layout(r, e, row)
  PROVE  RowSplit(r, e, SplitStates(row))
<1> DEFINE st == SplitStates(row)
           A == Len(r.id)
           E == Len(e)
           B == Len(r.size)
           id == r.id
           name == r.name
           size == r.size
           V == Chars
           f == Flag(r)
<1>1. /\ row \in Seq(V) /\ e \in Seq(V) /\ A \in Nat /\ E \in Nat /\ B \in Nat
      /\ Len(row) = A + E + B + 4
      /\ \A i \in 1 .. A : row[i] = id[i]
      /\ row[A + 1] = Comma
      /\ \A i \in 1 .. E : row[A + 1 + i] = e[i]
      /\ row[A + E + 2] = Comma
      /\ \A i \in 1 .. B : row[A + E + 2 + i] = size[i]
      /\ row[A + E + B + 3] = Comma /\ row[A + E + B + 4] = f
  BY DEF Layout
<1>2. /\ id \in Seq(V) /\ name \in Seq(V) /\ size \in Seq(V)
      /\ f \in V /\ f # Comma /\ f # Quote
      /\ \A i \in 1 .. A : id[i] \notin {Comma, Quote}
      /\ \A i \in 1 .. B : size[i] \notin {Comma, Quote}
  BY RowTyped
<1>3. \/ /\ e = name
         /\ \A i \in 1 .. E : e[i] \notin {Comma, Quote}
      \/ \E d \in Seq(V) : /\ e = <<Quote>> \o d \o <<Quote>> /\ \E off : Doubled(name, d, off)
  BY <1>2, EscapeFacts
<1>4. st[0] = Plain(<<>>, <<>>)
  BY <1>1, SplitStatesEquation DEF Plain
<1>5. \A o, cur : Plain(o, cur).out = o
  BY DEF Plain
<1>6. SubSeq(id, 1, A) = id /\ SubSeq(size, 1, B) = size /\ SubSeq(name, 1, Len(name)) = name
  BY <1>2, SubSeqFull
<1> HIDE DEF V, f, id, name, size, A, E, B
<1>7. \A i \in 0 .. A : st[0 + i] = Plain(<<>>, SubSeq(id, 1, i))
  <2>1. 0 + A <= Len(row) /\ \A i \in 1 .. A : row[0 + i] = id[i]
    BY <1>1
  <2>2. Len(id) = A
    BY DEF A, id
  <2>3. QED
    <3>1. PlainRun(V, row, 0, <<>>, id)
      BY <1>1, <1>2, <1>4, <2>1, <2>2 DEF PlainRun
    <3> HIDE DEF st
    <3>2. QED
      BY <2>2, <3>1, SplitPlain DEF st
<1> HIDE DEF st
<1>8. ASSUME NEW k \in 0 .. A PROVE st[k].out = <<>>
  <2>1. 0 + k = k
    BY <1>1
  <2>2. QED
    BY <1>5, <1>7, <2>1
<1>9. st[A] = Plain(<<>>, id)
  <2>1. 0 + A = A /\ A \in 0 .. A
    BY <1>1
  <2>2. QED
    BY <1>6, <1>7, <2>1
<1>10. st[A + 1] = Plain(<<id>>, <<>>)
  <2>1. A + 1 \in 1 .. Len(row) /\ (A + 1) - 1 = A
    BY <1>1
  <2> DEFINE none == <<>>
  <2>2. CommaAt(V, row, A + 1, none, id)
    BY <1>1, <1>9, <2>1 DEF CommaAt, st
  <2>3. Append(none, id) = <<id>>
    OBVIOUS
  <2> HIDE DEF none
  <2>4. st[A + 1] = Plain(Append(none, id), <<>>)
    BY <2>2, SplitComma DEF st
  <2>5. QED
    BY <2>3, <2>4
<1>11. /\ \A k \in 0 .. E : st[A + 1 + k].out = <<id>>
       /\ st[A + 1 + E] = Plain(<<id>>, name)
  <2>1. CASE /\ e = name
             /\ \A i \in 1 .. E : e[i] \notin {Comma, Quote}
    <3>1. /\ A + 1 \in Nat /\ A + 1 + E <= Len(row) /\ E = Len(name)
          /\ \A i \in 1 .. E : row[A + 1 + i] = name[i] /\ name[i] \notin {Comma, Quote}
      BY <1>1, <2>1 DEF E
    <3>2. \A k \in 0 .. E : st[A + 1 + k] = Plain(<<id>>, SubSeq(name, 1, k))
      <4>1. PlainRun(V, row, A + 1, <<id>>, name)
        BY <1>1, <1>2, <1>10, <3>1 DEF PlainRun, st
      <4>2. QED
        BY <3>1, <4>1, SplitPlain DEF st
    <3>3. E \in 0 .. E
      BY <1>1
    <3>4. st[A + 1 + E] = Plain(<<id>>, name)
      BY <1>6, <3>1, <3>2, <3>3
    <3>5. \A k \in 0 .. E : st[A + 1 + k].out = <<id>>
      BY <1>5, <3>2
    <3>6. QED
      BY <3>4, <3>5
  <2>2. CASE \E d \in Seq(V) : /\ e = <<Quote>> \o d \o <<Quote>> /\ \E off : Doubled(name, d, off)
    <3>1. PICK d \in Seq(V) : /\ e = <<Quote>> \o d \o <<Quote>> /\ \E off : Doubled(name, d, off)
      BY <2>2
    <3>2. PICK off : Doubled(name, d, off)
      BY <3>1
    <3> DEFINE q == <<Quote>>
               s == q \o d
               D == Len(d)
    <3>3. q \in Seq(V) /\ Len(q) = 1 /\ q[1] = Quote /\ 1 \in 1 .. 1
      BY DEF V, Chars
    <3>4. e = s \o q
      BY <3>1
    <3> HIDE DEF q
    <3>5. /\ s \in Seq(V) /\ D \in Nat /\ Len(s) = 1 + D
          /\ s[1] = Quote /\ \A i \in 1 .. D : s[1 + i] = d[i]
      <4>1. Joined(V, q, d, s)
        BY <3>3, ConcatParts
      <4> HIDE DEF s
      <4>2. /\ s \in Seq(V) /\ D \in Nat /\ Len(s) = Len(q) + D
            /\ \A i \in 1 .. Len(q) : s[i] = q[i]
            /\ \A i \in 1 .. D : s[Len(q) + i] = d[i]
        BY <4>1 DEF Joined
      <4> HIDE DEF D
      <4>3. QED
        BY <3>3, <4>2
    <3> HIDE DEF s, D
    <3>6. /\ E = 1 + D + 1
          /\ \A i \in 1 .. 1 + D : e[i] = s[i]
          /\ e[1 + D + 1] = Quote
      <4>1. Joined(V, s, q, e)
        BY <3>3, <3>4, <3>5, ConcatParts
      <4>2. /\ E = Len(s) + Len(q)
            /\ \A i \in 1 .. Len(s) : e[i] = s[i]
            /\ \A i \in 1 .. Len(q) : e[Len(s) + i] = q[i]
        BY <4>1 DEF E, Joined
      <4>3. QED
        BY <3>3, <3>5, <4>2
    <3>7. e[1] = Quote /\ \A i \in 1 .. D : e[1 + i] = d[i]
      <4>1. 1 \in 1 .. 1 + D /\ \A i \in 1 .. D : 1 + i \in 1 .. 1 + D
        BY <3>5
      <4>2. QED
        BY <3>5, <3>6, <4>1
    <3> DEFINE a == A + 1
    <3>8. a \in Nat /\ a + D + 2 < Len(row) /\ E = D + 2
      BY <1>1, <3>5, <3>6
    <3>9. row[a + 1] = Quote
      <4>1. 1 \in 1 .. E
        BY <3>5, <3>8
      <4>2. QED
        BY <1>1, <3>7, <4>1
    <3>10. ASSUME NEW i \in 1 .. D PROVE row[a + 1 + i] = d[i]
      <4>1. 1 + i \in 1 .. E /\ a + 1 + i = A + 1 + (1 + i)
        BY <1>1, <3>5, <3>8
      <4>2. QED
        BY <1>1, <3>7, <4>1
    <3>11. row[a + D + 2] = Quote
      <4>1. E \in 1 .. E /\ a + D + 2 = A + 1 + E /\ 1 + D + 1 = E
        BY <1>1, <3>5, <3>8
      <4>2. QED
        BY <1>1, <3>6, <4>1
    <3>12. row[a + D + 3] # Quote
      <4>1. a + D + 3 = A + E + 2
        BY <1>1, <3>5, <3>8
      <4>2. Comma # Quote
        BY DEF Comma, Quote
      <4>3. QED
        BY <1>1, <4>1, <4>2
    <3>13. st[a] = Plain(<<id>>, <<>>)
      BY <1>10
    <3> HIDE DEF a
    <3>14. /\ st[a + D + 2] = Plain(<<id>>, name)
           /\ \A i \in 0 .. D + 2 : st[a + i].out = <<id>>
      <4>1. QuotedRun(V, row, a, <<id>>, name, d, off)
        BY <1>1, <1>2, <3>2, <3>8, <3>9, <3>10, <3>11, <3>12, <3>13 DEF QuotedRun, st, D
      <4>2. QED
        BY <4>1, SplitQuoted DEF st, D
    <3>15. a + D + 2 = A + 1 + E /\ a = A + 1
      BY <1>1, <3>5, <3>8 DEF a
    <3>16. QED
      BY <3>8, <3>14, <3>15
  <2>3. QED
    BY <1>3, <2>1, <2>2
<1>12. A \in Nat /\ E \in Nat /\ B \in Nat /\ Len(size) = B /\ Len(row) = A + E + B + 4
  BY <1>1 DEF B, size
<1>13. st[A + E + 2] = Plain(<<id, name>>, <<>>)
  <2>1. A + E + 2 \in 1 .. Len(row) /\ (A + E + 2) - 1 = A + 1 + E
    BY <1>12
  <2>2. st[A + E + 2] = Plain(Append(<<id>>, name), <<>>)
    <3>1. CommaAt(V, row, A + E + 2, <<id>>, name)
      BY <1>1, <1>11, <2>1 DEF CommaAt, st
    <3>2. QED
      BY <3>1, SplitComma DEF st
  <2>3. Append(<<id>>, name) = <<id, name>>
    BY Pair
  <2>4. QED
    BY <2>2, <2>3
<1>14. \A k \in 0 .. B : st[A + E + 2 + k] = Plain(<<id, name>>, SubSeq(size, 1, k))
  <2>1. A + E + 2 \in Nat /\ A + E + 2 + B <= Len(row) /\ Len(size) = B
    BY <1>12
  <2> DEFINE a == A + E + 2
  <2>2. \A i \in 1 .. B : row[a + i] = size[i] /\ size[i] \notin {Comma, Quote}
    BY <1>1, <1>2
  <2>3. st[a] = Plain(<<id, name>>, <<>>) /\ a \in Nat /\ a + B <= Len(row)
    BY <1>13, <2>1
  <2> HIDE DEF a
  <2>4. \A k \in 0 .. B : st[a + k] = Plain(<<id, name>>, SubSeq(size, 1, k))
    <3>1. PlainRun(V, row, a, <<id, name>>, size)
      BY <1>1, <1>2, <2>1, <2>2, <2>3 DEF PlainRun, st
    <3>2. QED
      BY <2>1, <3>1, SplitPlain DEF st
  <2>5. QED
    BY <2>4 DEF a
<1>15. st[A + E + B + 3] = Plain(<<id, name, size>>, <<>>)
  <2>1. A + E + B + 3 \in 1 .. Len(row) /\ (A + E + B + 3) - 1 = A + E + 2 + B /\ B \in 0 .. B
    BY <1>12
  <2>2. st[A + E + 2 + B] = Plain(<<id, name>>, size)
    BY <1>6, <1>14, <2>1
  <2>3. st[A + E + B + 3] = Plain(Append(<<id, name>>, size), <<>>)
    <3>1. CommaAt(V, row, A + E + B + 3, <<id, name>>, size)
      BY <1>1, <2>1, <2>2 DEF CommaAt, st
    <3>2. QED
      BY <3>1, SplitComma DEF st
  <2>4. Append(<<id, name>>, size) = <<id, name, size>>
    BY Triple
  <2>5. QED
    BY <2>3, <2>4
<1>16. st[A + E + B + 4] = Plain(<<id, name, size>>, <<f>>)
  <2> DEFINE k == A + E + B + 4
  <2>1. k \in 1 .. Len(row) /\ k - 1 = A + E + B + 3
    BY <1>1
  <2>2. \A j \in 1 .. Len(row) : st[j] = NextField(row, j, st[j - 1])
    BY <1>1, SplitStatesEquation DEF st
  <2>3. row[k] = f
    BY <1>1
  <2> HIDE DEF k
  <2>4. PICK x : st[k] = Take(Plain(<<id, name, size>>, <<>>), f, x)
    BY <1>15, <2>1, <2>2, <2>3 DEF NextField
  <2>5. st[k] = Plain(<<id, name, size>>, Append(<<>>, f))
    BY <1>2, <2>4, TakePlain
  <2>6. Append(<<>>, f) = <<f>>
    OBVIOUS
  <2>7. QED
    BY <2>5, <2>6 DEF k
<1>17. QED
  BY <1>8, <1>11, <1>14, <1>15, <1>16 DEF RowSplit, st, A, E, B, id, name, size, f

\* The fields of a row that is cut short after m characters.
CutFields(r, k, m, f) ==
  LET B == Len(r.size)
  IN  /\ k \in Nat /\ B \in Nat /\ m \in Nat
      /\ Len(DumpRow(r)) = k + B + 2
      /\ m < k => Len(f) <= 2 /\ DOMAIN f = 1 .. Len(f)
      /\ m \in k .. k + B => f = <<r.id, r.name, SubSeq(r.size, 1, m - k)>>
      /\ m = k + B + 1 => f = <<r.id, r.name, r.size, <<>> >>
      /\ m = k + B + 2 => f = <<r.id, r.name, r.size, <<Flag(r)>> >>

\* The fields split_csv_line finds in the first m characters of a row.
LEMMA RowFields ==
  ASSUME NEW r \in LedgerRows, NEW p \in Seq(Chars), Len(p) <= Len(DumpRow(r)),
         \A k \in 1 .. Len(p) : p[k] = DumpRow(r)[k]
  PROVE  CutFields(r, Len(r.id) + Len(CsvEscape(r.name)) + 2, Len(p), SplitCsvLine(p))
<1> DEFINE e == CsvEscape(r.name)
           row == DumpRow(r)
           id == r.id
           name == r.name
           size == r.size
           A == Len(id)
           E == Len(e)
           B == Len(size)
           k == A + E + 2
           m == Len(p)
           st == SplitStates(row)
           ps == SplitStates(p)
           f == SplitCsvLine(p)
<1>1. Layout(r, e, row)
  BY RowLayout
<1>2. /\ row \in Seq(Chars) /\ A \in Nat /\ E \in Nat /\ B \in Nat
      /\ Len(row) = A + E + B + 4
      /\ row[A + E + 2] = Comma
      /\ \A i \in 1 .. B : row[A + E + 2 + i] = size[i]
      /\ row[A + E + B + 3] = Comma /\ row[A + E + B + 4] = Flag(r)
  BY <1>1 DEF Layout
<1>3. /\ \A i \in 0 .. A : st[i].out = <<>>
      /\ \A i \in 0 .. E : st[A + 1 + i].out = <<id>>
      /\ \A i \in 0 .. B : st[A + E + 2 + i] = Plain(<<id, name>>, SubSeq(size, 1, i))
      /\ st[A + E + B + 3] = Plain(<<id, name, size>>, <<>>)
      /\ st[A + E + B + 4] = Plain(<<id, name, size>>, <<Flag(r)>>)
  <2> HIDE DEF e, row
  <2>1. e = CsvEscape(r.name)
    BY DEF e
  <2>2. RowSplit(r, e, st)
    BY <1>1, <2>1, RowStates
  <2> HIDE DEF st
  <2>3. QED
    BY <2>2 DEF RowSplit
<1>4. m \in Nat /\ m <= Len(row) /\ \A i \in 1 .. m : p[i] = row[i]
  BY LenProperties
<1>5. /\ ps[m].out = st[m].out
      /\ (m > 0 => row[m] # Quote) => ps[m] = st[m]
  BY <1>2, <1>4, PrefixStates
<1>6. ps[m] \in FieldState(Chars)
  <2>1. m \in 0 .. m
    BY <1>4
  <2>2. ps \in [0 .. m -> FieldState(Chars)]
    BY SplitStatesEquation
  <2>3. QED
    BY <2>1, <2>2
<1>7. f = Append(ps[m].out, ps[m].cur)
  BY DEF SplitCsvLine
<1>8. \A i \in 1 .. B : size[i] # Quote
  BY RowTyped
<1>9. Flag(r) # Quote /\ Comma # Quote
  BY RowTyped DEF Comma, Quote
<1>10. SubSeq(size, 1, B) = size
  BY RowTyped, SubSeqFull
<1>11. \A o, cur : Plain(o, cur).out = o /\ Plain(o, cur).cur = cur
  BY DEF Plain
<1> HIDE DEF e, row, id, name, size, A, E, B, m, st, ps, f
<1>12. ASSUME m < k PROVE Len(f) <= 2 /\ DOMAIN f = 1 .. Len(f)
  <2>1. m \in 0 .. A \/ (m - (A + 1) \in 0 .. E /\ A + 1 + (m - (A + 1)) = m)
    BY <1>2, <1>4, <1>12
  <2>2. ps[m].out = <<>> \/ ps[m].out = <<id>>
    BY <1>3, <1>5, <2>1
  <2>3. ps[m].out \in Seq(Seq(Chars)) /\ ps[m].cur \in Seq(Chars)
    BY <1>6 DEF FieldState
  <2>4. Len(ps[m].out) <= 1 /\ Len(ps[m].out) \in Nat
    <3>1. CASE ps[m].out = <<>>
      BY <3>1
    <3>2. CASE ps[m].out = <<id>>
      BY <3>2
    <3>3. QED
      BY <2>2, <3>1, <3>2
  <2> DEFINE o == ps[m].out
             cur == ps[m].cur
  <2> HIDE DEF o, cur
  <2>5. Len(Append(o, cur)) = Len(o) + 1 /\ DOMAIN Append(o, cur) = 1 .. Len(Append(o, cur))
    BY <2>3, AppendProperties, LenProperties DEF o, cur
  <2>6. Len(o) <= 1 /\ Len(o) \in Nat /\ f = Append(o, cur)
    BY <1>7, <2>4 DEF o, cur
  <2>7. QED
    BY <2>5, <2>6
<1>13. ASSUME m \in k .. k + B PROVE f = <<id, name, SubSeq(size, 1, m - k)>>
  <2>1. m - k \in 0 .. B /\ A + E + 2 + (m - k) = m
    BY <1>2, <1>4, <1>13
  <2>2. row[m] # Quote
    <3>1. CASE m = k
      BY <1>2, <1>9, <3>1
    <3>2. CASE m # k
      <4>1. m - k \in 1 .. B
        BY <1>2, <2>1, <3>2
      <4>2. row[A + E + 2 + (m - k)] = size[m - k]
        BY <1>2, <4>1
      <4>3. QED
        BY <1>8, <2>1, <4>1, <4>2
    <3>3. QED
      BY <3>1, <3>2
  <2>3. st[m] = Plain(<<id, name>>, SubSeq(size, 1, m - k))
    BY <1>3, <2>1
  <2> DEFINE o == <<id, name>>
             cur == SubSeq(size, 1, m - k)
  <2>4. Append(o, cur) = <<id, name, cur>>
    BY Triple
  <2> HIDE DEF o, cur, k
  <2>5. ps[m] = Plain(o, cur)
    BY <1>5, <2>2, <2>3 DEF o, cur
  <2>6. f = Append(o, cur)
    BY <1>7, <1>11, <2>5
  <2>7. QED
    BY <2>4, <2>6 DEF cur
<1>14. ASSUME NEW c, row[m] # Quote, st[m] = Plain(<<id, name, size>>, c)
       PROVE  f = <<id, name, size, c>>
  <2> DEFINE o == <<id, name, size>>
  <2>1. Append(o, c) = <<id, name, size, c>>
    BY Quadruple
  <2> HIDE DEF o
  <2>2. ps[m] = Plain(o, c)
    BY <1>5, <1>14 DEF o
  <2>3. f = Append(o, c)
    BY <1>7, <1>11, <2>2
  <2>4. QED
    BY <2>1, <2>3
<1>15. ASSUME m = k + B + 1 PROVE f = <<id, name, size, <<>> >>
  <2>1. m = A + E + B + 3
    BY <1>2, <1>15
  <2>2. QED
    BY <1>2, <1>3, <1>9, <1>14, <2>1
<1>16. ASSUME m = k + B + 2 PROVE f = <<id, name, size, <<Flag(r)>> >>
  <2>1. m = A + E + B + 4
    BY <1>2, <1>16
  <2>2. QED
    BY <1>2, <1>3, <1>9, <1>14, <2>1
<1>17. Len(row) = k + B + 2 /\ k \in Nat
  BY <1>2
<1>18. QED
  BY <1>2, <1>4, <1>12, <1>13, <1>15, <1>16, <1>17 DEF CutFields, e, row, id, name, size, A, E, B, m, f

\* The first digits of a number are a number.
LEMMA NumberFacts ==
  ASSUME NEW r \in LedgerRows
  PROVE  IsNumber(r.id) /\ IsNumber(r.size)
<1>1. ASSUME NEW s \in Seq(Chars), Len(s) > 0, \A i \in 1 .. Len(s) : s[i] \in Digits
      PROVE  IsNumber(s)
  <2>1. s # <<>> /\ DOMAIN s = 1 .. Len(s)
    BY <1>1, LenProperties
  <2>2. QED
    BY <1>1, <2>1 DEF IsNumber, ToSet
<1>2. QED
  BY <1>1, RowTyped

\* What a row cut short can be read as.
LEMMA RowRead ==
  ASSUME NEW r \in LedgerRows, NEW p \in Seq(Chars), Len(p) <= Len(DumpRow(r)),
         \A k \in 1 .. Len(p) : p[k] = DumpRow(r)[k]
  PROVE  LET f == SplitCsvLine(p)
         IN  /\ Len(p) < Len(r.id) + Len(CsvEscape(r.name)) + 2 => ~RowOk(f, 1, 2, 3)
             /\ RowOk(f, 1, 2, 3) =>
                  f[1] = r.id /\ f[2] = r.name /\ IsPrefix(Field(f, 3), r.size)
             /\ Len(p) = Len(DumpRow(r)) =>
                  /\ RowOk(f, 1, 2, 3) /\ Field(f, 3) = r.size
                  /\ (Field(f, 4) # <<"f">>) = r.still_exists
<1> DEFINE f == SplitCsvLine(p)
           m == Len(p)
           B == Len(r.size)
           k == Len(r.id) + Len(CsvEscape(r.name)) + 2
<1>1. /\ k \in Nat /\ B \in Nat /\ m \in Nat /\ Len(DumpRow(r)) = k + B + 2
      /\ m < k => Len(f) <= 2 /\ DOMAIN f = 1 .. Len(f)
      /\ m \in k .. k + B => f = <<r.id, r.name, SubSeq(r.size, 1, m - k)>>
      /\ m = k + B + 1 => f = <<r.id, r.name, r.size, <<>> >>
      /\ m = k + B + 2 => f = <<r.id, r.name, r.size, <<Flag(r)>> >>
  <2>1. CutFields(r, k, m, f)
    BY RowFields
  <2> HIDE DEF f, m, k
  <2>2. QED
    BY <2>1 DEF CutFields
<1>2. m <= k + B + 2
  BY <1>1
<1>3. r.size \in Seq(Chars) /\ SubSeq(r.size, 1, B) = r.size
  BY RowTyped, SubSeqFull
<1> HIDE DEF f, m, k
<1>4. ASSUME m < k PROVE ~RowOk(f, 1, 2, 3)
  <2>1. 3 \notin DOMAIN f
    BY <1>1, <1>4
  <2>2. Field(f, 3) = <<>>
    BY <2>1 DEF Field
  <2>3. QED
    BY <2>2 DEF RowOk, IsNumber
<1>5. IsPrefix(r.size, r.size)
  BY <1>1, <1>3 DEF IsPrefix
<1>6. ASSUME m >= k
      PROVE  f[1] = r.id /\ f[2] = r.name /\ IsPrefix(Field(f, 3), r.size) /\ 1 \in DOMAIN f /\ 2 \in DOMAIN f
  <2>1. CASE m \in k .. k + B
    <3> DEFINE s == SubSeq(r.size, 1, m - k)
    <3>1. f = <<r.id, r.name, s>>
      BY <1>1, <2>1
    <3>2. m - k \in 0 .. B
      BY <1>1, <2>1
    <3>3. Len(s) = m - k
      <4>1. \A i \in 1 .. m - k : r.size[i] \in Chars
        BY <1>1, <1>3, <3>2, ElementOfSeq
      <4>2. QED
        BY <1>1, <1>3, <3>2, <4>1, SubSeqProperties
    <3>4. s \in Seq(Chars)
      <4>1. \A i \in 1 .. m - k : r.size[i] \in Chars
        BY <1>1, <1>3, <3>2, ElementOfSeq
      <4>2. QED
        BY <1>1, <1>3, <3>2, <4>1, SubSeqProperties
    <3> HIDE DEF s
    <3>5. SubSeq(s, 1, Len(s)) = s
      BY <3>4, SubSeqFull
    <3>6. IsPrefix(s, r.size)
      BY <3>2, <3>3, <3>5 DEF IsPrefix, s
    <3>7. DOMAIN f = 1 .. 3 /\ f[1] = r.id /\ f[2] = r.name /\ f[3] = s
      BY <3>1
    <3>8. Field(f, 3) = s
      BY <3>7 DEF Field
    <3>9. QED
      BY <3>6, <3>7, <3>8
  <2>2. CASE m > k + B
    <3>1. m = k + B + 1 \/ m = k + B + 2
      BY <1>1, <1>2, <2>2
    <3>2. \E c : f = <<r.id, r.name, r.size, c>>
      BY <1>1, <3>1
    <3>3. DOMAIN f = 1 .. 4 /\ f[1] = r.id /\ f[2] = r.name /\ f[3] = r.size
      BY <3>2
    <3>4. Field(f, 3) = r.size
      BY <3>3 DEF Field
    <3>5. QED
      BY <1>5, <3>3, <3>4
  <2>3. QED
    BY <1>1, <1>6, <2>1, <2>2
<1>7. ASSUME m = Len(DumpRow(r))
      PROVE  RowOk(f, 1, 2, 3) /\ Field(f, 3) = r.size /\ (Field(f, 4) # <<"f">>) = r.still_exists
  <2>1. f = <<r.id, r.name, r.size, <<Flag(r)>> >>
    BY <1>1, <1>7
  <2>2. DOMAIN f = 1 .. 4 /\ f[1] = r.id /\ f[2] = r.name /\ f[3] = r.size /\ f[4] = <<Flag(r)>>
    BY <2>1
  <2>3. Field(f, 1) = r.id /\ Field(f, 3) = r.size /\ Field(f, 4) = <<Flag(r)>> /\ 2 \in DOMAIN f
    BY <2>2 DEF Field
  <2>4. RowOk(f, 1, 2, 3)
    BY <2>3, NumberFacts DEF RowOk
  <2>5. (<<Flag(r)>> # <<"f">>) = r.still_exists
    <3>1. r.still_exists \in BOOLEAN
      BY DEF LedgerRows
    <3>2. \A x, y : <<x>> = <<y>> => x = y
      OBVIOUS
    <3>3. CASE r.still_exists = TRUE
      BY <3>2, <3>3 DEF Flag
    <3>4. CASE r.still_exists = FALSE
      BY <3>2, <3>4 DEF Flag
    <3>5. QED
      BY <3>1, <3>3, <3>4
  <2>6. QED
    BY <2>3, <2>4, <2>5
<1>8. RowOk(f, 1, 2, 3) => ~(m < k)
  BY <1>4
<1>9. m < k \/ m >= k
  BY <1>1
<1>10. QED
  BY <1>4, <1>6, <1>7, <1>8, <1>9 DEF f, m, k

\* The header names the four columns.
Columns == << <<"file_id">>, <<"file_name">>, <<"file_size">>, <<"still_exists">> >>

\* The header is one line without quotes.
LEMMA HeaderTyped ==
  /\ Header \in Seq(Chars) /\ Len(Header) = 7
  /\ \A k \in 1 .. 7 : Header[k] # Break /\ Header[k] # Quote
<1>1. Header \in Seq(Chars)
  BY DEF Header, Chars
<1>2. Len(Header) = 7
  BY DEF Header
<1>3. ASSUME NEW k \in 1 .. 7 PROVE Header[k] # Break /\ Header[k] # Quote
  <2>1. k = 1 \/ k = 2 \/ k = 3 \/ k = 4 \/ k = 5 \/ k = 6 \/ k = 7
    OBVIOUS
  <2>2. /\ Header[1] = "file_id" /\ Header[2] = Comma /\ Header[3] = "file_name" /\ Header[4] = Comma
        /\ Header[5] = "file_size" /\ Header[6] = Comma /\ Header[7] = "still_exists"
    BY DEF Header
  <2>3. QED
    BY <2>1, <2>2 DEF Break, Quote, Comma
<1>4. QED
  BY <1>1, <1>2, <1>3

\* split_csv_line finds the columns in the header.
LEMMA HeaderFields == SplitCsvLine(Header) = Columns
<1> DEFINE st == SplitStates(Header)
           a == <<"file_id">>
           b == <<"file_name">>
           c == <<"file_size">>
           d == <<"still_exists">>
<1>1. /\ st[0] = Plain(<<>>, <<>>)
      /\ \A k \in 1 .. 7 : st[k] = NextField(Header, k, st[k - 1])
  BY HeaderTyped, SplitStatesEquation DEF Plain
<1>2. \A k \in 1 .. 7 : \E x : st[k] = Take(st[k - 1], Header[k], x)
  <2> HIDE DEF st
  <2>1. QED
    BY <1>1 DEF NextField
<1>3. /\ Header[1] = "file_id" /\ Header[2] = Comma /\ Header[3] = "file_name" /\ Header[4] = Comma
      /\ Header[5] = "file_size" /\ Header[6] = Comma /\ Header[7] = "still_exists"
  BY DEF Header
<1>4. SplitCsvLine(Header) = Append(st[7].out, st[7].cur)
  BY HeaderTyped DEF SplitCsvLine
<1> HIDE DEF st
<1>5. ASSUME NEW o, NEW w, w # Comma, w # Quote, NEW k \in 1 .. 7, st[k - 1] = Plain(o, <<>>), Header[k] = w
      PROVE  st[k] = Plain(o, <<w>>)
  <2> DEFINE none == <<>>
  <2>1. PICK x : st[k] = Take(Plain(o, none), w, x)
    BY <1>2, <1>5
  <2>2. Append(none, w) = <<w>>
    OBVIOUS
  <2> HIDE DEF none
  <2>3. st[k] = Plain(o, Append(none, w))
    BY <1>5, <2>1, TakePlain
  <2>4. QED
    BY <2>2, <2>3
<1>6. ASSUME NEW o, NEW cur, NEW k \in 1 .. 7, st[k - 1] = Plain(o, cur), Header[k] = Comma
      PROVE  st[k] = Plain(Append(o, cur), <<>>)
  <2>1. PICK x : st[k] = Take(Plain(o, cur), Comma, x)
    BY <1>2, <1>6
  <2>2. QED
    BY <2>1, TakeComma
<1>7. /\ "file_id" # Comma /\ "file_id" # Quote /\ "file_name" # Comma /\ "file_name" # Quote
      /\ "file_size" # Comma /\ "file_size" # Quote /\ "still_exists" # Comma /\ "still_exists" # Quote
  BY DEF Comma, Quote
<1>8. 1 - 1 = 0 /\ 2 - 1 = 1 /\ 3 - 1 = 2 /\ 4 - 1 = 3 /\ 5 - 1 = 4 /\ 6 - 1 = 5 /\ 7 - 1 = 6
  OBVIOUS
<1>9. /\ 1 \in 1 .. 7 /\ 2 \in 1 .. 7 /\ 3 \in 1 .. 7 /\ 4 \in 1 .. 7
      /\ 5 \in 1 .. 7 /\ 6 \in 1 .. 7 /\ 7 \in 1 .. 7
  OBVIOUS
<1>10. st[1] = Plain(<<>>, a)
  BY <1>1, <1>3, <1>5, <1>7, <1>8, <1>9
<1>11. st[2] = Plain(<<a>>, <<>>)
  <2> DEFINE none == <<>>
  <2>1. Append(none, a) = <<a>>
    OBVIOUS
  <2> HIDE DEF none
  <2>2. st[2] = Plain(Append(none, a), <<>>)
    BY <1>3, <1>6, <1>8, <1>9, <1>10 DEF none
  <2>3. QED
    BY <2>1, <2>2
<1>12. st[3] = Plain(<<a>>, b)
  BY <1>3, <1>5, <1>7, <1>8, <1>9, <1>11
<1>13. st[4] = Plain(<<a, b>>, <<>>)
  <2>1. st[4] = Plain(Append(<<a>>, b), <<>>)
    BY <1>3, <1>6, <1>8, <1>9, <1>12
  <2>2. Append(<<a>>, b) = <<a, b>>
    BY Pair
  <2>3. QED
    BY <2>1, <2>2
<1>14. st[5] = Plain(<<a, b>>, c)
  BY <1>3, <1>5, <1>7, <1>8, <1>9, <1>13
<1>15. st[6] = Plain(<<a, b, c>>, <<>>)
  <2>1. st[6] = Plain(Append(<<a, b>>, c), <<>>)
    BY <1>3, <1>6, <1>8, <1>9, <1>14
  <2>2. Append(<<a, b>>, c) = <<a, b, c>>
    BY Triple
  <2>3. QED
    BY <2>1, <2>2
<1>16. st[7] = Plain(<<a, b, c>>, d)
  BY <1>3, <1>5, <1>7, <1>8, <1>9, <1>15
<1>17. SplitCsvLine(Header) = Append(<<a, b, c>>, d)
  BY <1>4, <1>16 DEF Plain
<1>18. Append(<<a, b, c>>, d) = <<a, b, c, d>>
  BY Quadruple
<1>19. QED
  BY <1>17, <1>18 DEF Columns

\* parse_snapshot finds the columns where dump_csv writes them.
LEMMA HeaderColumns ==
  /\ Column(Header, "file_id") = 1 /\ Column(Header, "file_name") = 2
  /\ Column(Header, "file_size") = 3 /\ Column(Header, "still_exists") = 4
<1>1. /\ DOMAIN Columns = 1 .. 4
      /\ Columns[1] = <<"file_id">> /\ Columns[2] = <<"file_name">>
      /\ Columns[3] = <<"file_size">> /\ Columns[4] = <<"still_exists">>
  BY DEF Columns
<1>2. \A x, y : <<x>> = <<y>> => x = y
  OBVIOUS
<1>3. ASSUME NEW i \in 1 .. 4, NEW w, Columns[i] = <<w>>, \A k \in 1 .. 4 : Columns[k] = <<w>> => k = i
      PROVE  Column(Header, w) = i
  <2>1. <<w>> \in ToSet(Columns)
    BY <1>1, <1>3 DEF ToSet
  <2> DEFINE v == CHOOSE k \in DOMAIN Columns : Columns[k] = <<w>>
  <2>2. v \in DOMAIN Columns /\ Columns[v] = <<w>>
    BY <1>1, <1>3
  <2>3. v = i
    BY <1>1, <1>3, <2>2
  <2>4. Column(Header, w) = v
    BY <2>1, HeaderFields DEF Column
  <2>5. QED
    BY <2>3, <2>4
<1>4. \A k \in 1 .. 4 : k = 1 \/ k = 2 \/ k = 3 \/ k = 4
  OBVIOUS
<1>5. Column(Header, "file_id") = 1
  BY <1>1, <1>2, <1>3, <1>4
<1>6. Column(Header, "file_name") = 2
  BY <1>1, <1>2, <1>3, <1>4
<1>7. Column(Header, "file_size") = 3
  BY <1>1, <1>2, <1>3, <1>4
<1>8. Column(Header, "still_exists") = 4
  BY <1>1, <1>2, <1>3, <1>4
<1>9. QED
  BY <1>5, <1>6, <1>7, <1>8

\* Lines that are done, and the one under way.
Line(d, c) == [done |-> d, cur |-> c]

LineRun(V, text, a, d, s) ==
  /\ text \in Seq(V) /\ s \in Seq(V) /\ a \in Nat
  /\ a + Len(s) <= Len(text) /\ LineStates(text)[a] = Line(d, <<>>)
  /\ \A i \in 1 .. Len(s) : text[a + i] = s[i] /\ s[i] # Break

\* A run of characters without a line break goes to the line under way.
LEMMA LineGrows ==
  ASSUME NEW V, NEW text, NEW a, NEW d, NEW s, LineRun(V, text, a, d, s)
  PROVE  \A i \in 0 .. Len(s) : LineStates(text)[a + i] = Line(d, SubSeq(s, 1, i))
<1> USE DEF LineRun
<1> DEFINE st == LineStates(text)
           T == {i \in Nat : i <= Len(s) => st[a + i] = Line(d, SubSeq(s, 1, i))}
<1>1. Len(s) \in Nat /\ Len(text) \in Nat
  BY LenProperties
<1>2. \A k \in 1 .. Len(text) : st[k] = NextLine(st[k - 1], text[k])
  BY LineStatesEquation
<1> HIDE DEF st
<1>3. 0 \in T
  <2>1. SubSeq(s, 1, 0) = <<>> /\ a + 0 = a
    BY SubSeqEmpty
  <2>2. QED
    BY <2>1 DEF st
<1>4. ASSUME NEW i \in Nat, i \in T PROVE i + 1 \in T
  <2>1. SUFFICES ASSUME i + 1 <= Len(s) PROVE st[a + (i + 1)] = Line(d, SubSeq(s, 1, i + 1))
    OBVIOUS
  <2>2. /\ i <= Len(s) /\ i + 1 \in 1 .. Len(s) /\ 1 \in 1 .. Len(s) + 1 /\ (i + 1) - 1 = i
        /\ a + (i + 1) \in 1 .. Len(text) /\ (a + (i + 1)) - 1 = a + i
    BY <1>1, <2>1
  <2>3. st[a + i] = Line(d, SubSeq(s, 1, i))
    BY <1>4, <2>2
  <2> DEFINE cur == SubSeq(s, 1, i)
             c == s[i + 1]
  <2>4. text[a + (i + 1)] = c /\ c # Break
    BY <2>2
  <2>5. st[a + (i + 1)] = NextLine(Line(d, cur), c)
    BY <1>2, <2>2, <2>3, <2>4
  <2>6. SubSeq(s, 1, i + 1) = Append(cur, c)
    BY <2>2, PrefixAppend
  <2> HIDE DEF cur, c
  <2>7. NextLine(Line(d, cur), c) = Line(d, Append(cur, c))
    BY <2>4 DEF NextLine, Line
  <2>8. QED
    BY <2>5, <2>6, <2>7
<1>5. \A i \in Nat : i \in T
  <2> HIDE DEF T
  <2>1. QED
    BY <1>3, <1>4, Induction
<1> HIDE DEF LineRun
<1>6. QED
  BY <1>1, <1>5 DEF st

\* A line break ends it.
LEMMA LineEnds ==
  ASSUME NEW V, NEW text \in Seq(V), NEW k \in 1 .. Len(text), text[k] = Break,
         NEW d, NEW c, LineStates(text)[k - 1] = Line(d, c), c # <<>>
  PROVE  LineStates(text)[k] = Line(Append(d, c), <<>>)
<1>1. LineStates(text)[k] = NextLine(Line(d, c), Break)
  BY LineStatesEquation
<1>2. NextLine(Line(d, c), Break) = Line(Append(d, c), <<>>)
  BY DEF NextLine, NonBlank, Line
<1>3. QED
  BY <1>1, <1>2

\* A line that is done stays.
LEMMA LinesStay ==
  ASSUME NEW V, NEW text \in Seq(V), NEW a \in 0 .. Len(text)
  PROVE  LET d == LineStates(text)[a].done
             l == Lines(text)
         IN  Len(d) \in Nat /\ Len(l) \in Nat /\ Len(d) <= Len(l) /\ \A i \in 1 .. Len(d) : l[i] = d[i]
<1> DEFINE st == LineStates(text)
           n == Len(text)
           d == st[a].done
           Keeps(l) == Len(l) \in Nat /\ Len(d) <= Len(l) /\ \A i \in 1 .. Len(d) : l[i] = d[i]
           T == {i \in Nat : a + i <= n => Keeps(st[a + i].done)}
<1>1. n \in Nat
  BY LenProperties
<1>2. /\ st \in [0 .. n -> LineState(V)]
      /\ \A k \in 1 .. n : st[k] = NextLine(st[k - 1], text[k])
  BY LineStatesEquation
<1>3. \A k \in 0 .. n : st[k] \in LineState(V) /\ st[k].done \in Seq(Seq(V)) /\ st[k].cur \in Seq(V)
  BY <1>2 DEF LineState
<1> HIDE DEF st, n
<1>4. Len(d) \in Nat
  BY <1>1, <1>3, LenProperties DEF n
<1>5. ASSUME NEW k \in 0 .. n, Keeps(st[k].done) PROVE Keeps(NonBlank(st[k]))
  <2> DEFINE l == st[k].done
             c == st[k].cur
  <2>1. l \in Seq(Seq(V)) /\ c \in Seq(V) /\ Len(l) \in Nat
    BY <1>3, LenProperties
  <2>2. Len(d) <= Len(l) /\ \A i \in 1 .. Len(d) : l[i] = d[i]
    BY <1>5
  <2>3. NonBlank(st[k]) = l \/ NonBlank(st[k]) = Append(l, c)
    BY DEF NonBlank
  <2> HIDE DEF d, l, c
  <2>4. Len(Append(l, c)) = Len(l) + 1 /\ \A i \in 1 .. Len(l) : Append(l, c)[i] = l[i]
    BY <2>1, AppendProperties
  <2>5. \A i \in 1 .. Len(d) : i \in 1 .. Len(l)
    BY <1>4, <2>1, <2>2
  <2>6. Keeps(Append(l, c))
    <3>1. Len(Append(l, c)) \in Nat /\ Len(d) <= Len(Append(l, c))
      BY <1>4, <2>1, <2>2, <2>4
    <3>2. ASSUME NEW i \in 1 .. Len(d) PROVE Append(l, c)[i] = d[i]
      BY <2>2, <2>4, <2>5
    <3>3. QED
      BY <3>1, <3>2
  <2>7. Keeps(l)
    BY <2>1, <2>2
  <2> HIDE DEF Keeps
  <2>8. QED
    BY <2>3, <2>6, <2>7
<1>6. 0 \in T
  <2>1. a + 0 = a
    OBVIOUS
  <2>2. Keeps(d)
    BY <1>4
  <2>3. QED
    BY <2>1, <2>2
<1>7. ASSUME NEW i \in Nat, i \in T PROVE i + 1 \in T
  <2>1. SUFFICES ASSUME a + (i + 1) <= n PROVE Keeps(st[a + (i + 1)].done)
    OBVIOUS
  <2> DEFINE k == a + (i + 1)
  <2>2. k \in 1 .. n /\ k - 1 = a + i /\ a + i <= n /\ k - 1 \in 0 .. n
    BY <1>1, <2>1 DEF n
  <2>3. Keeps(st[k - 1].done)
    BY <1>7, <2>2
  <2>4. Keeps(NonBlank(st[k - 1]))
    <3> HIDE DEF Keeps, k
    <3>1. QED
      BY <1>5, <2>2, <2>3
  <2>5. st[k] = NextLine(st[k - 1], text[k]) /\ st[k - 1] \in LineState(V)
    BY <1>2, <1>3, <2>2
  <2> HIDE DEF k, Keeps
  <2>6. st[k].done = NonBlank(st[k - 1]) \/ st[k].done = st[k - 1].done
    BY <2>5 DEF NextLine, LineState
  <2>7. QED
    BY <2>3, <2>4, <2>6 DEF k
<1>8. \A i \in Nat : i \in T
  <2> HIDE DEF T
  <2>1. QED
    BY <1>6, <1>7, Induction
<1>9. Keeps(st[n].done)
  <2>1. n - a \in Nat /\ a + (n - a) = n /\ a + (n - a) <= n
    BY <1>1 DEF n
  <2> HIDE DEF Keeps
  <2>2. QED
    BY <1>8, <2>1
<1>10. Keeps(NonBlank(st[n]))
  <2>1. n \in 0 .. n
    BY <1>1
  <2> HIDE DEF Keeps
  <2>2. QED
    BY <1>5, <1>9, <2>1
<1>11. Lines(text) = NonBlank(st[n])
  BY DEF Lines, st, n
<1>12. QED
  BY <1>4, <1>10, <1>11 DEF st

\* A line break in a row is one of its file's name.
LEMMA RowBreaks ==
  ASSUME NEW r \in LedgerRows
  PROVE  LET row == DumpRow(r)
             k == Len(r.id) + Len(CsvEscape(r.name)) + 2
         IN  /\ row \in Seq(Chars) /\ Len(row) \in Nat /\ Len(row) > 0
             /\ k \in Nat /\ k <= Len(row)
             /\ \A i \in 1 .. Len(row) : row[i] = Break => i > 1 /\ i < k
             /\ Break \notin ToSet(r.name) => \A i \in 1 .. Len(row) : row[i] # Break
             /\ Break \in ToSet(r.name) => \E i \in 1 .. Len(row) : row[i] = Break
<1> DEFINE e == CsvEscape(r.name)
           row == DumpRow(r)
           id == r.id
           name == r.name
           size == r.size
           A == Len(id)
           E == Len(e)
           B == Len(size)
           k == A + E + 2
<1>1. Layout(r, e, row)
  BY RowLayout
<1>2. /\ row \in Seq(Chars) /\ e \in Seq(Chars) /\ A \in Nat /\ E \in Nat /\ B \in Nat
      /\ Len(row) = A + E + B + 4
      /\ \A i \in 1 .. A : row[i] = id[i]
      /\ row[A + 1] = Comma
      /\ \A i \in 1 .. E : row[A + 1 + i] = e[i]
      /\ row[A + E + 2] = Comma
      /\ \A i \in 1 .. B : row[A + E + 2 + i] = size[i]
      /\ row[A + E + B + 3] = Comma /\ row[A + E + B + 4] = Flag(r)
  BY <1>1 DEF Layout
<1>3. /\ \A i \in 1 .. A : id[i] # Break
      /\ \A i \in 1 .. B : size[i] # Break
      /\ Flag(r) # Break /\ name \in Seq(Chars) /\ Comma # Break /\ Quote # Break
  BY RowTyped DEF Comma, Quote, Break
<1>4. /\ Len(name) \in Nat /\ DOMAIN name = 1 .. Len(name)
      /\ \A i \in 1 .. Len(name) : name[i] \in Chars
  BY <1>3, LenProperties, ElementOfSeq
<1>5. ASSUME Break \notin ToSet(name), NEW i \in 1 .. E PROVE e[i] # Break
  <2> DEFINE W == Chars \ {Break}
  <2>1. name \in Seq(W)
    <3>1. \A j \in 1 .. Len(name) : name[j] \in W
      BY <1>4, <1>5 DEF ToSet
    <3>2. name = [j \in 1 .. Len(name) |-> name[j]]
      BY <1>3, <1>4
    <3> HIDE DEF W
    <3>3. name \in [1 .. Len(name) -> W]
      BY <3>1, <3>2
    <3>4. QED
      BY <1>4, <3>3
  <2>2. <<Quote>> \in Seq(W)
    BY <1>3 DEF Chars
  <2> HIDE DEF W
  <2>3. Replace(name, Quote, <<Quote, Quote>>) \in Seq(W)
    BY <2>1, ReplaceFacts
  <2>4. <<Quote>> \o Replace(name, Quote, <<Quote, Quote>>) \o <<Quote>> \in Seq(W)
    BY <2>2, <2>3, ConcatProperties
  <2>5. e \in Seq(W)
    BY <2>1, <2>4 DEF CsvEscape
  <2>6. e[i] \in W
    BY <2>5, ElementOfSeq
  <2>7. QED
    BY <2>6 DEF W
<1>6. ASSUME Break \in ToSet(name) PROVE \E i \in 1 .. E : e[i] = Break
  <2>1. PICK j \in 1 .. Len(name) : name[j] = Break
    BY <1>4, <1>6 DEF ToSet
  <2>2. PICK d \in Seq(Chars) : e = <<Quote>> \o d \o <<Quote>> /\ \E off : Doubled(name, d, off)
    BY <1>3, <2>1, EscapeFacts
  <2>3. PICK off : Doubled(name, d, off)
    BY <2>2
  <2> DEFINE q == <<Quote>>
             s == q \o d
             i == off[j - 1] + 1
  <2>4. Len(d) \in Nat /\ j - 1 \in 0 .. Len(name) /\ j \in 0 .. Len(name)
    BY <1>4, LenProperties
  <2>5. off[j] = i /\ d[i] = Break /\ off[j - 1] \in 0 .. Len(d) /\ off[j] \in 0 .. Len(d)
    <3>1. name[j] # Quote
      BY <1>3, <2>1
    <3>2. QED
      BY <2>1, <2>3, <2>4, <3>1 DEF Doubled
  <2>6. i \in 1 .. Len(d)
    BY <2>4, <2>5
  <2>7. q \in Seq(Chars) /\ Len(q) = 1
    BY DEF Chars
  <2> HIDE DEF q
  <2>8. e = s \o q
    BY <2>2 DEF q
  <2>9. Joined(Chars, q, d, s) /\ s \in Seq(Chars)
    <3>1. Joined(Chars, q, d, s)
      BY <2>7, ConcatParts
    <3> HIDE DEF s
    <3>2. QED
      BY <3>1 DEF Joined
  <2> HIDE DEF s, i
  <2>10. Joined(Chars, s, q, e)
    BY <2>7, <2>8, <2>9, ConcatParts
  <2>11. s[1 + i] = Break /\ Len(s) = 1 + Len(d)
    BY <2>5, <2>6, <2>7, <2>9 DEF Joined
  <2>12. 1 + i \in 1 .. Len(s) /\ 1 + i \in 1 .. E
    <3>1. E = Len(s) + 1
      BY <2>7, <2>10 DEF Joined
    <3>2. QED
      BY <2>4, <2>6, <2>11, <3>1
  <2>13. e[1 + i] = s[1 + i]
    BY <2>10, <2>12 DEF Joined
  <2>14. QED
    BY <2>11, <2>12, <2>13
<1> HIDE DEF e, row, id, name, size, A, E, B
<1>7. ASSUME NEW i \in 1 .. Len(row)
      PROVE  row[i] # Break \/ (i - (A + 1) \in 1 .. E /\ row[i] = e[i - (A + 1)])
  <2>1. i \in Int /\ i >= 1 /\ i <= A + E + B + 4
    BY <1>2
  <2>2. CASE i <= A
    <3>1. i \in 1 .. A
      BY <1>2, <2>1, <2>2
    <3>2. row[i] = id[i] /\ id[i] # Break
      BY <1>2, <1>3, <3>1
    <3>3. QED
      BY <3>2
  <2>3. CASE i = A + 1
    BY <1>2, <1>3, <2>3
  <2>4. CASE i > A + 1 /\ i <= A + 1 + E
    <3>1. i - (A + 1) \in 1 .. E /\ A + 1 + (i - (A + 1)) = i
      BY <1>2, <2>1, <2>4
    <3>2. QED
      BY <1>2, <3>1
  <2>5. CASE i = A + E + 2
    BY <1>2, <1>3, <2>5
  <2>6. CASE i > A + E + 2 /\ i <= A + E + 2 + B
    <3>1. i - (A + E + 2) \in 1 .. B /\ A + E + 2 + (i - (A + E + 2)) = i
      BY <1>2, <2>1, <2>6
    <3>2. QED
      BY <1>2, <1>3, <3>1
  <2>7. CASE i = A + E + B + 3
    BY <1>2, <1>3, <2>7
  <2>8. CASE i = A + E + B + 4
    BY <1>2, <1>3, <2>8
  <2>9. QED
    BY <1>2, <2>1, <2>2, <2>3, <2>4, <2>5, <2>6, <2>7, <2>8
<1>8. ASSUME NEW i \in 1 .. Len(row), row[i] = Break PROVE i > 1 /\ i < k
  <2>1. i - (A + 1) \in 1 .. E
    BY <1>7, <1>8
  <2>2. QED
    BY <1>2, <2>1
<1>9. ASSUME Break \notin ToSet(name), NEW i \in 1 .. Len(row) PROVE row[i] # Break
  BY <1>5, <1>7, <1>9
<1>10. ASSUME Break \in ToSet(name) PROVE \E i \in 1 .. Len(row) : row[i] = Break
  <2>1. PICK i \in 1 .. E : e[i] = Break
    BY <1>6, <1>10
  <2>2. A + 1 + i \in 1 .. Len(row) /\ row[A + 1 + i] = e[i]
    BY <1>2
  <2>3. QED
    BY <2>1, <2>2
<1>11. row \in Seq(Chars) /\ Len(row) \in Nat /\ Len(row) > 0 /\ k \in Nat /\ k <= Len(row)
  BY <1>2
<1>12. QED
  BY <1>8, <1>9, <1>10, <1>11 DEF e, row, id, name, A, E

\* What is where in a dump.
Dumped(table, dump, recs, start) ==
  /\ dump \in Seq(Chars) /\ recs \in Seq(Seq(Chars))
  /\ Len(table) \in Nat /\ Len(recs) = Len(table) + 1
  /\ recs[1] = Header /\ \A k \in 1 .. Len(table) : recs[k + 1] = DumpRow(table[k])
  /\ start \in [0 .. Len(recs) -> 0 .. Len(dump)] /\ start[0] = 0 /\ start[Len(recs)] = Len(dump)
  /\ \A j \in 1 .. Len(recs) :
       /\ Len(recs[j]) \in Nat /\ Len(recs[j]) > 0
       /\ start[j] = start[j - 1] + Len(recs[j]) + 1 /\ dump[start[j]] = Break
       /\ \A i \in 1 .. Len(recs[j]) : dump[start[j - 1] + i] = recs[j][i]

DumpRows(table) == [k \in 1 .. Len(table) + 1 |-> IF k = 1 THEN Header ELSE DumpRow(table[k - 1])]

Pieces(table) == [k \in 1 .. Len(table) + 1 |-> Append(DumpRows(table)[k], Break)]

\* A ledger is a sequence of recs.
LEMMA LedgerTyped ==
  ASSUME NEW table \in Ledgers
  PROVE  /\ table \in Seq(LedgerRows) /\ Len(table) \in Nat /\ DOMAIN table = 1 .. Len(table)
         /\ \A k \in 1 .. Len(table) : table[k] \in LedgerRows
<1>1. PICK n \in 0 .. MaxRows : table \in [1 .. n -> LedgerRows]
  BY DEF Ledgers
<1>2. n \in Nat
  BY <1>1, SnapshotAssumption
<1>3. table \in Seq(LedgerRows)
  BY <1>1, <1>2
<1>4. QED
  BY <1>3, LenProperties, ElementOfSeq

\* dump_csv writes the lines one after the other.
LEMMA DumpPieces ==
  ASSUME NEW table, Len(table) \in Nat
  PROVE  DumpCsv(table) = FlattenSeq(Pieces(table))
<1> DEFINE S == 1 .. Len(table) + 1
           R(k) == IF k = 1 THEN Header ELSE DumpRow(table[k - 1])
<1>1. \A k \in S : DumpRows(table)[k] = R(k)
  BY DEF DumpRows
<1>2. [k \in S |-> Append(R(k), Break)] = Pieces(table)
  <2> HIDE DEF R, S
  <2>1. Pieces(table) = [k \in S |-> Append(DumpRows(table)[k], Break)]
    BY DEF Pieces, S
  <2>2. QED
    BY <1>1, <2>1
<1>3. DumpCsv(table) = FlattenSeq([k \in S |-> Append(R(k), Break)])
  BY DEF DumpCsv
<1>4. QED
  BY <1>2, <1>3

\* They are not blank.
LEMMA RowsTyped ==
  ASSUME NEW table \in Seq(LedgerRows)
  PROVE  /\ DumpRows(table) \in Seq(Seq(Chars)) /\ Pieces(table) \in Seq(Seq(Chars))
         /\ Len(DumpRows(table)) = Len(table) + 1 /\ Len(Pieces(table)) = Len(table) + 1
         /\ DumpRows(table)[1] = Header
         /\ \A k \in 1 .. Len(table) : DumpRows(table)[k + 1] = DumpRow(table[k])
         /\ \A k \in 1 .. Len(table) + 1 :
              LET s == DumpRows(table)[k]
                  p == Pieces(table)[k]
              IN  /\ s \in Seq(Chars) /\ Len(s) \in Nat /\ Len(s) > 0
                  /\ Len(p) = Len(s) + 1 /\ p[Len(s) + 1] = Break
                  /\ \A i \in 1 .. Len(s) : p[i] = s[i]
<1> DEFINE n == Len(table)
           recs == DumpRows(table)
           q == Pieces(table)
<1>1. n \in Nat /\ \A k \in 1 .. n : table[k] \in LedgerRows
  BY LenProperties, ElementOfSeq
<1>2. recs[1] = Header
  BY <1>1 DEF DumpRows
<1>3. ASSUME NEW k \in 1 .. n PROVE recs[k + 1] = DumpRow(table[k])
  <2>1. k + 1 \in 1 .. n + 1 /\ k + 1 # 1 /\ (k + 1) - 1 = k
    BY <1>1
  <2>2. QED
    BY <2>1 DEF DumpRows
<1>4. ASSUME NEW k \in 1 .. n + 1
      PROVE  recs[k] \in Seq(Chars) /\ Len(recs[k]) \in Nat /\ Len(recs[k]) > 0
  <2>1. CASE k = 1
    <3>1. recs[k] = Header
      BY <1>2, <2>1
    <3> HIDE DEF recs
    <3>2. Header \in Seq(Chars) /\ Len(Header) \in Nat /\ Len(Header) > 0
      BY HeaderTyped
    <3>3. QED
      BY <3>1, <3>2
  <2>2. CASE k # 1
    <3>1. k - 1 \in 1 .. n /\ (k - 1) + 1 = k
      BY <1>1, <2>2
    <3>2. recs[k] = DumpRow(table[k - 1]) /\ table[k - 1] \in LedgerRows
      BY <1>1, <1>3, <3>1
    <3>3. QED
      BY <3>2, RowBreaks
  <2>3. QED
    BY <2>1, <2>2
<1>5. DOMAIN recs = 1 .. n + 1 /\ recs = [k \in 1 .. n + 1 |-> recs[k]]
  BY DEF DumpRows
<1>6. q = [k \in 1 .. n + 1 |-> Append(recs[k], Break)]
  BY DEF Pieces
<1>7. Break \in Chars
  BY DEF Chars
<1> HIDE DEF recs, q, n
<1>8. recs \in [1 .. n + 1 -> Seq(Chars)] /\ n + 1 \in Nat
  BY <1>1, <1>4, <1>5
<1>9. recs \in Seq(Seq(Chars)) /\ Len(recs) = n + 1
  <2>1. recs \in Seq(Seq(Chars))
    BY <1>8
  <2>2. QED
    BY <1>8, <2>1
<1>10. ASSUME NEW k \in 1 .. n + 1
       PROVE  /\ q[k] \in Seq(Chars) /\ Len(q[k]) = Len(recs[k]) + 1 /\ q[k][Len(recs[k]) + 1] = Break
              /\ \A i \in 1 .. Len(recs[k]) : q[k][i] = recs[k][i]
  <2> DEFINE s == recs[k]
             u == Append(s, Break)
  <2>1. s \in Seq(Chars) /\ q[k] = u
    BY <1>4, <1>6
  <2> HIDE DEF s
  <2>2. u \in Seq(Chars) /\ Len(u) = Len(s) + 1 /\ u[Len(s) + 1] = Break /\ \A i \in 1 .. Len(s) : u[i] = s[i]
    BY <1>7, <2>1, AppendProperties
  <2> HIDE DEF u
  <2>3. QED
    BY <2>1, <2>2 DEF s
<1>11. q \in Seq(Seq(Chars)) /\ Len(q) = n + 1
  <2>1. q = [k \in 1 .. n + 1 |-> q[k]] /\ DOMAIN q = 1 .. n + 1
    BY <1>6
  <2>2. q \in [1 .. n + 1 -> Seq(Chars)]
    BY <1>10, <2>1
  <2>3. q \in Seq(Seq(Chars))
    BY <1>8, <2>2
  <2>4. QED
    BY <1>8, <2>2, <2>3
<1>12. QED
  BY <1>2, <1>3, <1>4, <1>9, <1>10, <1>11 DEF recs, q, n

\* Where the lines of a dump are, and how long the dump of the first k recs is.
LEMMA DumpFacts ==
  ASSUME NEW table \in Ledgers
  PROVE  \E recs, start :
           /\ Dumped(table, DumpCsv(table), recs, start)
           /\ \A k \in 1 .. Len(table) : Len(DumpCsv(SubSeq(table, 1, k))) = start[k + 1]
<1> DEFINE n == Len(table)
           recs == DumpRows(table)
           q == Pieces(table)
           dump == FlattenSeq(q)
           start == [j \in 0 .. n + 1 |-> Off(q, j)]
<1>1. table \in Seq(LedgerRows) /\ n \in Nat
  BY LedgerTyped
<1>2. DumpCsv(table) = dump
  BY <1>1, DumpPieces
<1>3. /\ recs \in Seq(Seq(Chars)) /\ q \in Seq(Seq(Chars))
      /\ Len(recs) = n + 1 /\ Len(q) = n + 1
      /\ recs[1] = Header /\ \A k \in 1 .. n : recs[k + 1] = DumpRow(table[k])
      /\ \A k \in 1 .. n + 1 :
           /\ Len(recs[k]) \in Nat /\ Len(recs[k]) > 0
           /\ Len(q[k]) = Len(recs[k]) + 1 /\ q[k][Len(recs[k]) + 1] = Break
           /\ \A i \in 1 .. Len(recs[k]) : q[k][i] = recs[k][i]
  BY <1>1, RowsTyped
<1> HIDE DEF q, recs, n
<1>4. dump \in Seq(Chars)
  BY <1>3, FlattenAppend
<1>5. /\ Off(q, 0) = 0 /\ Off(q, n + 1) = Len(dump)
      /\ \A j \in 0 .. n + 1 : Off(q, j) \in 0 .. Len(dump)
      /\ \A j \in 1 .. n + 1 :
           /\ Off(q, j) = Off(q, j - 1) + Len(q[j])
           /\ \A i \in 1 .. Len(q[j]) : dump[Off(q, j - 1) + i] = q[j][i]
  <2>1. q \in Seq(Seq(Chars)) /\ Len(q) = n + 1
    BY <1>3
  <2>2. /\ Off(q, 0) = 0 /\ Off(q, Len(q)) = Len(dump)
        /\ \A j \in 0 .. Len(q) : Off(q, j) \in 0 .. Len(dump)
        /\ \A j \in 1 .. Len(q) :
             /\ Off(q, j) = Off(q, j - 1) + Len(q[j])
             /\ \A i \in 1 .. Len(q[j]) : dump[Off(q, j - 1) + i] = q[j][i]
    BY <2>1, FlattenPositions
  <2> HIDE DEF dump
  <2>3. QED
    BY <2>1, <2>2
<1> HIDE DEF dump
<1>6. start \in [0 .. n + 1 -> 0 .. Len(dump)] /\ start[0] = 0 /\ start[n + 1] = Len(dump)
  BY <1>1, <1>5
<1>7. ASSUME NEW j \in 1 .. n + 1
      PROVE  /\ start[j] = start[j - 1] + Len(recs[j]) + 1 /\ dump[start[j]] = Break
             /\ \A i \in 1 .. Len(recs[j]) : dump[start[j - 1] + i] = recs[j][i]
  <2>1. start[j] = Off(q, j) /\ start[j - 1] = Off(q, j - 1) /\ j - 1 \in 0 .. n + 1
    BY <1>1
  <2>2. start[j - 1] \in Nat
    BY <1>1, <1>6, <2>1
  <2> HIDE DEF start
  <2>3. start[j] = start[j - 1] + Len(q[j]) /\ \A i \in 1 .. Len(q[j]) : dump[start[j - 1] + i] = q[j][i]
    BY <1>5, <2>1
  <2>4. /\ Len(recs[j]) \in Nat /\ Len(q[j]) = Len(recs[j]) + 1 /\ q[j][Len(recs[j]) + 1] = Break
        /\ \A i \in 1 .. Len(recs[j]) : q[j][i] = recs[j][i]
    BY <1>3
  <2>5. /\ start[j] = start[j - 1] + Len(recs[j]) + 1
        /\ start[j] = start[j - 1] + (Len(recs[j]) + 1) /\ Len(recs[j]) + 1 \in 1 .. Len(q[j])
    <3>1. \A x, y \in Nat : x + (y + 1) = x + y + 1 /\ y + 1 \in 1 .. y + 1
      OBVIOUS
    <3>2. QED
      BY <2>2, <2>3, <2>4, <3>1, Zenon
  <2>6. dump[start[j]] = Break
    BY <2>3, <2>4, <2>5
  <2>7. ASSUME NEW i \in 1 .. Len(recs[j]) PROVE dump[start[j - 1] + i] = recs[j][i]
    <3>1. i \in 1 .. Len(q[j])
      BY <2>4
    <3>2. QED
      BY <2>3, <2>4, <3>1
  <2>8. QED
    BY <2>5, <2>6, <2>7
<1>8. ASSUME NEW k \in 1 .. n PROVE Len(DumpCsv(SubSeq(table, 1, k))) = start[k + 1]
  <2> DEFINE t == SubSeq(table, 1, k)
             s == SubSeq(q, 1, k + 1)
             u == Pieces(t)
  <2>1. \A i \in 1 .. k : table[i] \in LedgerRows
    BY <1>1, LedgerTyped DEF n
  <2>2. t \in Seq(LedgerRows) /\ Len(t) = k /\ \A i \in 1 .. k : t[i] = table[i]
    <3>1. 1 \in Int /\ k \in Int /\ 1 <= k + 1
      BY <1>1
    <3>2. t \in Seq(LedgerRows) /\ Len(t) = k
      BY <1>1, <2>1, <3>1, SubSeqProperties DEF n
    <3>3. ASSUME NEW i \in 1 .. k PROVE t[i] = table[i]
      <4>1. t[i] = table[1 + i - 1] /\ 1 + i - 1 = i
        BY <1>1, <2>1, <3>1, SubSeqProperties DEF n
      <4>2. QED
        BY <4>1
    <3>4. QED
      BY <3>2, <3>3
  <2>3. k \in Nat /\ k + 1 \in 1 .. n + 1 /\ k + 1 \in 0 .. n + 1
    BY <1>1
  <2>4. s \in Seq(Seq(Chars)) /\ Len(s) = k + 1 /\ \A i \in 1 .. k + 1 : s[i] = q[i]
    <3>1. 1 \in Int /\ k + 1 \in Int /\ 1 <= k + 1 + 1
      BY <2>3
    <3>2. \A i \in 1 .. k + 1 : q[i] \in Seq(Chars)
      BY <1>1, <1>3, ElementOfSeq
    <3>3. s \in Seq(Seq(Chars)) /\ Len(s) = k + 1
      BY <1>3, <2>3, <3>1, <3>2, SubSeqProperties
    <3>4. ASSUME NEW i \in 1 .. k + 1 PROVE s[i] = q[i]
      <4>1. s[i] = q[1 + i - 1] /\ 1 + i - 1 = i
        BY <1>3, <2>3, <3>1, <3>2, SubSeqProperties
      <4>2. QED
        BY <4>1
    <3>5. QED
      BY <3>3, <3>4
  <2> HIDE DEF t
  <2>5. u \in Seq(Seq(Chars)) /\ Len(u) = k + 1
    BY <2>2, RowsTyped
  <2>6. ASSUME NEW i \in 1 .. k + 1 PROVE u[i] = s[i]
    <3>1. i \in 1 .. Len(t) + 1 /\ i \in 1 .. Len(table) + 1
      BY <1>1, <2>2, <2>3 DEF n
    <3>2. u[i] = Append(DumpRows(t)[i], Break) /\ q[i] = Append(DumpRows(table)[i], Break)
      BY <3>1 DEF Pieces, q
    <3>3. DumpRows(t)[i] = DumpRows(table)[i]
      <4>1. CASE i = 1
        BY <3>1, <4>1 DEF DumpRows
      <4>2. CASE i # 1
        <5>1. i - 1 \in 1 .. k
          BY <2>3, <4>2
        <5>2. t[i - 1] = table[i - 1]
          BY <2>2, <5>1
        <5>3. QED
          BY <3>1, <4>2, <5>2 DEF DumpRows
      <4>3. QED
        BY <4>1, <4>2
    <3>4. QED
      BY <2>4, <3>2, <3>3
  <2>7. u = s
    <3> HIDE DEF u, s
    <3>1. QED
      BY <2>4, <2>5, <2>6, SeqEqual
  <2>8. DumpCsv(t) = FlattenSeq(u)
    BY <2>2, <2>3, DumpPieces
  <2>9. Len(DumpCsv(t)) = Off(q, k + 1)
    BY <2>7, <2>8 DEF Off
  <2>10. QED
    BY <2>3, <2>9 DEF t
<1>9. Dumped(table, dump, recs, start)
  <2> HIDE DEF start
  <2>1. QED
    BY <1>1, <1>3, <1>4, <1>6, <1>7 DEF Dumped, n
<1>10. QED
  <2> HIDE DEF start
  <2>1. QED
    BY <1>2, <1>8, <1>9 DEF n

\* The first characters of a dump.
CutOf(dump, text) ==
  /\ text \in Seq(Chars) /\ Len(text) \in Nat /\ Len(text) <= Len(dump)
  /\ \A k \in 1 .. Len(text) : text[k] = dump[k]

Clean(s, m) == \A i \in 1 .. m : s[i] # Break

\* After j lines and m more characters.
LEMMA LineAfter ==
  ASSUME NEW table, NEW dump, NEW recs, NEW start, Dumped(table, dump, recs, start),
         NEW text, CutOf(dump, text), NEW j \in 1 .. Len(recs), NEW m \in 0 .. Len(recs[j]),
         start[j - 1] + m <= Len(text), Clean(recs[j], m),
         NEW d, LineStates(text)[start[j - 1]] = Line(d, <<>>)
  PROVE  LineStates(text)[start[j - 1] + m] = Line(d, SubSeq(recs[j], 1, m))
<1> DEFINE s == SubSeq(recs[j], 1, m)
           a == start[j - 1]
<1>1. /\ recs[j] \in Seq(Chars) /\ Len(recs[j]) \in Nat
      /\ \A i \in 1 .. Len(recs[j]) : dump[a + i] = recs[j][i]
  BY ElementOfSeq DEF Dumped
<1>2. a \in Nat
  <2>1. j - 1 \in 0 .. Len(recs)
    BY DEF Dumped
  <2>2. a \in 0 .. Len(dump)
    BY <2>1 DEF Dumped
  <2>3. QED
    BY <2>2
<1>3. s \in Seq(Chars) /\ Len(s) = m /\ \A i \in 1 .. m : s[i] = recs[j][i]
  BY <1>1, PrefixFacts
<1>4. SubSeq(s, 1, m) = s
  BY <1>3, SubSeqFull
<1> HIDE DEF s, a
<1>5. ASSUME NEW i \in 1 .. m PROVE text[a + i] = s[i] /\ s[i] # Break
  <2>1. i \in 1 .. Len(recs[j]) /\ a + i \in 1 .. Len(text)
    BY <1>1, <1>2 DEF CutOf, a
  <2>2. QED
    BY <1>1, <1>3, <2>1 DEF CutOf, Clean
<1>6. LineRun(Chars, text, a, d, s)
  BY <1>2, <1>3, <1>5 DEF LineRun, CutOf, a
<1>7. \A i \in 0 .. m : LineStates(text)[a + i] = Line(d, SubSeq(s, 1, i))
  BY <1>3, <1>6, LineGrows
<1>8. m \in 0 .. m
  BY <1>1
<1>9. QED
  BY <1>4, <1>7, <1>8 DEF s, a

\* After j lines.
LEMMA LinesAt ==
  ASSUME NEW table, NEW dump, NEW recs, NEW start, Dumped(table, dump, recs, start),
         NEW text, CutOf(dump, text), NEW j \in 0 .. Len(recs), start[j] <= Len(text),
         \A i \in 1 .. j : Clean(recs[i], Len(recs[i]))
  PROVE  LineStates(text)[start[j]] = Line(SubSeq(recs, 1, j), <<>>)
<1> DEFINE st == LineStates(text)
           N == Len(recs)
           Here(i) == start[i] <= Len(text) /\ \A k \in 1 .. i : Clean(recs[k], Len(recs[k]))
           At(i) == st[start[i]] = Line(SubSeq(recs, 1, i), <<>>)
           T == {i \in Nat : i <= N /\ Here(i) => At(i)}
<1>1. N \in Nat /\ Len(text) \in Nat /\ recs \in Seq(Seq(Chars)) /\ start[0] = 0
  BY DEF Dumped, CutOf
<1>2. 0 \in T
  <2>1. st[0] = Line(<<>>, <<>>)
    BY LineStatesEquation DEF Line, CutOf
  <2>2. SubSeq(recs, 1, 0) = <<>>
    BY SubSeqEmpty
  <2>3. At(0)
    BY <1>1, <2>1, <2>2
  <2> HIDE DEF At, Here
  <2>4. QED
    BY <2>3
<1>3. ASSUME NEW i \in Nat, i \in T PROVE i + 1 \in T
  <2>1. SUFFICES ASSUME i + 1 <= N, Here(i + 1) PROVE At(i + 1)
    <3> HIDE DEF At, Here
    <3>1. QED
      OBVIOUS
  <2> DEFINE k == i + 1
             l == Len(recs[k])
  <2>2. k \in 1 .. N /\ k - 1 = i /\ i \in 0 .. N /\ i <= N /\ k \in 0 .. N /\ 1 \in 1 .. N + 1
    BY <1>1, <2>1
  <2>3. l \in Nat /\ l > 0 /\ start[k] = start[i] + l + 1 /\ dump[start[k]] = Break
    BY <2>2 DEF Dumped
  <2>4. start[i] \in Nat /\ start[k] \in Nat
    <3>1. \A e \in 0 .. N : start[e] \in 0 .. Len(dump)
      BY DEF Dumped
    <3> HIDE DEF k, N, At, Here, T
    <3>2. start[i] \in 0 .. Len(dump) /\ start[k] \in 0 .. Len(dump)
      BY <2>2, <3>1
    <3>3. QED
      BY <3>2
  <2>5. start[k] <= Len(text) /\ \A e \in 1 .. k : Clean(recs[e], Len(recs[e]))
    BY <2>1
  <2> HIDE DEF l
  <2>6. start[i] <= Len(text) /\ start[i] + l <= Len(text) /\ l \in 0 .. l
    BY <1>1, <2>3, <2>4, <2>5
  <2>7. Here(i)
    <3>1. \A e \in 1 .. i : e \in 1 .. k
      OBVIOUS
    <3>2. QED
      BY <2>5, <2>6, <3>1
  <2>8. st[start[i]] = Line(SubSeq(recs, 1, i), <<>>)
    <3> HIDE DEF Here
    <3>1. QED
      BY <1>3, <2>2, <2>7
  <2>9. recs[k] \in Seq(Chars) /\ SubSeq(recs[k], 1, l) = recs[k]
    BY <1>1, <2>2, ElementOfSeq, SubSeqFull DEF l
  <2>10. Clean(recs[k], l)
    BY <2>2, <2>5 DEF l
  <2> HIDE DEF k, T, Here
  <2> DEFINE d == SubSeq(recs, 1, i)
  <2>11. st[start[i] + l] = Line(d, recs[k])
    <3> HIDE DEF d
    <3>1. st[start[k - 1]] = Line(d, <<>>) /\ start[k - 1] + l <= Len(text)
      BY <2>2, <2>6, <2>8 DEF d
    <3>2. l \in 0 .. Len(recs[k])
      BY <2>6 DEF l
    <3>3. st[start[k - 1] + l] = Line(d, SubSeq(recs[k], 1, l))
      BY <2>2, <2>10, <3>1, <3>2, LineAfter
    <3>4. QED
      BY <2>2, <2>9, <3>3
  <2>12. recs[k] # <<>>
    BY <2>3, <2>9, EmptySeq DEF l
  <2>13. text[start[k]] = Break /\ start[k] \in 1 .. Len(text) /\ start[k] - 1 = start[i] + l
    <3>1. start[k] \in 1 .. Len(text) /\ start[k] - 1 = start[i] + l
      BY <1>1, <2>3, <2>4, <2>5
    <3>2. QED
      BY <2>3, <3>1 DEF CutOf
  <2>14. st[start[k]] = Line(Append(d, recs[k]), <<>>)
    <3> DEFINE b == start[k]
               c == recs[k]
    <3>1. b \in 1 .. Len(text) /\ text[b] = Break /\ st[b - 1] = Line(d, c) /\ c # <<>> /\ text \in Seq(Chars)
      BY <2>11, <2>12, <2>13 DEF CutOf
    <3> HIDE DEF b, c, d
    <3>2. st[b] = Line(Append(d, c), <<>>)
      BY <3>1, LineEnds
    <3>3. QED
      BY <3>2 DEF b, c
  <2>15. SubSeq(recs, 1, k) = Append(d, recs[k])
    BY <1>1, <2>2, PrefixAppend
  <2> HIDE DEF d
  <2>16. QED
    BY <2>14, <2>15 DEF k
<1>4. \A i \in Nat : i \in T
  <2> HIDE DEF T
  <2>1. QED
    BY <1>2, <1>3, Induction
<1>5. j \in Nat /\ j <= N /\ Here(j)
  BY <1>1
<1> HIDE DEF Here
<1>6. QED
  BY <1>4, <1>5

\* What a row is read as.
ParsedRow(f) ==
  [id |-> f[1], name |-> f[2], size |-> Field(f, 3), still_exists |-> Field(f, 4) # <<"f">>]

\* parse_snapshot, once the first line is the header.
LEMMA ParseLines ==
  ASSUME NEW text, NEW l, Lines(text) = l, l # <<>>, l[1] = Header
  PROVE  LET n == Len(l) - 1
         IN  /\ (\E k \in 1 .. n : ~RowOk(SplitCsvLine(l[k + 1]), 1, 2, 3)) =>
                  ParseSnapshot(text) = Malformed
             /\ (\A k \in 1 .. n : RowOk(SplitCsvLine(l[k + 1]), 1, 2, 3)) =>
                  ParseSnapshot(text) = [k \in 1 .. n |-> ParsedRow(SplitCsvLine(l[k + 1]))]
<1> DEFINE n == Len(l) - 1
           fields == [k \in 1 .. n |-> SplitCsvLine(l[k + 1])]
           Row(k) == [id |-> fields[k][1], name |-> fields[k][2], size |-> Field(fields[k], 3),
                      still_exists |-> Field(fields[k], 4) # <<"f">>]
           Bad == \E k \in DOMAIN fields : ~RowOk(fields[k], 1, 2, 3)
<1>1. ParseSnapshot(text) = IF Bad THEN Malformed ELSE [k \in DOMAIN fields |-> Row(k)]
  BY HeaderColumns DEF ParseSnapshot
<1>2. DOMAIN fields = 1 .. n /\ \A k \in 1 .. n : fields[k] = SplitCsvLine(l[k + 1])
  OBVIOUS
<1>3. [k \in 1 .. n |-> Row(k)] = [k \in 1 .. n |-> ParsedRow(SplitCsvLine(l[k + 1]))]
  <2>1. \A k \in 1 .. n : Row(k) = ParsedRow(SplitCsvLine(l[k + 1]))
    BY <1>2 DEF ParsedRow
  <2> HIDE DEF Row, n, fields
  <2>2. QED
    BY <2>1
<1> HIDE DEF fields, n, Row
<1>4. ASSUME NEW k \in 1 .. n, ~RowOk(SplitCsvLine(l[k + 1]), 1, 2, 3) PROVE ParseSnapshot(text) = Malformed
  <2>1. Bad
    BY <1>2, <1>4
  <2>2. QED
    BY <1>1, <2>1
<1>5. ASSUME \A k \in 1 .. n : RowOk(SplitCsvLine(l[k + 1]), 1, 2, 3)
      PROVE  ParseSnapshot(text) = [k \in 1 .. n |-> ParsedRow(SplitCsvLine(l[k + 1]))]
  <2>1. ~Bad
    BY <1>2, <1>5
  <2>2. ParseSnapshot(text) = [k \in 1 .. n |-> Row(k)]
    BY <1>1, <1>2, <2>1
  <2>3. QED
    BY <1>3, <2>2
<1>6. QED
  BY <1>4, <1>5 DEF n

\* A whole row is read as it was; of one cut short, the size may be.
LEMMA WholeRow ==
  ASSUME NEW r \in LedgerRows
  PROVE  RowOk(SplitCsvLine(DumpRow(r)), 1, 2, 3) /\ ParsedRow(SplitCsvLine(DumpRow(r))) = r
<1> DEFINE p == DumpRow(r)
           f == SplitCsvLine(p)
<1>1. p \in Seq(Chars) /\ Len(p) \in Nat
  BY RowBreaks
<1>2. /\ RowOk(f, 1, 2, 3) /\ f[1] = r.id /\ f[2] = r.name /\ Field(f, 3) = r.size
      /\ (Field(f, 4) # <<"f">>) = r.still_exists
  <2>1. Len(p) <= Len(DumpRow(r)) /\ Len(p) = Len(DumpRow(r)) /\ \A i \in 1 .. Len(p) : p[i] = DumpRow(r)[i]
    BY <1>1
  <2> HIDE DEF p
  <2>2. QED
    BY <1>1, <2>1, RowRead, Zenon
<1> HIDE DEF f
<1>3. ParsedRow(f) = [id |-> r.id, name |-> r.name, size |-> r.size, still_exists |-> r.still_exists]
  BY <1>2 DEF ParsedRow
<1>4. r = [id |-> r.id, name |-> r.name, size |-> r.size, still_exists |-> r.still_exists]
  BY DEF LedgerRows
<1>5. QED
  BY <1>2, <1>3, <1>4 DEF f

\* A row cut short is refused, unless what is missing is the end of its size or what follows.
LEMMA CutRow ==
  ASSUME NEW r \in LedgerRows, NEW m \in 0 .. Len(DumpRow(r))
  PROVE  LET f == SplitCsvLine(SubSeq(DumpRow(r), 1, m))
         IN  /\ m < Len(r.id) + Len(CsvEscape(r.name)) + 2 => ~RowOk(f, 1, 2, 3)
             /\ RowOk(f, 1, 2, 3) =>
                  /\ ParsedRow(f).id = r.id /\ ParsedRow(f).name = r.name
                  /\ IsPrefix(ParsedRow(f).size, r.size)
<1> DEFINE p == SubSeq(DumpRow(r), 1, m)
           f == SplitCsvLine(p)
<1>1. DumpRow(r) \in Seq(Chars) /\ Len(DumpRow(r)) \in Nat
  BY RowBreaks
<1>2. p \in Seq(Chars) /\ Len(p) = m /\ \A i \in 1 .. m : p[i] = DumpRow(r)[i]
  BY <1>1, PrefixFacts
<1> HIDE DEF p
<1>3. Len(p) <= Len(DumpRow(r)) /\ \A i \in 1 .. Len(p) : p[i] = DumpRow(r)[i]
  BY <1>1, <1>2
<1>4. /\ m < Len(r.id) + Len(CsvEscape(r.name)) + 2 => ~RowOk(f, 1, 2, 3)
      /\ RowOk(f, 1, 2, 3) => f[1] = r.id /\ f[2] = r.name /\ IsPrefix(Field(f, 3), r.size)
  BY <1>2, <1>3, RowRead
<1> HIDE DEF f
<1>5. ParsedRow(f).id = f[1] /\ ParsedRow(f).name = f[2] /\ ParsedRow(f).size = Field(f, 3)
  BY DEF ParsedRow
<1>6. QED
  BY <1>4, <1>5 DEF f, p

\* Without line breaks in the names there is none inside a row.
LEMMA CleanRows ==
  ASSUME NEW table \in Ledgers, NEW dump, NEW recs, NEW start, Dumped(table, dump, recs, start),
         NEW k \in 1 .. Len(recs), \A e \in 1 .. k - 1 : Break \notin ToSet(table[e].name)
  PROVE  \A i \in 1 .. k : Clean(recs[i], Len(recs[i]))
<1>1. /\ Len(table) \in Nat /\ Len(recs) = Len(table) + 1 /\ recs[1] = Header
      /\ \A e \in 1 .. Len(table) : recs[e + 1] = DumpRow(table[e])
  BY DEF Dumped
<1>2. ASSUME NEW i \in 1 .. k PROVE Clean(recs[i], Len(recs[i]))
  <2>1. CASE i = 1
    <3>1. recs[i] = Header
      BY <1>1, <2>1
    <3>2. QED
      BY <3>1, HeaderTyped DEF Clean
  <2>2. CASE i # 1
    <3>1. i - 1 \in 1 .. k - 1 /\ i - 1 \in 1 .. Len(table) /\ (i - 1) + 1 = i
      BY <1>1, <2>2
    <3>2. recs[i] = DumpRow(table[i - 1]) /\ table[i - 1] \in LedgerRows
      BY <1>1, <3>1, LedgerTyped
    <3>3. Break \notin ToSet(table[i - 1].name)
      BY <3>1
    <3>4. QED
      BY <3>2, <3>3, RowBreaks DEF Clean
  <2>3. QED
    BY <2>1, <2>2
<1>3. QED
  BY <1>2

\* A line break in a file name: its row is cut in two, and the first part is no row.
LEMMA BreakIsRefused ==
  ASSUME NEW table \in Ledgers, HasBreak(table)
  PROVE  ParseSnapshot(DumpCsv(table)) = Malformed
<1> DEFINE dump == DumpCsv(table)
<1>1. PICK recs, start : Dumped(table, dump, recs, start)
  BY DumpFacts
<1> HIDE DEF dump
<1>2. /\ dump \in Seq(Chars) /\ recs \in Seq(Seq(Chars))
      /\ Len(table) \in Nat /\ Len(recs) = Len(table) + 1
      /\ recs[1] = Header /\ \A k \in 1 .. Len(table) : recs[k + 1] = DumpRow(table[k])
      /\ \A j \in 0 .. Len(recs) : start[j] \in 0 .. Len(dump)
      /\ \A j \in 1 .. Len(recs) :
           /\ Len(recs[j]) \in Nat
           /\ start[j] = start[j - 1] + Len(recs[j]) + 1
           /\ \A i \in 1 .. Len(recs[j]) : dump[start[j - 1] + i] = recs[j][i]
  BY <1>1 DEF Dumped
<1>3. CutOf(dump, dump)
  BY <1>2, LenProperties DEF CutOf
<1>4. PICK k \in 1 .. Len(table) :
        /\ Break \in ToSet(table[k].name)
        /\ \A e \in 1 .. k - 1 : Break \notin ToSet(table[e].name)
  <2> DEFINE S == {k \in 1 .. Len(table) : Break \in ToSet(table[k].name)}
  <2>1. S # {} /\ S \subseteq Nat
    BY LedgerTyped DEF HasBreak
  <2>2. PICK k \in S : \A j \in S : k <= j
    <3> HIDE DEF S
    <3>1. QED
      BY <2>1, Least
  <2>3. ASSUME NEW e \in 1 .. k - 1 PROVE e \notin S /\ e \in 1 .. Len(table)
    BY <1>2, <2>2
  <2>4. QED
    BY <2>2, <2>3
<1> DEFINE r == table[k]
           row == DumpRow(r)
           d == SubSeq(recs, 1, k)
<1>5. k \in Nat /\ k + 1 \in 1 .. Len(recs) /\ k \in 1 .. Len(recs) /\ k \in 0 .. Len(recs) /\ (k + 1) - 1 = k
  <2>1. Len(table) \in Nat /\ Len(recs) = Len(table) + 1
    BY <1>2
  <2>2. QED
    BY <2>1
<1>6. r \in LedgerRows
  BY LedgerTyped
<1>7. /\ row \in Seq(Chars) /\ Len(row) \in Nat
      /\ \A i \in 1 .. Len(row) : row[i] = Break =>
           i > 1 /\ i < Len(r.id) + Len(CsvEscape(r.name)) + 2
      /\ \E i \in 1 .. Len(row) : row[i] = Break
  BY <1>4, <1>6, RowBreaks
<1>8. recs[k + 1] = row
  BY <1>2
<1> HIDE DEF row
<1>9. PICK i \in 1 .. Len(row) : row[i] = Break /\ Clean(row, i - 1)
  <2> DEFINE S == {e \in 1 .. Len(row) : row[e] = Break}
  <2>1. S # {} /\ S \subseteq Nat
    BY <1>7
  <2>2. PICK e \in S : \A j \in S : e <= j
    <3> HIDE DEF S
    <3>1. QED
      BY <2>1, Least
  <2>3. ASSUME NEW j \in 1 .. e - 1 PROVE j \notin S /\ j \in 1 .. Len(row)
    BY <1>7, <2>2
  <2>4. QED
    BY <2>2, <2>3 DEF Clean
<1> DEFINE m == i - 1
           p == SubSeq(row, 1, m)
           a == start[k]
<1>10. i > 1 /\ i < Len(r.id) + Len(CsvEscape(r.name)) + 2
  BY <1>7, <1>9
<1>11. m \in Nat /\ m > 0 /\ m \in 0 .. Len(row) /\ m < Len(r.id) + Len(CsvEscape(r.name)) + 2 /\ i = m + 1
  <2> DEFINE K == Len(r.id) + Len(CsvEscape(r.name)) + 2
  <2>1. K \in Nat
    BY <1>6, RowBreaks
  <2>2. i > 1 /\ i < K
    BY <1>10
  <2> HIDE DEF K
  <2>3. m \in Nat /\ m > 0 /\ m \in 0 .. Len(row) /\ m < K /\ i = m + 1
    BY <1>7, <2>1, <2>2
  <2>4. QED
    BY <2>3 DEF K
<1>12. p \in Seq(Chars) /\ Len(p) = m /\ p # <<>>
  <2>1. p \in Seq(Chars) /\ Len(p) = m
    BY <1>7, <1>11, PrefixFacts
  <2> HIDE DEF p
  <2>2. QED
    BY <1>11, <2>1, EmptySeq
<1>13. a \in Nat /\ Len(dump) \in Nat /\ a <= Len(dump) /\ a + i \in 1 .. Len(dump) /\ a + m <= Len(dump) /\ (a + i) - 1 = a + m
  <2>1. start[k + 1] \in 0 .. Len(dump) /\ a \in 0 .. Len(dump)
    BY <1>2, <1>5
  <2>2. start[k + 1] = a + Len(row) + 1
    BY <1>2, <1>5, <1>8
  <2>3. Len(dump) \in Nat
    BY <1>2, LenProperties
  <2> HIDE DEF a
  <2>4. QED
    BY <1>7, <1>11, <2>1, <2>2, <2>3
<1>14. LineStates(dump)[a] = Line(d, <<>>)
  <2>1. \A e \in 1 .. k : Clean(recs[e], Len(recs[e]))
    BY <1>1, <1>4, <1>5, CleanRows
  <2>2. QED
    BY <1>1, <1>3, <1>5, <1>13, <2>1, LinesAt
<1> HIDE DEF d, p, m
<1>15. LineStates(dump)[a + m] = Line(d, p)
  <2> DEFINE j == k + 1
  <2>1. j \in 1 .. Len(recs) /\ m \in 0 .. Len(recs[j]) /\ start[j - 1] = a /\ recs[j] = row
    BY <1>5, <1>8, <1>11
  <2> HIDE DEF j, a
  <2>2. Clean(recs[j], m)
    BY <1>9, <2>1 DEF m
  <2>3. LineStates(dump)[start[j - 1] + m] = Line(d, SubSeq(recs[j], 1, m))
    BY <1>1, <1>3, <1>13, <1>14, <2>1, <2>2, LineAfter
  <2>4. QED
    BY <2>1, <2>3 DEF p
<1>16. dump[a + i] = Break
  BY <1>2, <1>5, <1>8, <1>9
<1> HIDE DEF a
<1> DEFINE b == a + i
           g == Append(d, p)
           l == Lines(dump)
<1>17. LineStates(dump)[b] = Line(g, <<>>)
  <2>1. b \in 1 .. Len(dump) /\ dump[b] = Break /\ LineStates(dump)[b - 1] = Line(d, p)
    BY <1>13, <1>15, <1>16
  <2> HIDE DEF b
  <2>2. dump \in Seq(Chars) /\ p # <<>>
    BY <1>2, <1>12
  <2>3. QED
    BY <2>1, <2>2, LineEnds
<1>18. d \in Seq(Seq(Chars)) /\ Len(d) = k /\ \A e \in 1 .. k : d[e] = recs[e]
  BY <1>2, <1>5, PrefixFacts DEF d
<1>19. Len(g) = k + 1 /\ g[1] = Header /\ g[k + 1] = p
  <2>1. Len(g) = Len(d) + 1 /\ (\A e \in 1 .. Len(d) : g[e] = d[e]) /\ g[Len(d) + 1] = p
    BY <1>12, <1>18, AppendProperties
  <2> HIDE DEF g
  <2>2. 1 \in 1 .. k
    BY <1>5
  <2>3. QED
    BY <1>2, <1>18, <2>1, <2>2
<1>20. Len(l) \in Nat /\ k + 1 <= Len(l) /\ l[1] = Header /\ l[k + 1] = p
  <2>1. b \in 0 .. Len(dump)
    BY <1>13
  <2>2. LineStates(dump)[b].done = g
    BY <1>17 DEF Line
  <2> HIDE DEF b, g, l
  <2>3. Len(l) \in Nat /\ Len(g) <= Len(l) /\ \A e \in 1 .. Len(g) : l[e] = g[e]
    BY <1>2, <2>1, <2>2, LinesStay DEF l
  <2>4. 1 \in 1 .. k + 1 /\ k + 1 \in 1 .. k + 1
    BY <1>5
  <2>5. QED
    BY <1>19, <2>3, <2>4
<1>21. ~RowOk(SplitCsvLine(p), 1, 2, 3)
  BY <1>6, <1>11, CutRow DEF p, row
<1> HIDE DEF l
<1>22. k \in 1 .. Len(l) - 1 /\ l # <<>>
  BY <1>5, <1>20
<1>23. Lines(dump) = l
  BY DEF l
<1>24. ParseSnapshot(dump) = Malformed
  BY <1>20, <1>21, <1>22, <1>23, ParseLines
<1>25. QED
  BY <1>24 DEF dump

\* How many lines of a dump are whole, and what follows them.
CutAfter(recs, start, text, j) ==
  /\ j \in 0 .. Len(recs) /\ start[j] <= Len(text)
  /\ \A e \in 0 .. Len(recs) : start[e] <= Len(text) => e <= j
  /\ \/ Lines(text) = SubSeq(recs, 1, j)
     \/ /\ j < Len(recs)
        /\ \E m \in 1 .. Len(recs[j + 1]) :
             Lines(text) = Append(SubSeq(recs, 1, j), SubSeq(recs[j + 1], 1, m))

\* A dump without line breaks in its names, cut anywhere, is read as its first lines.
LEMMA CutLines ==
  ASSUME NEW table \in Ledgers, ~HasBreak(table),
         NEW dump, NEW recs, NEW start, Dumped(table, dump, recs, start),
         NEW text, CutOf(dump, text)
  PROVE  \E j : CutAfter(recs, start, text, j)
<1> DEFINE n == Len(text)
           N == Len(recs)
           st == LineStates(text)
<1>1. /\ n \in Nat /\ N \in Nat /\ n <= Len(dump) /\ Len(dump) \in Nat /\ N > 0 /\ text \in Seq(Chars)
      /\ recs \in Seq(Seq(Chars)) /\ start[0] = 0 /\ start[N] = Len(dump) /\ N = Len(table) + 1
      /\ \A j \in 0 .. N : start[j] \in 0 .. Len(dump)
      /\ \A j \in 1 .. N : Len(recs[j]) \in Nat /\ start[j] = start[j - 1] + Len(recs[j]) + 1
  <2>1. dump \in Seq(Chars)
    BY DEF Dumped
  <2>2. Len(dump) \in Nat
    BY <2>1, LenProperties
  <2>3. n \in Nat /\ n <= Len(dump) /\ text \in Seq(Chars)
    BY DEF CutOf
  <2>4. /\ Len(table) \in Nat /\ N = Len(table) + 1
        /\ recs \in Seq(Seq(Chars)) /\ start[0] = 0 /\ start[N] = Len(dump)
    BY DEF Dumped
  <2>5. /\ \A j \in 0 .. N : start[j] \in 0 .. Len(dump)
        /\ \A j \in 1 .. N : Len(recs[j]) \in Nat /\ start[j] = start[j - 1] + Len(recs[j]) + 1
    BY DEF Dumped
  <2> HIDE DEF n, N
  <2>6. N \in Nat /\ N > 0
    BY <2>4
  <2>7. QED
    BY <2>2, <2>3, <2>4, <2>5, <2>6
<1>2. \A i \in 1 .. N : Clean(recs[i], Len(recs[i]))
  <2>1. \A e \in 1 .. N - 1 : Break \notin ToSet(table[e].name)
    BY <1>1, LedgerTyped DEF HasBreak
  <2>2. N \in 1 .. Len(recs)
    BY <1>1
  <2>3. QED
    BY <2>1, <2>2, CleanRows
<1> HIDE DEF n, N
<1>3. PICK j \in 0 .. N : start[j] <= n /\ \A e \in 0 .. N : start[e] <= n => e <= j
  <2> DEFINE S == {d \in 0 .. N : start[N - d] <= n}
  <2>1. N \in S
    BY <1>1
  <2>2. S \subseteq Nat
    BY <1>1
  <2>3. PICK d \in S : \A e \in S : d <= e
    <3> HIDE DEF S
    <3>1. QED
      BY <2>1, <2>2, Least
  <2>4. N - d \in 0 .. N /\ start[N - d] <= n
    BY <1>1, <2>3
  <2>5. ASSUME NEW e \in 0 .. N, start[e] <= n PROVE e <= N - d
    <3>1. N - e \in 0 .. N /\ N - (N - e) = e
      BY <1>1
    <3>2. N - e \in S
      BY <2>5, <3>1
    <3>3. d \in 0 .. N
      BY <2>3
    <3>4. d <= N - e
      <4> HIDE DEF S
      <4>1. QED
        BY <2>3, <3>2
    <3>5. QED
      BY <1>1, <3>1, <3>3, <3>4
  <2>6. QED
    BY <2>4, <2>5
<1> DEFINE d == SubSeq(recs, 1, j)
           a == start[j]
<1>4. st[a] = Line(d, <<>>)
  <2>1. \A i \in 1 .. j : Clean(recs[i], Len(recs[i]))
    BY <1>1, <1>2
  <2>2. QED
    BY <1>3, <2>1, LinesAt DEF n, N
<1>5. Lines(text) = NonBlank(st[n])
  BY DEF Lines, n
<1>6. a \in Nat
  BY <1>1
<1> HIDE DEF st
<1>7. CASE j = N
  <2>1. a = n
    BY <1>1, <1>3, <1>7
  <2>2. Lines(text) = d
    BY <1>4, <1>5, <2>1 DEF NonBlank, Line
  <2>3. CutAfter(recs, start, text, j)
    BY <1>3, <2>2 DEF CutAfter, n, N
  <2>4. QED
    BY <2>3
<1>8. CASE j # N
  <2> DEFINE k == j + 1
             m == n - a
             p == SubSeq(recs[k], 1, m)
  <2>1. k \in 1 .. N /\ k \in 0 .. N /\ k - 1 = j /\ j < N
    BY <1>1, <1>8
  <2>2. ~(start[k] <= n)
    BY <1>1, <1>3, <2>1
  <2>3. Len(recs[k]) \in Nat /\ start[k] = a + Len(recs[k]) + 1 /\ start[k] \in Nat
    BY <1>1, <2>1
  <2> HIDE DEF k, a
  <2>4. m \in 0 .. Len(recs[k]) /\ a + m = n
    <3>1. \A x, y, z \in Nat : x <= y /\ ~(x + z + 1 <= y) => y - x \in 0 .. z /\ x + (y - x) = y
      OBVIOUS
    <3>2. a \in Nat /\ n \in Nat /\ a <= n /\ ~(a + Len(recs[k]) + 1 <= n)
      BY <1>1, <1>3, <1>6, <2>2, <2>3 DEF a
    <3>3. QED
      BY <2>3, <3>1, <3>2
  <2> HIDE DEF m
  <2>5. Clean(recs[k], m)
    BY <1>2, <2>1, <2>3, <2>4 DEF Clean
  <2>6. st[n] = Line(d, p)
    <3> HIDE DEF d
    <3>1. k \in 1 .. Len(recs) /\ start[k - 1] = a /\ start[k - 1] + m <= Len(text)
      BY <1>1, <2>1, <2>4 DEF a, n, N
    <3>2. LineStates(text)[start[k - 1]] = Line(d, <<>>)
      BY <1>4, <3>1 DEF st
    <3>3. LineStates(text)[start[k - 1] + m] = Line(d, SubSeq(recs[k], 1, m))
      BY <2>4, <2>5, <3>1, <3>2, LineAfter
    <3>4. QED
      BY <2>4, <3>1, <3>3 DEF st
  <2>7. Lines(text) = IF p = <<>> THEN d ELSE Append(d, p)
    <3> HIDE DEF d, p
    <3>1. QED
      BY <1>5, <2>6 DEF NonBlank, Line
  <2>8. Lines(text) = d \/ (m \in 1 .. Len(recs[k]) /\ Lines(text) = Append(d, p))
    <3>1. CASE m = 0
      <4>1. p = <<>>
        BY <3>1, SubSeqEmpty
      <4>2. QED
        BY <2>7, <4>1
    <3>2. CASE m # 0
      <4>1. m \in 1 .. Len(recs[k])
        BY <2>3, <2>4, <3>2
      <4>2. QED
        BY <2>7, <4>1
    <3>3. QED
      BY <3>1, <3>2
  <2>9. CutAfter(recs, start, text, j)
    BY <1>3, <2>1, <2>8 DEF CutAfter, n, N, k
  <2>10. QED
    BY <2>9
<1>9. QED
  BY <1>7, <1>8

\* What is read of a text that ends in its header.
LEMMA ParseHeader ==
  ASSUME NEW text, Len(Lines(text)) <= 1, Len(Lines(text)) \in Nat
  PROVE  ParseSnapshot(text) = Malformed \/ ParseSnapshot(text) = <<>>
<1> DEFINE lines == Lines(text)
           id == Column(lines[1], "file_id")
           name == Column(lines[1], "file_name")
           size == Column(lines[1], "file_size")
           there == Column(lines[1], "still_exists")
           fields == [k \in 1 .. Len(lines) - 1 |-> SplitCsvLine(lines[k + 1])]
           Row(k) == [id |-> fields[k][id], name |-> fields[k][name], size |-> Field(fields[k], size),
                      still_exists |-> Field(fields[k], there) # <<"f">>]
           read == [k \in DOMAIN fields |-> Row(k)]
<1>1. ParseSnapshot(text) = Malformed \/ ParseSnapshot(text) = read
  BY DEF ParseSnapshot
<1>2. DOMAIN fields = 1 .. Len(lines) - 1
  OBVIOUS
<1> HIDE DEF fields, Row
<1>3. 1 .. Len(lines) - 1 = 1 .. 0
  OBVIOUS
<1>4. read \in [1 .. 0 -> {}]
  <2>1. DOMAIN fields = 1 .. 0
    BY <1>2, <1>3
  <2>2. \A k \in 1 .. 0 : FALSE
    OBVIOUS
  <2>3. QED
    BY <2>1, <2>2
<1> HIDE DEF read
<1>5. read \in Seq({}) /\ Len(read) = 0
  BY <1>4, SeqOfElements
<1>6. read = <<>>
  BY <1>5, EmptySeq
<1>7. QED
  BY <1>1, <1>6

\* What is read when j lines of a dump are whole.
Reads(table, j, read) ==
  /\ Len(read) \in Nat /\ Len(read) <= Len(table) /\ DOMAIN read = 1 .. Len(read)
  /\ Len(read) <= j /\ j <= Len(read) + 1
  /\ \A k \in 1 .. Len(read) :
       /\ read[k].id = table[k].id /\ read[k].name = table[k].name
       /\ IsPrefix(read[k].size, table[k].size)
       /\ k < j => read[k] = table[k]

\* Lines of a dump: whole ones, and part of another.
Cut(table, j, n, l) ==
  /\ n \in Nat /\ n <= Len(table) /\ n <= j /\ j <= n + 1 /\ Len(l) = n + 1 /\ l # <<>> /\ l[1] = Header
  /\ \A k \in 1 .. n : k < j => l[k + 1] = DumpRow(table[k])
  /\ \A k \in 1 .. n : ~(k < j) =>
       \E m \in 0 .. Len(DumpRow(table[k])) : l[k + 1] = SubSeq(DumpRow(table[k]), 1, m)

\* What is read of such lines, unless they are refused.
LEMMA ReadsCut ==
  ASSUME NEW table \in Ledgers, NEW text, NEW j \in Nat, NEW n, NEW l, Lines(text) = l, Cut(table, j, n, l),
         ParseSnapshot(text) # Malformed
  PROVE  Reads(table, j, ParseSnapshot(text))
<1> DEFINE f(k) == SplitCsvLine(l[k + 1])
           read == [k \in 1 .. n |-> ParsedRow(f(k))]
<1>1. /\ n \in Nat /\ n <= Len(table) /\ n <= j /\ j <= n + 1 /\ l # <<>> /\ l[1] = Header /\ Len(l) - 1 = n
      /\ Len(table) \in Nat /\ \A k \in 1 .. n : table[k] \in LedgerRows
  BY LedgerTyped DEF Cut
<1>2. (\A k \in 1 .. n : RowOk(f(k), 1, 2, 3)) /\ ParseSnapshot(text) = read
  <2>1. \A k \in 1 .. Len(l) - 1 : RowOk(SplitCsvLine(l[k + 1]), 1, 2, 3)
    BY <1>1, ParseLines
  <2>2. ParseSnapshot(text) = [k \in 1 .. Len(l) - 1 |-> ParsedRow(SplitCsvLine(l[k + 1]))]
    BY <1>1, <2>1, ParseLines
  <2>3. QED
    BY <1>1, <2>1, <2>2
<1>3. read \in Seq({ParsedRow(f(k)) : k \in 1 .. n}) /\ Len(read) = n /\ DOMAIN read = 1 .. n
  <2>1. read \in [1 .. n -> {ParsedRow(f(k)) : k \in 1 .. n}]
    <3> HIDE DEF f
    <3>1. QED
      OBVIOUS
  <2> DEFINE S == {ParsedRow(f(k)) : k \in 1 .. n}
  <2>2. read \in [1 .. n -> S] /\ n \in Nat
    BY <1>1, <2>1
  <2> HIDE DEF read, f, S
  <2>3. read \in Seq(S) /\ Len(read) = n /\ DOMAIN read = 1 .. n
    BY <2>2, SeqOfElements
  <2>4. QED
    BY <2>3 DEF S
<1>4. \A k \in 1 .. n : read[k] = ParsedRow(f(k))
  OBVIOUS
<1> HIDE DEF read, f
<1>5. ASSUME NEW k \in 1 .. n, k < j
      PROVE  read[k] = table[k]
  <2>1. f(k) = SplitCsvLine(DumpRow(table[k]))
    BY <1>5 DEF Cut, f
  <2>2. QED
    BY <1>1, <1>4, <2>1, WholeRow
<1>6. ASSUME NEW k \in 1 .. n
      PROVE  /\ read[k].id = table[k].id /\ read[k].name = table[k].name
             /\ IsPrefix(read[k].size, table[k].size)
  <2> DEFINE r == table[k]
  <2>1. r \in LedgerRows
    BY <1>1
  <2>2. r.size \in Seq(Chars)
    BY <2>1, RowTyped
  <2>3. CASE k < j
    BY <1>5, <2>2, <2>3, WholePrefix
  <2>4. CASE ~(k < j)
    <3>1. PICK m \in 0 .. Len(DumpRow(r)) : l[k + 1] = SubSeq(DumpRow(r), 1, m)
      BY <2>4 DEF Cut
    <3>2. f(k) = SplitCsvLine(SubSeq(DumpRow(r), 1, m))
      BY <3>1 DEF f
    <3>3. RowOk(f(k), 1, 2, 3)
      BY <1>2
    <3> HIDE DEF r
    <3> DEFINE g == SplitCsvLine(SubSeq(DumpRow(r), 1, m))
    <3>4. g = f(k) /\ RowOk(g, 1, 2, 3)
      BY <3>2, <3>3
    <3>5. ParsedRow(g).id = r.id /\ ParsedRow(g).name = r.name /\ IsPrefix(ParsedRow(g).size, r.size)
      BY <2>1, <3>4, CutRow, Zenon
    <3> HIDE DEF g
    <3>6. QED
      BY <1>4, <3>4, <3>5 DEF r
  <2>5. QED
    BY <2>3, <2>4
<1>7. Reads(table, j, read)
  BY <1>1, <1>3, <1>5, <1>6 DEF Reads
<1>8. QED
  BY <1>2, <1>7

\* What CutLines says of the recs.
LEMMA CutRows ==
  ASSUME NEW table \in Ledgers, NEW dump, NEW recs, NEW start, Dumped(table, dump, recs, start),
         NEW text, NEW j, CutAfter(recs, start, text, j), j # 0
  PROVE  \E n : Cut(table, j, n, Lines(text))
<1> DEFINE d == SubSeq(recs, 1, j)
           l == Lines(text)
<1>1. /\ Len(table) \in Nat /\ Len(recs) = Len(table) + 1 /\ recs \in Seq(Seq(Chars))
      /\ recs[1] = Header /\ \A k \in 1 .. Len(table) : recs[k + 1] = DumpRow(table[k])
  BY DEF Dumped
<1>2. j \in 0 .. Len(recs)
  BY DEF CutAfter
<1>3. j \in Nat /\ j > 0 /\ j <= Len(table) + 1 /\ j - 1 \in Nat /\ 1 \in 1 .. j
  BY <1>1, <1>2
<1>4. d \in Seq(Seq(Chars)) /\ Len(d) = j /\ \A i \in 1 .. j : d[i] = recs[i]
  BY <1>1, <1>2, PrefixFacts
<1> HIDE DEF d
<1>5. ASSUME NEW k \in 1 .. j, k < j PROVE k + 1 \in 1 .. j /\ d[k + 1] = DumpRow(table[k])
  <2>1. k + 1 \in 1 .. j /\ k \in 1 .. Len(table)
    BY <1>1, <1>3, <1>5
  <2>2. QED
    BY <1>1, <1>4, <2>1
<1>6. CASE l = d
  <2>1. Len(l) = (j - 1) + 1 /\ l # <<>> /\ l[1] = Header
    <3>1. l[1] = Header
      BY <1>1, <1>3, <1>4, <1>6
    <3>2. QED
      BY <1>3, <1>4, <1>6, <3>1
  <2>2. ASSUME NEW k \in 1 .. j - 1 PROVE k < j /\ l[k + 1] = DumpRow(table[k])
    <3>1. k \in 1 .. j /\ k < j
      BY <1>3
    <3>2. QED
      BY <1>5, <1>6, <3>1
  <2>3. j - 1 <= Len(table) /\ j - 1 <= j /\ j <= (j - 1) + 1
    BY <1>1, <1>3
  <2> HIDE DEF l
  <2>4. Cut(table, j, j - 1, l)
    BY <1>3, <2>1, <2>2, <2>3 DEF Cut
  <2>5. QED
    BY <2>4 DEF l
<1>7. ASSUME j < Len(recs), NEW m \in 1 .. Len(recs[j + 1]), l = Append(d, SubSeq(recs[j + 1], 1, m))
      PROVE  Cut(table, j, j, l)
  <2> DEFINE p == SubSeq(recs[j + 1], 1, m)
  <2>1. j \in 1 .. Len(table) /\ j <= Len(table) /\ j + 1 \in 1 .. Len(recs)
    BY <1>1, <1>3, <1>7
  <2>2. recs[j + 1] = DumpRow(table[j]) /\ table[j] \in LedgerRows /\ recs[j + 1] \in Seq(Chars)
    BY <1>1, <2>1, LedgerTyped, ElementOfSeq
  <2>3. m \in 0 .. Len(DumpRow(table[j])) /\ p = SubSeq(DumpRow(table[j]), 1, m)
    BY <2>2
  <2>4. m \in 0 .. Len(recs[j + 1])
    BY <2>2, <2>3
  <2>5. p \in Seq(Chars)
    BY <2>2, <2>4, PrefixFacts
  <2>6. l = Append(d, p)
    BY <1>7
  <2> HIDE DEF p, l
  <2>7. Len(l) = Len(d) + 1 /\ (\A e \in 1 .. Len(d) : l[e] = d[e]) /\ l[Len(d) + 1] = p
    BY <1>4, <2>5, <2>6, AppendProperties
  <2>8. Len(l) = j + 1 /\ l # <<>> /\ l[1] = Header
    <3>1. Len(l) = j + 1
      BY <1>4, <2>7
    <3>2. l[1] = Header
      <4>1. 1 \in 1 .. Len(d) /\ d[1] = recs[1]
        BY <1>3, <1>4
      <4>2. l[1] = d[1]
        BY <2>7, <4>1
      <4>3. QED
        BY <1>1, <4>1, <4>2
    <3>3. QED
      BY <1>3, <3>1, <3>2
  <2>9. ASSUME NEW k \in 1 .. j, k < j PROVE l[k + 1] = DumpRow(table[k])
    BY <1>4, <1>5, <2>7, <2>9
  <2>10. ASSUME NEW k \in 1 .. j, ~(k < j)
         PROVE  \E e \in 0 .. Len(DumpRow(table[k])) : l[k + 1] = SubSeq(DumpRow(table[k]), 1, e)
    <3>1. k = j
      BY <1>3, <2>10
    <3>2. l[k + 1] = p
      BY <1>4, <2>7, <3>1
    <3>3. QED
      BY <2>3, <3>1, <3>2
  <2>11. j <= j /\ j <= j + 1
    BY <1>3
  <2>12. QED
    BY <1>3, <2>1, <2>8, <2>9, <2>10, <2>11 DEF Cut
<1>8. QED
  <2>1. \/ l = d
        \/ j < Len(recs) /\ \E m \in 1 .. Len(recs[j + 1]) : l = Append(d, SubSeq(recs[j + 1], 1, m))
    BY DEF CutAfter, d
  <2>2. QED
    BY <1>6, <1>7, <2>1

\* What is read of a dump cut anywhere, unless it is refused.
LEMMA CutRead ==
  ASSUME NEW table \in Ledgers, ~HasBreak(table),
         NEW dump, NEW recs, NEW start, Dumped(table, dump, recs, start),
         NEW text, CutOf(dump, text), ParseSnapshot(text) # Malformed
  PROVE  \E j : CutAfter(recs, start, text, j) /\ Reads(table, j, ParseSnapshot(text))
<1>1. PICK j : CutAfter(recs, start, text, j)
  BY CutLines
<1>2. j \in 0 .. Len(recs) /\ Len(recs) \in Nat /\ recs \in Seq(Seq(Chars))
  BY <1>1 DEF CutAfter, Dumped
<1>3. CASE j # 0
  <2>1. PICK n : Cut(table, j, n, Lines(text))
    BY <1>1, <1>3, CutRows
  <2>2. j \in Nat
    BY <1>2
  <2>3. Reads(table, j, ParseSnapshot(text))
    BY <2>1, <2>2, ReadsCut
  <2>4. QED
    BY <1>1, <2>3
<1>4. CASE j = 0
  <2> DEFINE none == SubSeq(recs, 1, 0)
  <2>1. none \in Seq(Seq(Chars)) /\ Len(none) = 0
    <3>1. 0 \in 0 .. Len(recs)
      BY <1>2
    <3>2. QED
      BY <1>2, <3>1, PrefixFacts
  <2>2. Len(Lines(text)) \in Nat /\ Len(Lines(text)) <= 1
    <3>1. CASE Lines(text) = none
      BY <2>1, <3>1
    <3>2. ASSUME j < Len(recs), NEW m \in 1 .. Len(recs[j + 1]),
                 Lines(text) = Append(none, SubSeq(recs[j + 1], 1, m))
          PROVE  Len(Lines(text)) = 1
      <4> DEFINE p == SubSeq(recs[j + 1], 1, m)
      <4>1. j + 1 \in 1 .. Len(recs)
        BY <1>2, <3>2
      <4>2. recs[j + 1] \in Seq(Chars)
        BY <1>2, <4>1, ElementOfSeq
      <4>3. m \in 0 .. Len(recs[j + 1])
        BY <4>2, LenProperties
      <4>4. p \in Seq(Chars)
        BY <4>2, <4>3, PrefixFacts
      <4>5. Lines(text) = Append(none, p)
        BY <3>2
      <4> HIDE DEF p, none
      <4>6. Len(Lines(text)) = Len(none) + 1
        BY <2>1, <4>4, <4>5, AppendProperties
      <4>7. QED
        BY <2>1, <4>6
    <3>3. \/ Lines(text) = none
          \/ /\ j < Len(recs)
             /\ \E m \in 1 .. Len(recs[j + 1]) : Lines(text) = Append(none, SubSeq(recs[j + 1], 1, m))
      BY <1>1, <1>4 DEF CutAfter
    <3> HIDE DEF none
    <3>4. QED
      BY <3>1, <3>2, <3>3
  <2>3. ParseSnapshot(text) = <<>>
    BY <2>2, ParseHeader
  <2>4. Len(table) \in Nat
    BY DEF Dumped
  <2>5. Len(<<>>) = 0 /\ DOMAIN <<>> = 1 .. 0 /\ \A k \in 1 .. 0 : FALSE
    OBVIOUS
  <2>6. Reads(table, j, ParseSnapshot(text))
    BY <1>4, <2>3, <2>4, <2>5 DEF Reads
  <2>7. QED
    BY <1>1, <2>6
<1>5. QED
  BY <1>3, <1>4

\* A ledger with a line break in a name is refused as a whole.
LEMMA BreakIsMalformed == BreakRefused
BY BreakIsRefused DEF BreakRefused

\* A ledger without line breaks in its names and a prefix of its dump.
LEMMA CutShortFacts ==
  ASSUME NEW table \in Ledgers, ~HasBreak(table), NEW n \in 0 .. Len(DumpCsv(table)),
         ParseSnapshot(SubSeq(DumpCsv(table), 1, n)) # Malformed
  PROVE  LET read == ParseSnapshot(SubSeq(DumpCsv(table), 1, n))
         IN  /\ Agrees(read, table)
             /\ \A k \in DOMAIN table : Len(DumpCsv(SubSeq(table, 1, k))) <= n =>
                  k \in DOMAIN read /\ read[k] = table[k]
<1> DEFINE dump == DumpCsv(table)
           text == SubSeq(dump, 1, n)
           read == ParseSnapshot(text)
<1>1. PICK lns, start : /\ Dumped(table, dump, lns, start)
                        /\ \A k \in 1 .. Len(table) : Len(DumpCsv(SubSeq(table, 1, k))) = start[k + 1]
  BY DumpFacts, Zenon
<1> HIDE DEF dump
<1>2. dump \in Seq(Chars) /\ n \in 0 .. Len(dump)
  BY <1>1 DEF Dumped, dump
<1>3. Len(dump) \in Nat
  BY <1>2, LenProperties
<1>4. text \in Seq(Chars) /\ Len(text) = n /\ \A i \in 1 .. n : text[i] = dump[i]
  BY <1>2, PrefixFacts
<1> HIDE DEF text
<1>5. CutOf(dump, text)
  BY <1>2, <1>3, <1>4 DEF CutOf
<1>6. ParseSnapshot(text) # Malformed
  BY DEF text, dump
<1>7. PICK j : CutAfter(lns, start, text, j) /\ Reads(table, j, read)
  BY <1>1, <1>5, <1>6, CutRead
<1>8. /\ Len(table) \in Nat /\ DOMAIN table = 1 .. Len(table) /\ Len(lns) = Len(table) + 1
      /\ start[Len(lns)] = Len(dump)
  BY <1>1, LedgerTyped DEF Dumped
<1>9. j \in 0 .. Len(lns) /\ \A e \in 0 .. Len(lns) : start[e] <= n => e <= j
  BY <1>4, <1>7 DEF CutAfter
<1> HIDE DEF read
<1>10. /\ Len(read) \in Nat /\ Len(read) <= Len(table) /\ DOMAIN read = 1 .. Len(read)
       /\ Len(read) <= j /\ j <= Len(read) + 1
       /\ \A k \in 1 .. Len(read) :
            /\ read[k].id = table[k].id /\ read[k].name = table[k].name
            /\ IsPrefix(read[k].size, table[k].size)
            /\ k < j => read[k] = table[k]
  BY <1>7 DEF Reads
<1>11. Agrees(read, table)
  <2>1. ASSUME NEW k \in DOMAIN read
        PROVE  /\ read[k].id = table[k].id /\ read[k].name = table[k].name
               /\ IsPrefix(read[k].size, table[k].size)
               /\ k < Len(read) => read[k] = table[k]
    <3>1. k \in 1 .. Len(read)
      BY <1>10
    <3>2. k < Len(read) => k < j
      BY <1>8, <1>9, <1>10, <3>1
    <3>3. QED
      BY <1>10, <3>1, <3>2
  <2>2. QED
    BY <1>10, <2>1 DEF Agrees
<1>12. ASSUME NEW k \in DOMAIN table, start[k + 1] <= n PROVE k \in DOMAIN read /\ read[k] = table[k]
  <2>1. k \in 1 .. Len(table) /\ k + 1 \in 0 .. Len(lns)
    BY <1>8
  <2>2. k + 1 <= j
    BY <1>9, <1>12, <2>1
  <2>3. k \in 1 .. Len(read) /\ k < j
    BY <1>8, <1>9, <1>10, <2>1, <2>2
  <2>4. QED
    BY <1>10, <2>3
<1>13. ASSUME NEW k \in DOMAIN table, Len(DumpCsv(SubSeq(table, 1, k))) <= n
       PROVE  k \in DOMAIN read /\ read[k] = table[k]
  <2>1. k \in 1 .. Len(table)
    BY <1>8
  <2>2. Len(DumpCsv(SubSeq(table, 1, k))) = start[k + 1]
    BY <1>1, <2>1
  <2>3. start[k + 1] <= n
    BY <1>13, <2>2
  <2>4. QED
    BY <1>12, <2>3
<1>14. QED
  BY <1>11, <1>13 DEF read, text, dump

\* A dump cut anywhere is refused or read as a prefix of the ledger.
LEMMA CutIsAPrefix == NoRowMadeUp
BY CutShortFacts, Zenon DEF NoRowMadeUp, EveryCut

\* Every row that is whole is in it.
LEMMA CutKeepsRows == NoRowLeftOut
BY CutShortFacts, Zenon DEF NoRowLeftOut, EveryCut

\* A whole dump is read as the ledger it was written from.
LEMMA WholeRead ==
  ASSUME NEW table \in Ledgers, ~HasBreak(table)
  PROVE  ParseSnapshot(DumpCsv(table)) = table
<1> DEFINE dump == DumpCsv(table)
           n == Len(table)
           l == Lines(dump)
           f(k) == SplitCsvLine(l[k + 1])
           read == [k \in 1 .. n |-> ParsedRow(f(k))]
<1>1. PICK lns, start : Dumped(table, dump, lns, start)
  BY DumpFacts, Zenon
<1> HIDE DEF dump
<1>2. /\ dump \in Seq(Chars) /\ n \in Nat /\ Len(lns) = n + 1 /\ start[Len(lns)] = Len(dump)
      /\ table \in Seq(LedgerRows) /\ \A k \in 1 .. n : table[k] \in LedgerRows
  BY <1>1, LedgerTyped DEF Dumped
<1>3. Len(dump) \in Nat
  BY <1>2, LenProperties
<1>4. CutOf(dump, dump)
  BY <1>2, <1>3 DEF CutOf
<1>5. PICK j : CutAfter(lns, start, dump, j)
  BY <1>1, <1>4, CutLines
<1>6. j = n + 1
  <2>1. j \in 0 .. Len(lns) /\ \A e \in 0 .. Len(lns) : start[e] <= Len(dump) => e <= j
    BY <1>5 DEF CutAfter
  <2>2. Len(lns) \in 0 .. Len(lns) /\ start[Len(lns)] <= Len(dump)
    BY <1>2, <1>3
  <2>3. Len(lns) <= j
    BY <2>1, <2>2
  <2>4. QED
    BY <1>2, <2>1, <2>3
<1>7. PICK m : Cut(table, j, m, l)
  <2>1. j # 0
    BY <1>2, <1>6
  <2>2. QED
    BY <1>1, <1>5, <2>1, CutRows
<1>8. m = n /\ Len(l) - 1 = n /\ l # <<>> /\ l[1] = Header
  BY <1>2, <1>6, <1>7 DEF Cut
<1>9. ASSUME NEW k \in 1 .. n PROVE RowOk(f(k), 1, 2, 3) /\ ParsedRow(f(k)) = table[k]
  <2>1. k < j
    BY <1>2, <1>6
  <2>2. l[k + 1] = DumpRow(table[k]) /\ table[k] \in LedgerRows
    BY <1>2, <1>7, <1>8, <2>1 DEF Cut
  <2>3. QED
    BY <2>2, WholeRow
<1>10. ParseSnapshot(dump) = read
  <2>1. Lines(dump) = l
    OBVIOUS
  <2>2. \A k \in 1 .. Len(l) - 1 : RowOk(SplitCsvLine(l[k + 1]), 1, 2, 3)
    BY <1>8, <1>9
  <2> HIDE DEF l, n
  <2>3. ParseSnapshot(dump) = [k \in 1 .. Len(l) - 1 |-> ParsedRow(SplitCsvLine(l[k + 1]))]
    BY <1>8, <2>1, <2>2, ParseLines
  <2>4. QED
    BY <1>8, <2>3
<1>11. table = [k \in 1 .. n |-> table[k]]
  BY <1>2
<1> HIDE DEF l, f, n
<1>12. read = table
  BY <1>9, <1>11
<1>13. QED
  BY <1>10, <1>12 DEF dump

\* A whole dump is read as the ledger.
LEMMA WholeIsTheSame == SameRows
BY WholeRead DEF SameRows
-----------------------------------------------------------------------------
(* The pass.                                                               *)

RowType == [still_exists : BOOLEAN, queued : 0 .. Grace]

RowsOf(t) == DOMAIN t \subseteq Files /\ \A f \in DOMAIN t : t[f] \in RowType

SnapshotOK(t) == t \notin {None, Malformed} => RowsOf(t) /\ DOMAIN t \subseteq DOMAIN ledger

StateOK(s) ==
  /\ s = [last_run |-> s.last_run, requested |-> s.requested]
  /\ s.last_run \in {None} \cup 0 .. Period
  /\ Ages(s.requested)

\* The two ends of the link.
WorldInv ==
  /\ exists \subseteq Files /\ RowsOf(ledger) /\ queue \subseteq DOMAIN ledger
  /\ held \subseteq DOMAIN ledger /\ landed \subseteq DOMAIN ledger
  /\ SnapshotOK(snap)

\* What a pass holds: a snapshot that was read well until the plan is made.
PassInv ==
  /\ pc \in {"idle", "held", "pending", "plan", "ask", "save", "down"}
  /\ SnapshotOK(rows)
  /\ pc \in {"held", "pending", "plan"} => rows # None
  /\ pc \in {"pending", "plan"} => rows # Malformed
  /\ in_flight \subseteq Files /\ missing \subseteq DOMAIN ledger
  /\ pending # None => pending \subseteq Files

\* The memory of requests; during a pass the time of the pass is known.
MemoryInv ==
  /\ StateOK(memory) /\ StateOK(saved) /\ Ages(asked)
  /\ pc \notin {"idle", "down"} => memory.last_run \in 0 .. Period

TypeInv == WorldInv /\ PassInv /\ MemoryInv /\ force \in BOOLEAN

\* The parts make up the type invariant.
LEMMA TypeInvIsType == ASSUME TypeInv PROVE TypeOK
<1>1. \A t : RowsOf(t) => Rows(t)
  BY DEF RowsOf, Rows, RowType
<1>2. \A t \in {snap, rows} :
        t \notin {None, Malformed} => Rows(t) /\ DOMAIN t \subseteq DOMAIN ledger
  BY <1>1 DEF TypeInv, WorldInv, PassInv, SnapshotOK
<1>3. \A s \in {memory, saved} : s.last_run \in {None} \cup 0 .. Period /\ Ages(s.requested)
  BY DEF TypeInv, MemoryInv, StateOK
<1>4. QED
  BY <1>1, <1>2, <1>3 DEF TypeInv, WorldInv, PassInv, MemoryInv, TypeOK
-----------------------------------------------------------------------------
(* Who changes what.                                                       *)

Asks(f) == SkipFile(f) \/ RequestFile(f) \/ RequestFails(f) \/ RequestTimesOut(f)

\* Each part of the state and the actions that change it.
LEMMA Frame ==
  ASSUME [Next]_vars
  PROVE  /\ \/ UNCHANGED <<payload, ground>>
            \/ \E f \in Files : RequestFile(f) \/ RequestTimesOut(f) \/ Others(f)
            \/ RestartSender \/ LandSnapshot \/ LandCutSnapshot \/ Tick
         /\ \/ UNCHANGED <<pass, pc>>
            \/ Pass \/ Stop \/ Start
         /\ \/ UNCHANGED <<memory, saved, asked>> /\ (pc' = pc \/ Pass)
            \/ Begin \/ MakePlan \/ Save \/ Stop \/ Start \/ Tick
            \/ \E f \in Files : RequestFile(f)
         /\ UNCHANGED force \/ Begin \/ ReconcileNow \/ Stop
<1>1. CASE Pass
  BY <1>1 DEF Pass, Begin, PassFails, ReadHolding, AskPending, AskPendingFails, MakePlan,
     EndOfPlan, Save, SkipFile, RequestFile, RequestFails, RequestTimesOut, payload, ground, pass
<1>2. CASE ReconcileNow \/ Stop \/ Start
  BY <1>2 DEF ReconcileNow, Stop, Start, payload, ground, pass
<1>3. ASSUME NEW f \in Files, Others(f)
      PROVE  UNCHANGED <<pass, pc, force, memory, saved, asked>>
  BY <1>3 DEF Others, WriteFile, DeleteFile, Scan, Requeue, Drain, SendGone, Arrive, Land, cleaner, pass
<1>4. CASE RestartSender \/ LandSnapshot \/ LandCutSnapshot \/ Tick
  BY <1>4 DEF RestartSender, LandSnapshot, LandCutSnapshot, Tick, cleaner, pass
<1>5. CASE UNCHANGED vars
  BY <1>5 DEF vars
<1>6. QED
  BY <1>1, <1>2, <1>3, <1>4, <1>5 DEF Next
-----------------------------------------------------------------------------
(* Rows.                                                                   *)

\* A row that is added.
LEMMA RowPut ==
  ASSUME NEW t, RowsOf(t), NEW f \in Files, NEW v \in RowType
  PROVE  RowsOf(Put(t, f, v)) /\ DOMAIN t \subseteq DOMAIN Put(t, f, v)
<1>1. DOMAIN Put(t, f, v) = DOMAIN t \cup {f}
  BY DEF Put
<1>2. ASSUME NEW g \in DOMAIN Put(t, f, v)
      PROVE  Put(t, f, v)[g] \in RowType /\ g \in Files
  <2>1. Put(t, f, v)[g] = IF g = f THEN v ELSE t[g]
    BY DEF Put
  <2>2. QED
    BY <1>1, <2>1 DEF RowsOf
<1>3. QED
  BY <1>1, <1>2 DEF RowsOf

\* A row that is marked or queued again.
LEMMA RowFacts ==
  ASSUME NEW t, RowsOf(t), NEW f, NEW u,
         u = [t EXCEPT ![f].queued = 0] \/ u = [t EXCEPT ![f].still_exists = FALSE]
  PROVE  RowsOf(u) /\ DOMAIN u = DOMAIN t
<1>1. 0 \in 0 .. Grace
  BY ReconcilerAssumption
<1>2. DOMAIN u = DOMAIN t
  OBVIOUS
<1>3. ASSUME NEW g \in DOMAIN t
      PROVE  u[g] \in RowType
  <2>1. t[g] \in RowType
    BY DEF RowsOf
  <2>2. [t[g] EXCEPT !.queued = 0] \in RowType /\ [t[g] EXCEPT !.still_exists = FALSE] \in RowType
    BY <1>1, <2>1 DEF RowType
  <2>3. u[g] = t[g] \/ u[g] = [t[g] EXCEPT !.queued = 0] \/ u[g] = [t[g] EXCEPT !.still_exists = FALSE]
    OBVIOUS
  <2>4. QED
    BY <2>1, <2>2, <2>3
<1>4. QED
  BY <1>2, <1>3 DEF RowsOf

\* Rows that grow older.
LEMMA OlderRowsFacts ==
  ASSUME NEW t, RowsOf(t)
  PROVE  RowsOf(OlderRows(t)) /\ DOMAIN OlderRows(t) = DOMAIN t
<1>1. ASSUME NEW f \in DOMAIN t
      PROVE  OlderRows(t)[f] \in RowType
  <2>1. t[f] \in RowType
    BY DEF RowsOf
  <2>2. Older(t[f].queued, Grace) \in 0 .. Grace
    BY <2>1, ReconcilerAssumption DEF Older, RowType
  <2>3. OlderRows(t)[f] = [t[f] EXCEPT !.queued = Older(t[f].queued, Grace)]
    BY DEF OlderRows
  <2>4. QED
    BY <2>1, <2>2, <2>3 DEF RowType
<1>2. DOMAIN OlderRows(t) = DOMAIN t
  BY DEF OlderRows
<1>3. QED
  BY <1>1, <1>2 DEF RowsOf

\* What is left of a ledger that was cut short.
LEMMA CutFacts ==
  ASSUME RowsOf(ledger), NEW f \in DOMAIN ledger, NEW t \in CutAt(f)
  PROVE  RowsOf(t) /\ DOMAIN t \subseteq DOMAIN ledger
<1> DEFINE lost == [still_exists |-> TRUE, queued |-> Grace]
<1>1. lost \in RowType
  BY ReconcilerAssumption DEF RowType
<1>2. /\ DOMAIN t \subseteq DOMAIN ledger
      /\ \A g \in DOMAIN t : t[g] = lost \/ t[g] = ledger[g]
  BY DEF CutAt
<1> HIDE DEF lost
<1>3. QED
  BY <1>1, <1>2 DEF RowsOf

\* The ledger only grows.
LEMMA LedgerGrows ==
  ASSUME WorldInv, [Next]_vars
  PROVE  RowsOf(ledger') /\ DOMAIN ledger \subseteq DOMAIN ledger'
<1>1. RowsOf(ledger)
  BY DEF WorldInv
<1>2. CASE UNCHANGED ledger
  BY <1>1, <1>2
<1>3. ASSUME NEW f \in Files, Enqueued(f) \/ SendGone(f)
      PROVE  RowsOf(ledger') /\ DOMAIN ledger \subseteq DOMAIN ledger'
  <2>1. \/ ledger' = ledger
        \/ ledger' = [ledger EXCEPT ![f].queued = 0]
        \/ ledger' = [ledger EXCEPT ![f].still_exists = FALSE]
    BY <1>3 DEF Enqueued, SendGone
  <2>2. QED
    BY <1>1, <2>1, RowFacts
<1>4. ASSUME NEW f \in Files, Scan(f)
      PROVE  RowsOf(ledger') /\ DOMAIN ledger \subseteq DOMAIN ledger'
  <2> DEFINE v == [still_exists |-> TRUE, queued |-> 0]
  <2>1. ledger' = Put(ledger, f, v)
    BY <1>4 DEF Scan
  <2>2. v \in RowType
    BY ReconcilerAssumption DEF RowType
  <2> HIDE DEF v
  <2>3. QED
    BY <1>1, <2>1, <2>2, RowPut
<1>5. CASE Tick
  BY <1>1, <1>5, OlderRowsFacts DEF Tick
<1>6. QED
  BY <1>2, <1>3, <1>4, <1>5, Frame DEF RequestFile, RequestTimesOut, Others, WriteFile, DeleteFile,
     Requeue, Drain, Arrive, Land, RestartSender, LandSnapshot, LandCutSnapshot, payload

\* Steps keep WorldInv.
LEMMA WorldStep == ASSUME WorldInv, PassInv, [Next]_vars PROVE WorldInv'
<1>1. RowsOf(ledger') /\ DOMAIN ledger \subseteq DOMAIN ledger'
  BY LedgerGrows
<1>2. SnapshotOK(snap)'
  <2>1. SnapshotOK(snap) /\ RowsOf(ledger)
    BY DEF WorldInv
  <2>2. CASE UNCHANGED snap
    BY <1>1, <2>1, <2>2 DEF SnapshotOK
  <2>3. CASE snap' = ledger
    BY <1>1, <2>1, <2>3 DEF SnapshotOK
  <2>4. CASE LandCutSnapshot
    <3>1. snap' = Malformed \/ \E f \in DOMAIN ledger : snap' \in CutAt(f)
      BY <2>4 DEF LandCutSnapshot
    <3>2. QED
      BY <1>1, <2>1, <3>1, CutFacts DEF SnapshotOK
  <2>5. CASE Tick
    <3>1. CASE snap \in {None, Malformed}
      BY <2>5, <3>1 DEF Tick, SnapshotOK
    <3>2. CASE snap \notin {None, Malformed}
      <4>1. RowsOf(snap) /\ DOMAIN snap \subseteq DOMAIN ledger
        BY <2>1, <3>2 DEF SnapshotOK
      <4>2. snap' = OlderRows(snap)
        BY <2>5, <3>2 DEF Tick
      <4>3. RowsOf(snap') /\ DOMAIN snap' = DOMAIN snap
        BY <4>1, <4>2, OlderRowsFacts
      <4>4. QED
        BY <1>1, <4>1, <4>3 DEF SnapshotOK
    <3>3. QED
      BY <3>1, <3>2
  <2>6. QED
    BY <2>2, <2>3, <2>4, <2>5, Frame DEF RequestFile, RequestTimesOut, Others, WriteFile, DeleteFile,
       Scan, Requeue, Drain, SendGone, Arrive, Land, RestartSender, LandSnapshot, ground
<1>3. exists' \subseteq Files /\ queue' \subseteq DOMAIN ledger'
  <2>1. exists \subseteq Files /\ queue \subseteq DOMAIN ledger /\ held \subseteq DOMAIN ledger
    BY DEF WorldInv
  <2>2. missing \subseteq DOMAIN ledger
    BY DEF PassInv
  <2>3. ASSUME NEW f \in Files, RequestFile(f) \/ RequestTimesOut(f)
        PROVE  exists' \subseteq Files /\ queue' \subseteq DOMAIN ledger'
    <3>1. UNCHANGED exists /\ f \in missing /\ queue' = queue \cup {f}
      BY <2>3 DEF RequestFile, RequestTimesOut, Enqueued
    <3>2. QED
      BY <1>1, <2>1, <2>2, <3>1
  <2>4. ASSUME NEW f \in Files, Others(f)
        PROVE  exists' \subseteq Files /\ queue' \subseteq DOMAIN ledger'
    <3>1. CASE Scan(f)
      <4>1. f \in DOMAIN ledger'
        BY <3>1 DEF Scan, Put
      <4>2. QED
        BY <1>1, <2>1, <3>1, <4>1 DEF Scan
    <3>2. CASE Requeue(f)
      BY <1>1, <2>1, <3>2 DEF Requeue, Enqueued
    <3>3. CASE WriteFile(f) \/ DeleteFile(f) \/ Drain(f) \/ SendGone(f) \/ Arrive(f) \/ Land(f)
      BY <1>1, <2>1, <3>3 DEF WriteFile, DeleteFile, Drain, SendGone, Arrive, Land, payload
    <3>4. QED
      BY <2>4, <3>1, <3>2, <3>3 DEF Others
  <2>5. CASE UNCHANGED payload \/ RestartSender \/ LandSnapshot \/ LandCutSnapshot \/ Tick
    BY <1>1, <2>1, <2>5 DEF RestartSender, LandSnapshot, LandCutSnapshot, Tick, payload
  <2>6. QED
    BY <2>3, <2>4, <2>5, Frame
<1>4. held' \subseteq DOMAIN ledger' /\ landed' \subseteq DOMAIN ledger'
  <2>1. held \subseteq DOMAIN ledger /\ landed \subseteq DOMAIN ledger /\ queue \subseteq DOMAIN ledger
    BY DEF WorldInv
  <2>2. ASSUME NEW f \in Files, Arrive(f) \/ Land(f)
        PROVE  held' \subseteq DOMAIN ledger' /\ landed' \subseteq DOMAIN ledger'
    BY <1>1, <2>1, <2>2 DEF Arrive, Land
  <2>3. UNCHANGED <<held, landed>> \/ \E f \in Files : Arrive(f) \/ Land(f)
    BY Frame DEF RequestFile, RequestTimesOut, Others, WriteFile, DeleteFile, Scan, Requeue, Drain,
       SendGone, RestartSender, LandSnapshot, LandCutSnapshot, Tick, ground
  <2>4. QED
    BY <1>1, <2>1, <2>2, <2>3
<1>5. QED
  BY <1>1, <1>2, <1>3, <1>4 DEF WorldInv

\* Steps keep PassInv.
LEMMA PassStep == ASSUME WorldInv, PassInv, [Next]_vars PROVE PassInv'
<1>1. RowsOf(ledger) /\ DOMAIN ledger \subseteq Files /\ DOMAIN ledger \subseteq DOMAIN ledger'
  BY LedgerGrows DEF WorldInv, RowsOf
<1>2. CASE UNCHANGED <<pass, pc>>
  BY <1>1, <1>2 DEF PassInv, SnapshotOK, pass
<1>3. CASE Begin
  BY <1>1, <1>3 DEF Begin, PassInv, WorldInv, SnapshotOK
<1>4. CASE PassFails \/ Stop
  BY <1>1, <1>4 DEF PassFails, Stop, PassInv, SnapshotOK
<1>5. CASE ReadHolding
  BY <1>1, <1>5 DEF ReadHolding, PassInv, WorldInv, SnapshotOK
<1>6. CASE AskPending \/ AskPendingFails
  BY <1>1, <1>6 DEF AskPending, AskPendingFails, PassInv, WorldInv, SnapshotOK
<1>7. CASE MakePlan
  <2>1. DOMAIN rows \subseteq DOMAIN ledger
    BY <1>7 DEF MakePlan, PassInv, SnapshotOK
  <2>2. /\ missing' \subseteq DOMAIN rows /\ rows' = None /\ pc' = "ask"
        /\ UNCHANGED <<in_flight, pending>>
    BY <1>7 DEF MakePlan
  <2>3. QED
    BY <1>1, <2>1, <2>2 DEF PassInv, SnapshotOK
<1>8. ASSUME NEW f \in Files, Asks(f)
      PROVE  PassInv'
  <2>1. pc = "ask" /\ missing' = missing \ {f} /\ UNCHANGED <<rows, in_flight, pending, pc>>
    BY <1>8 DEF Asks, SkipFile, RequestFile, RequestFails, RequestTimesOut
  <2>2. QED
    BY <1>1, <2>1 DEF PassInv, SnapshotOK
<1>9. CASE EndOfPlan \/ Save \/ Start
  BY <1>1, <1>9 DEF EndOfPlan, Save, Start, PassInv, SnapshotOK, pass
<1>10. QED
  BY <1>2, <1>3, <1>4, <1>5, <1>6, <1>7, <1>8, <1>9, Frame DEF Pass, Asks
-----------------------------------------------------------------------------
(* The memory of requests.                                                 *)

\* Ages go up to Period.
LEMMA OlderFacts ==
  ASSUME NEW a \in 0 .. Period
  PROVE  /\ Older(a, Period) \in 0 .. Period
         /\ Older(a, Period) < Period => a < Period /\ Older(a, Period) = a + 1
BY ReconcilerAssumption DEF Older

LEMMA OlderAllFacts ==
  ASSUME NEW t, Ages(t)
  PROVE  /\ Ages(OlderAll(t)) /\ DOMAIN OlderAll(t) = DOMAIN t
         /\ \A f \in DOMAIN t : OlderAll(t)[f] = Older(t[f], Period)
<1>1. /\ DOMAIN OlderAll(t) = DOMAIN t
      /\ \A f \in DOMAIN t : OlderAll(t)[f] = Older(t[f], Period)
  BY DEF OlderAll
<1>2. QED
  BY <1>1, OlderFacts DEF Ages

LEMMA OlderStateFacts ==
  ASSUME NEW s, StateOK(s)
  PROVE  /\ StateOK(OlderState(s)) /\ OlderState(s).requested = OlderAll(s.requested)
         /\ s.last_run \in 0 .. Period => OlderState(s).last_run \in 0 .. Period
<1>1. OlderState(s).last_run = Older(s.last_run, Period) /\ OlderState(s).requested = OlderAll(s.requested)
  BY DEF OlderState
<1>2. Ages(OlderAll(s.requested))
  BY OlderAllFacts DEF StateOK
<1>3. s.last_run \in 0 .. Period => OlderState(s).last_run \in 0 .. Period
  BY <1>1, OlderFacts
<1>4. s.last_run = None => OlderState(s).last_run = None
  BY <1>1, ReconcilerAssumption DEF Older
<1>5. OlderState(s) = [last_run |-> OlderState(s).last_run, requested |-> OlderState(s).requested]
  BY DEF OlderState
<1>6. QED
  BY <1>1, <1>2, <1>3, <1>4, <1>5 DEF StateOK

\* What a step does to the request memory.
LEMMA MemoryFacts ==
  ASSUME StateOK(memory)
  PROVE  /\ \A a : [memory EXCEPT !.last_run = a] = [last_run |-> a, requested |-> memory.requested]
         /\ \A t : [memory EXCEPT !.requested = t] = [last_run |-> memory.last_run, requested |-> t]
BY DEF StateOK

\* A file that is added with the age of the pass.
LEMMA AgesPut ==
  ASSUME NEW t, Ages(t), NEW f \in Files, NEW a \in 0 .. Period
  PROVE  Ages(Put(t, f, a))
BY DEF Ages, Put

\* Steps keep MemoryInv.
LEMMA MemoryStep == ASSUME PassInv, MemoryInv, [Next]_vars PROVE MemoryInv'
<1>1. /\ StateOK(memory) /\ StateOK(saved) /\ Ages(asked) /\ Ages(memory.requested)
      /\ pc \notin {"idle", "down"} => memory.last_run \in 0 .. Period
  BY DEF MemoryInv, StateOK
<1>2. CASE UNCHANGED <<memory, saved, asked>> /\ (pc' = pc \/ Pass)
  <2>1. pc' \notin {"idle", "down"} /\ ~Begin => pc \notin {"idle", "down"}
    BY <1>2 DEF Pass, PassFails, ReadHolding, AskPending, AskPendingFails, MakePlan, EndOfPlan, Save,
       SkipFile, RequestFile, RequestFails, RequestTimesOut
  <2>2. Begin => memory'.last_run = 0
    BY <1>1, MemoryFacts DEF Begin
  <2>3. QED
    BY <1>1, <1>2, <2>1, <2>2, ReconcilerAssumption DEF MemoryInv
<1>3. CASE Begin
  <2>1. /\ memory' = [last_run |-> 0, requested |-> memory.requested]
        /\ UNCHANGED <<saved, asked>>
    BY <1>1, <1>3, MemoryFacts DEF Begin
  <2>2. StateOK(memory') /\ memory'.last_run \in 0 .. Period
    BY <1>1, <2>1, ReconcilerAssumption DEF StateOK
  <2>3. QED
    BY <1>1, <2>1, <2>2 DEF MemoryInv
<1>4. CASE MakePlan
  <2>1. /\ memory' = [last_run |-> memory.last_run, requested |-> Retained(memory.requested)]
        /\ UNCHANGED <<saved, asked>> /\ pc = "plan"
    BY <1>1, <1>4, MemoryFacts DEF MakePlan
  <2>2. Ages(Retained(memory.requested))
    BY <1>1 DEF Retained, Ages
  <2>3. StateOK(memory') /\ memory'.last_run \in 0 .. Period
    BY <1>1, <2>1, <2>2 DEF StateOK
  <2>4. QED
    BY <1>1, <2>1, <2>3 DEF MemoryInv
<1>5. CASE Save \/ Start
  BY <1>1, <1>5 DEF Save, Start, MemoryInv
<1>6. CASE Stop
  <2>1. StateOK(NewState)
    BY DEF NewState, StateOK, Ages
  <2>2. Ages(saved.requested)
    BY <1>1 DEF StateOK
  <2>3. QED
    BY <1>1, <1>6, <2>1, <2>2 DEF Stop, MemoryInv
<1>7. ASSUME NEW f \in Files, RequestFile(f)
      PROVE  MemoryInv'
  <2>1. /\ pc = "ask" /\ UNCHANGED <<pc, saved>>
        /\ memory' = [last_run |-> memory.last_run, requested |-> Put(memory.requested, f, memory.last_run)]
        /\ asked' = Put(asked, f, memory.last_run)
    BY <1>1, <1>7, MemoryFacts DEF RequestFile
  <2>2. Ages(asked') /\ Ages(Put(memory.requested, f, memory.last_run))
    BY <1>1, <2>1, AgesPut
  <2>3. StateOK(memory') /\ memory'.last_run \in 0 .. Period
    BY <1>1, <2>1, <2>2 DEF StateOK
  <2>4. QED
    BY <1>1, <2>1, <2>2, <2>3 DEF MemoryInv
<1>8. CASE Tick
  <2>1. /\ memory' = OlderState(memory) /\ saved' = OlderState(saved)
        /\ asked' = OlderAll(asked) /\ UNCHANGED pc
    BY <1>8 DEF Tick
  <2>2. QED
    BY <1>1, <2>1, OlderStateFacts, OlderAllFacts DEF MemoryInv
<1>9. QED
  BY <1>2, <1>3, <1>4, <1>5, <1>6, <1>7, <1>8, Frame

\* The type invariant is inductive.
LEMMA TypeInit == ASSUME Init PROVE TypeInv
<1>1. WorldInv
  BY DEF Init, WorldInv, RowsOf, SnapshotOK
<1>2. PassInv
  BY DEF Init, PassInv, SnapshotOK
<1>3. MemoryInv
  BY DEF Init, MemoryInv, NewState, StateOK, Ages
<1>4. QED
  BY <1>1, <1>2, <1>3 DEF TypeInv, Init

LEMMA TypeStep == ASSUME TypeInv, [Next]_vars PROVE TypeInv'
<1>1. WorldInv' /\ PassInv' /\ MemoryInv'
  BY WorldStep, PassStep, MemoryStep DEF TypeInv
<1>2. force' \in BOOLEAN
  BY Frame DEF TypeInv, Begin, ReconcileNow, Stop
<1>3. QED
  BY <1>1, <1>2 DEF TypeInv

\* The type invariant, for any files, period, grace and failures: what a pass of
\* the reconciler asks for are files the payload has a row for, whatever was cut
\* off the snapshot, and its times are known while it runs (run, classify).
THEOREM ReconcilerTypes == Spec => []TypeOK
<1>1. Init => TypeInv
  BY TypeInit
<1>2. TypeInv /\ [Next]_vars => TypeInv'
  BY TypeStep
<1>3. TypeInv => TypeOK
  BY TypeInvIsType
<1>4. QED
  BY <1>1, <1>2, <1>3, PTL DEF Spec
-----------------------------------------------------------------------------
(* Once per period.                                                        *)

\* What was asked for less than a period ago is in t, as old or younger.
Remembers(t) ==
  \A f \in DOMAIN asked : asked[f] < Period => f \in DOMAIN t /\ t[f] <= asked[f]

\* The memory knows of every request; so does the state file while no pass runs.
RequestInv ==
  /\ pc # "down" => Remembers(memory.requested)
  /\ pc \in {"idle", "down"} => Remembers(saved.requested)

LEMMA RequestStep == ASSUME TypeInv, RequestInv, [Next]_vars PROVE RequestInv'
<1>1. /\ StateOK(memory) /\ StateOK(saved)
      /\ Ages(asked) /\ Ages(memory.requested) /\ Ages(saved.requested)
      /\ pc \notin {"idle", "down"} => memory.last_run \in 0 .. Period
  BY DEF TypeInv, MemoryInv, StateOK
<1>2. CASE UNCHANGED <<memory, saved, asked>> /\ (pc' = pc \/ Pass)
  <2>1. pc' # "down" => pc # "down"
    BY <1>2 DEF Pass, Begin, PassFails, ReadHolding, AskPending, AskPendingFails, MakePlan, EndOfPlan,
       Save, SkipFile, RequestFile, RequestFails, RequestTimesOut
  <2>2. pc' \in {"idle", "down"} => pc \in {"idle", "down"} \/ Save
    BY <1>2 DEF Pass, Begin, PassFails, ReadHolding, AskPending, AskPendingFails, MakePlan, EndOfPlan,
       SkipFile, RequestFile, RequestFails, RequestTimesOut
  <2>3. Save => saved' = memory /\ pc # "down"
    BY DEF Save
  <2>4. QED
    BY <1>2, <2>1, <2>2, <2>3 DEF RequestInv, Remembers
<1>3. CASE Begin
  <2>1. memory'.requested = memory.requested /\ UNCHANGED asked /\ pc # "down" /\ pc' \notin {"idle", "down"}
    BY <1>1, <1>3, MemoryFacts DEF Begin
  <2>2. QED
    BY <2>1 DEF RequestInv, Remembers
<1>4. CASE MakePlan
  <2>1. /\ memory'.requested = Retained(memory.requested) /\ UNCHANGED asked
        /\ pc # "down" /\ pc' \notin {"idle", "down"}
    BY <1>1, <1>4, MemoryFacts DEF MakePlan
  <2>2. ASSUME NEW f \in DOMAIN asked, asked[f] < Period
        PROVE  f \in DOMAIN Retained(memory.requested) /\ Retained(memory.requested)[f] <= asked[f]
    <3>1. f \in DOMAIN memory.requested /\ memory.requested[f] <= asked[f]
      BY <2>1, <2>2 DEF RequestInv, Remembers
    <3>2. memory.requested[f] \in 0 .. Period /\ asked[f] \in 0 .. Period
      BY <1>1, <3>1 DEF Ages
    <3>3. memory.requested[f] < Period
      BY <2>2, <3>1, <3>2, ReconcilerAssumption
    <3>4. QED
      BY <3>1, <3>3 DEF Retained
  <2>3. QED
    BY <2>1, <2>2 DEF RequestInv, Remembers
<1>5. CASE Save
  BY <1>5 DEF Save, RequestInv, Remembers
<1>6. CASE Stop
  <2>1. UNCHANGED saved /\ pc' = "down" /\ asked' = IF pc = "idle" THEN asked ELSE saved.requested
    BY <1>6 DEF Stop
  <2>2. \A f \in DOMAIN saved.requested : saved.requested[f] <= saved.requested[f]
    BY <1>1, ReconcilerAssumption DEF Ages
  <2>3. QED
    BY <2>1, <2>2 DEF RequestInv, Remembers
<1>7. CASE Start
  BY <1>7 DEF Start, RequestInv, Remembers
<1>8. ASSUME NEW f \in Files, RequestFile(f)
      PROVE  RequestInv'
  <2>1. /\ pc = "ask" /\ UNCHANGED pc
        /\ memory'.requested = Put(memory.requested, f, memory.last_run)
        /\ asked' = Put(asked, f, memory.last_run)
    BY <1>1, <1>8, MemoryFacts DEF RequestFile
  <2>2. memory.last_run <= memory.last_run
    BY <1>1, <2>1, ReconcilerAssumption
  <2>3. ASSUME NEW g \in DOMAIN asked', asked'[g] < Period
        PROVE  g \in DOMAIN memory'.requested /\ memory'.requested[g] <= asked'[g]
    <3>1. CASE g = f
      BY <2>1, <2>2, <3>1 DEF Put
    <3>2. CASE g # f
      <4>1. g \in DOMAIN asked /\ asked'[g] = asked[g]
        BY <2>1, <2>3, <3>2 DEF Put
      <4>2. g \in DOMAIN memory.requested /\ memory.requested[g] <= asked[g]
        BY <2>1, <2>3, <4>1 DEF RequestInv, Remembers
      <4>3. QED
        BY <2>1, <3>2, <4>1, <4>2 DEF Put
    <3>3. QED
      BY <3>1, <3>2
  <2>4. QED
    BY <2>1, <2>3 DEF RequestInv, Remembers
<1>9. CASE Tick
  <2>1. /\ memory'.requested = OlderAll(memory.requested) /\ saved'.requested = OlderAll(saved.requested)
        /\ asked' = OlderAll(asked) /\ UNCHANGED pc
    BY <1>1, <1>9, OlderStateFacts DEF Tick
  <2>2. ASSUME NEW t, Ages(t), Remembers(t), NEW f \in DOMAIN OlderAll(asked), OlderAll(asked)[f] < Period
        PROVE  f \in DOMAIN OlderAll(t) /\ OlderAll(t)[f] <= OlderAll(asked)[f]
    <3>1. f \in DOMAIN asked /\ asked[f] \in 0 .. Period /\ OlderAll(asked)[f] = Older(asked[f], Period)
      BY <1>1, <2>2, OlderAllFacts DEF Ages
    <3>2. asked[f] < Period /\ OlderAll(asked)[f] = asked[f] + 1
      BY <2>2, <3>1, OlderFacts
    <3>3. f \in DOMAIN t /\ t[f] <= asked[f] /\ t[f] \in 0 .. Period
      BY <2>2, <3>1, <3>2 DEF Remembers, Ages
    <3>4. f \in DOMAIN OlderAll(t) /\ OlderAll(t)[f] = Older(t[f], Period)
      BY <2>2, <3>3, OlderAllFacts
    <3>5. Older(t[f], Period) <= t[f] + 1
      BY <3>3 DEF Older
    <3>6. QED
      BY <3>1, <3>2, <3>3, <3>4, <3>5, OlderFacts
  <2>3. QED
    BY <1>1, <2>1, <2>2 DEF RequestInv, Remembers
<1>10. QED
  BY <1>2, <1>3, <1>4, <1>5, <1>6, <1>7, <1>8, <1>9, Frame

\* OncePerPeriod, for any files, period, grace and failures: the memory of
\* requests, over restarts and forced passes, forgets none within a period
\* (the retain of run, save and load).
THEOREM RequestedOncePerPeriod == Spec => OncePerPeriod
<1>1. Init => TypeInv /\ RequestInv
  <2>1. Init => RequestInv
    BY DEF Init, RequestInv, Remembers
  <2>2. QED
    BY <2>1, TypeInit
<1>2. TypeInv /\ RequestInv /\ [Next]_vars => (TypeInv /\ RequestInv)'
  BY TypeStep, RequestStep
<1>3. ASSUME TypeInv, RequestInv, NEW f \in DOMAIN asked, RequestFile(f) \/ RequestTimesOut(f)
      PROVE  asked[f] >= Period
  <2>1. pc = "ask" /\ f \notin DOMAIN memory.requested
    BY <1>3 DEF RequestFile, RequestTimesOut, Skipped
  <2>2. ~(asked[f] < Period)
    BY <1>3, <2>1 DEF RequestInv, Remembers
  <2>3. asked[f] \in 0 .. Period
    BY <1>3 DEF TypeInv, MemoryInv, Ages
  <2>4. QED
    BY <2>2, <2>3, ReconcilerAssumption
<1>4. TypeInv /\ RequestInv /\ [Next]_vars =>
        [\A f \in DOMAIN asked : RequestFile(f) \/ RequestTimesOut(f) => asked[f] >= Period]_vars
  BY <1>3
<1>5. QED
  BY <1>1, <1>2, <1>4, PTL DEF Spec, OncePerPeriod

-----------------------------------------------------------------------------
(* The snapshot that landed.                                               *)

\* dump_csv and parse_snapshot agree on quoting: for every ledger of file names over
\* any characters, the whole dump is read as exactly the rows that were written, or,
\* when a name holds a line break, refused as a whole.
THEOREM SnapshotReadsBack == Spec => []ReadsBack
<1>1. SameRows /\ BreakRefused
  BY WholeIsTheSame, BreakIsMalformed
<1> HIDE DEF SameRows, BreakRefused
<1>2. ReadsBack
  BY <1>1 DEF ReadsBack
<1>3. QED
  BY <1>2, PTL

\* A sender killed while dump_csv writes leaves a dump of any length behind: what
\* parse_snapshot accepts of it is a prefix of the ledger, but for the end of the last
\* size, and no row that was written whole is missing.
THEOREM SnapshotCutShort == Spec => []CutShort
<1>1. NoRowMadeUp /\ NoRowLeftOut
  BY CutIsAPrefix, CutKeepsRows
<1> HIDE DEF NoRowMadeUp, NoRowLeftOut
<1>2. CutShort
  BY <1>1 DEF CutShort
<1>3. QED
  BY <1>2, PTL
=============================================================================
